------------------------- MODULE SessionWorkerProofs -------------------------
(***************************************************************************)
(* Proofs about SessionWorker for any number of workers, inodes and other  *)
(* processes, and any set of signalled workers.                            *)
(***************************************************************************)
EXTENDS SessionWorker, TLAPS

-----------------------------------------------------------------------------
(* The actions, case by case *)

\* What can happen to one worker, for the case splits below; a signal may come
\* from anybody.
Step(w) ==
  \/ Spawn(w) \/ WorkerStep(w) \/ IdleStop(w) \/ ParentDies(w)
  \/ SigtermTo(w) \/ SigkillTo(w)

\* Every step is a step of one worker or leaves everything as it is.
LEMMA NextCases ==
  ASSUME [Next]_vars
  PROVE  (\E w \in Workers : Step(w)) \/ UNCHANGED vars
  BY DEF Next, WorkerNext, Finished, Step, Signal

-----------------------------------------------------------------------------
(* Type correctness *)

\* Every step keeps the types.
LEMMA TypeStep ==
  ASSUME TypeOK, NEW w \in Workers, Step(w)
  PROVE  TypeOK'
<1> USE WorkerAssumption, FSAssumption
    DEF TypeOK, FSTypeOK, Pcs, LockedPcs, Codes, Goto, Decide, auxVars, workerVars,
        lockVars, dataVars, fsVars, vars
<1>1. CASE Spawn(w)
  BY <1>1 DEF Spawn
<1>2. CASE OpenLock(w)
  BY <1>2 DEF OpenLock, OpenCreate, FreeInodes
<1>3. CASE WinLock(w)
  BY <1>3 DEF WinLock, Flock
<1>4. CASE LoseLock(w)
  BY <1>4 DEF LoseLock, Die, CloseLockFd
<1>5. CASE TruncateLock(w)
  BY <1>5 DEF TruncateLock, WriteLock
<1>6. CASE RecordPid(w) \/ SyncLock(w)
  BY <1>6 DEF RecordPid, SyncLock, WriteLock
<1>7. CASE CheckSlot(w)
  BY <1>7 DEF CheckSlot, AbortCreate
<1>8. CASE ReclaimEntries(w)
  BY <1>8 DEF ReclaimEntries, RemoveEntries, AbortCreate
<1>9. CASE ReclaimDir(w)
  BY <1>9 DEF ReclaimDir, CanRemoveDir, RemoveDir, AbortCreate
<1>10. CASE MakeDir(w)
  BY <1>10 DEF MakeDir, AbortCreate
<1>11. CASE WriteIdentity(w)
  BY <1>11 DEF WriteIdentity, Cleanup
<1>12. CASE Materialize(w)
  BY <1>12 DEF Materialize, Cleanup
<1>13. CASE ReportDaemonError(w) \/ ReportRequiredFailure(w)
  BY <1>13 DEF ReportDaemonError, ReportRequiredFailure, Cleanup
<1>14. CASE ReportSuccess(w)
  BY <1>14 DEF ReportSuccess
<1>15. CASE ReportLost(w)
  BY <1>15 DEF ReportLost, Die, CloseLockFd
<1>16. CASE InstallHandlers(w) \/ StopAll(w) \/ IdleStop(w)
  BY <1>16 DEF InstallHandlers, StopAll, IdleStop
<1>17. CASE UnlinkLock(w)
  BY <1>17 DEF UnlinkLock, UnlinkName
<1>18. CASE CloseLock(w)
  BY <1>18 DEF CloseLock, CloseLockFd
<1>19. CASE WipeData(w)
  BY <1>19 DEF WipeData, WipeEntries, RemoveEntries
<1>20. CASE WipeSlot(w)
  BY <1>20 DEF WipeSlot, WipeDir, RemoveDir
<1>21. CASE ParentDies(w)
  BY <1>21 DEF ParentDies
<1>22. CASE SigtermTo(w) \/ SigkillTo(w)
  BY <1>22 DEF SigtermTo, SigkillTo, Die, CloseLockFd
<1>23. CASE FailAcquire(w)
  <2>1. leftover' \in BOOLEAN
    BY <1>23 DEF FailAcquire
  <2> QED
    BY <1>23, <2>1 DEF FailAcquire, CloseLockFd
<1> QED
  BY <1>1, <1>2, <1>3, <1>4, <1>5, <1>6, <1>7, <1>8, <1>9, <1>10, <1>11,
     <1>12, <1>13, <1>14, <1>15, <1>16, <1>17, <1>18, <1>19, <1>20, <1>21,
     <1>22, <1>23 DEF Step, WorkerStep

\* Every variable keeps its type, in every behaviour of any number of workers.
THEOREM TypeCorrect == Spec => []TypeOK
<1>1. Init => TypeOK
  BY FSAssumption, WorkerAssumption
     DEF Init, FSInit, TypeOK, FSTypeOK, Pcs, LockedPcs, Codes
<1>2. TypeOK /\ [Next]_vars => TypeOK'
  <2> SUFFICES ASSUME TypeOK, [Next]_vars PROVE TypeOK'
    OBVIOUS
  <2>1. CASE \E w \in Workers : Step(w)
    BY <2>1, TypeStep
  <2>2. CASE UNCHANGED vars
    BY <2>2 DEF vars, fsVars, lockVars, dataVars, workerVars, auxVars, TypeOK, FSTypeOK
  <2> QED
    BY <2>1, <2>2, NextCases
<1> QED
  BY <1>1, <1>2, PTL DEF Spec

-----------------------------------------------------------------------------
(* The inductive invariant *)

\* A flock belongs to a process that has the inode open; a worker that has not
\* opened the lock has no descriptor, one about to lock it has one.
DescriptorInv ==
  /\ \A i \in Inodes : flocked[i] # None => fd[flocked[i]] = i
  /\ \A w \in Workers :
       /\ pc[w] \in {"idle", "open"} => fd[w] = None
       /\ pc[w] = "flock" => fd[w] # None

\* Until a release, everybody has the linked inode open, and nobody is past
\* the unlink.
ReleaseInv ==
  ~released =>
    /\ \A p \in Procs : fd[p] # None => fd[p] = lockFile
    /\ \A w \in Workers : pc[w] \notin {"close", "abortclose", "wipe", "wiperm"}

BeforeSession ==
  {"idle", "open", "flock", "truncate", "record", "sync", "check", "reclaim",
   "rmdir", "mkdir", "identity"}

\* Nothing is stored without a directory, a worker has no kubeconfig before its
\* session, and until a release the directory it has made is there and empty.
SlotInv ==
  /\ slot # "dir" => Empty
  /\ \A w \in materialized : pc[w] \notin BeforeSession
  /\ ~released => \A w \in Workers : pc[w] = "identity" => slot = "dir" /\ Empty

\* With an unsafe slot, no worker gets past the check.
UnsafeInv ==
  slot = "unsafe" =>
    \A w \in Workers :
      pc[w] \in {"idle", "open", "flock", "truncate", "record", "sync", "check",
                "abort", "abortclose", "exited"}

\* A worker that has failed by itself only cleans up.
FailedInv ==
  \A w \in Workers : rc[w] = "failed" =>
    pc[w] \in {"unlink", "close", "wipe", "wiperm", "abort", "abortclose", "exited"}

LockInv == TypeOK /\ DescriptorInv /\ RecordedPidIsHolder

IInv ==
  /\ LockInv
  /\ ReleaseInv
  /\ ExclusionUntilRelease
  /\ SlotInv
  /\ FailedInv
  /\ OwnDataUntilRelease
  /\ UnsafeInv

-----------------------------------------------------------------------------
(* session.lock names its holder *)

\* No step takes the flock or the recorded pid from its holder.
LEMMA LockStep ==
  ASSUME LockInv, TypeOK', NEW w \in Workers, Step(w)
  PROVE  DescriptorInv' /\ RecordedPidIsHolder'
<1> USE WorkerAssumption, FSAssumption
    DEF LockInv, TypeOK, FSTypeOK, DescriptorInv, RecordedPidIsHolder, Locked,
        LockedPcs, RecordedPcs, Goto, auxVars, workerVars, lockVars, dataVars,
        fsVars, vars
<1>1. CASE Spawn(w)
  BY <1>1 DEF Spawn
<1>2. CASE OpenLock(w)
  BY <1>2 DEF OpenLock, OpenCreate, FreeInodes
<1>3. CASE WinLock(w)
  BY <1>3 DEF WinLock, Flock, Contended
<1>4. CASE FailAcquire(w) \/ LoseLock(w) \/ ReportLost(w)
  BY <1>4 DEF FailAcquire, AcquirePcs, LoseLock, ReportLost, Die, CloseLockFd, Contended
<1>5. CASE TruncateLock(w) \/ RecordPid(w) \/ SyncLock(w)
  BY <1>5 DEF TruncateLock, RecordPid, SyncLock, WriteLock
<1>6. CASE CheckSlot(w) \/ ReclaimEntries(w) \/ ReclaimDir(w) \/ MakeDir(w)
  BY <1>6 DEF CheckSlot, ReclaimEntries, ReclaimDir, MakeDir, AbortCreate
<1>7. CASE WriteIdentity(w) \/ Materialize(w)
  BY <1>7 DEF WriteIdentity, Materialize, Cleanup
<1>8. CASE ReportDaemonError(w) \/ ReportRequiredFailure(w) \/ ReportSuccess(w)
  BY <1>8 DEF ReportDaemonError, ReportRequiredFailure, ReportSuccess, Cleanup
<1>9. CASE InstallHandlers(w) \/ StopAll(w) \/ IdleStop(w) \/ ParentDies(w)
  BY <1>9 DEF InstallHandlers, StopAll, IdleStop, ParentDies
<1>10. CASE UnlinkLock(w)
  BY <1>10 DEF UnlinkLock, UnlinkName
<1>11. CASE CloseLock(w)
  BY <1>11 DEF CloseLock, CloseLockFd
<1>12. CASE WipeData(w) \/ WipeSlot(w)
  BY <1>12 DEF WipeData, WipeSlot
<1>13. CASE SigtermTo(w) \/ SigkillTo(w)
  BY <1>13 DEF SigtermTo, SigkillTo, Die, CloseLockFd
<1> QED
  BY <1>1, <1>2, <1>3, <1>4, <1>5, <1>6, <1>7, <1>8, <1>9, <1>10, <1>11,
     <1>12, <1>13 DEF Step, WorkerStep

\* From the write of its pid to the close of its descriptor, a worker holds the
\* flock of an inode that records its pid: no other start truncates it.
THEOREM HolderRecorded == Spec => []RecordedPidIsHolder
<1>1. Init => LockInv
  BY FSAssumption, WorkerAssumption
     DEF Init, FSInit, LockInv, TypeOK, FSTypeOK, Pcs, LockedPcs, Codes,
         DescriptorInv, RecordedPidIsHolder, Locked, RecordedPcs
<1>2. LockInv /\ [Next]_vars => LockInv'
  <2> SUFFICES ASSUME LockInv, [Next]_vars PROVE LockInv'
    OBVIOUS
  <2>1. CASE \E w \in Workers : Step(w)
    BY <2>1, TypeStep, LockStep DEF LockInv
  <2>2. CASE UNCHANGED vars
    BY <2>2 DEF vars, fsVars, lockVars, dataVars, workerVars, auxVars, LockInv,
       TypeOK, FSTypeOK, DescriptorInv, RecordedPidIsHolder, Locked
  <2> QED
    BY <2>1, <2>2, NextCases
<1>3. LockInv => RecordedPidIsHolder
  BY DEF LockInv
<1> QED
  BY <1>1, <1>2, <1>3, PTL DEF Spec

-----------------------------------------------------------------------------
(* Exclusion and ownership until a release *)

\* Until an unlink, every descriptor is on the inode the name leads to.
LEMMA ReleaseStep ==
  ASSUME LockInv, ReleaseInv, NEW w \in Workers, Step(w)
  PROVE  ReleaseInv'
<1> USE WorkerAssumption, FSAssumption
    DEF LockInv, TypeOK, FSTypeOK, DescriptorInv, ReleaseInv, Goto, auxVars,
        workerVars, lockVars, dataVars, fsVars, vars
<1>1. CASE Spawn(w)
  BY <1>1 DEF Spawn
<1>2. CASE OpenLock(w)
  BY <1>2 DEF OpenLock, OpenCreate, FreeInodes
<1>3. CASE WinLock(w) \/ TruncateLock(w) \/ RecordPid(w) \/ SyncLock(w)
  BY <1>3 DEF WinLock, TruncateLock, RecordPid, SyncLock, Flock, WriteLock
<1>4. CASE FailAcquire(w) \/ LoseLock(w) \/ ReportLost(w)
  BY <1>4 DEF FailAcquire, AcquirePcs, LoseLock, ReportLost, Die, CloseLockFd
<1>5. CASE CheckSlot(w) \/ ReclaimEntries(w) \/ ReclaimDir(w) \/ MakeDir(w)
  BY <1>5 DEF CheckSlot, ReclaimEntries, ReclaimDir, MakeDir, AbortCreate
<1>6. CASE WriteIdentity(w) \/ Materialize(w)
  BY <1>6 DEF WriteIdentity, Materialize, Cleanup
<1>7. CASE ReportDaemonError(w) \/ ReportRequiredFailure(w) \/ ReportSuccess(w)
  BY <1>7 DEF ReportDaemonError, ReportRequiredFailure, ReportSuccess, Cleanup
<1>8. CASE InstallHandlers(w) \/ StopAll(w) \/ IdleStop(w) \/ ParentDies(w)
  BY <1>8 DEF InstallHandlers, StopAll, IdleStop, ParentDies
<1>9. CASE UnlinkLock(w)
  BY <1>9 DEF UnlinkLock
<1>10. CASE CloseLock(w) \/ WipeData(w) \/ WipeSlot(w)
  BY <1>10 DEF CloseLock, WipeData, WipeSlot
<1>11. CASE SigtermTo(w) \/ SigkillTo(w)
  BY <1>11 DEF SigtermTo, SigkillTo, Die, CloseLockFd
<1> QED
  BY <1>1, <1>2, <1>3, <1>4, <1>5, <1>6, <1>7, <1>8, <1>9, <1>10, <1>11
     DEF Step, WorkerStep

\* A worker that writes in tunnel-data is the only one with the lock, and one
\* that wipes it has released the lock before.
LEMMA DataStep ==
  ASSUME IInv, TypeOK', NEW w \in Workers, Step(w)
  PROVE  SlotInv' /\ OwnDataUntilRelease'
<1> USE WorkerAssumption, FSAssumption
    DEF IInv, LockInv, TypeOK, FSTypeOK, ReleaseInv, ExclusionUntilRelease,
        SlotInv, FailedInv, OwnDataUntilRelease, UnsafeInv, Empty, InSession,
        SessionPcs, BeforeSession, Locked, LockedPcs, Goto, Decide, auxVars, workerVars, dataVars,
        fsVars, vars
<1>1. CASE \/ Spawn(w) \/ OpenLock(w) \/ WinLock(w) \/ TruncateLock(w)
              \/ RecordPid(w) \/ SyncLock(w)
  BY <1>1 DEF Spawn, OpenLock, WinLock, TruncateLock, RecordPid, SyncLock
<1>2. CASE FailAcquire(w) \/ LoseLock(w) \/ ReportLost(w)
  BY <1>2 DEF FailAcquire, AcquirePcs, LoseLock, ReportLost, Die
<1>3. CASE CheckSlot(w)
  BY <1>3 DEF CheckSlot, AbortCreate
<1>4. CASE ReclaimEntries(w)
  BY <1>4 DEF ReclaimEntries, AbortCreate, RemoveEntries
<1>5. CASE ReclaimDir(w)
  BY <1>5 DEF ReclaimDir, AbortCreate, CanRemoveDir, RemoveDir
<1>6. CASE MakeDir(w)
  BY <1>6 DEF MakeDir, AbortCreate
<1>7. CASE WriteIdentity(w)
  BY <1>7 DEF WriteIdentity, Cleanup
<1>8. CASE Materialize(w)
  BY <1>8 DEF Materialize, Cleanup
<1>9. CASE ReportDaemonError(w) \/ ReportRequiredFailure(w) \/ ReportSuccess(w)
  BY <1>9 DEF ReportDaemonError, ReportRequiredFailure, ReportSuccess, Cleanup
<1>10. CASE InstallHandlers(w) \/ StopAll(w) \/ IdleStop(w) \/ ParentDies(w)
  BY <1>10 DEF InstallHandlers, StopAll, IdleStop, ParentDies
<1>11. CASE UnlinkLock(w)
  BY <1>11 DEF UnlinkLock
<1>12. CASE CloseLock(w)
  BY <1>12 DEF CloseLock
<1>13. CASE WipeData(w)
  BY <1>13 DEF WipeData, WipeEntries, RemoveEntries
<1>14. CASE WipeSlot(w)
  BY <1>14 DEF WipeSlot, WipeDir, CanRemoveDir, RemoveDir
<1>15. CASE SigtermTo(w) \/ SigkillTo(w)
  BY <1>15 DEF SigtermTo, SigkillTo, Die
<1> QED
  BY <1>1, <1>2, <1>3, <1>4, <1>5, <1>6, <1>7, <1>8, <1>9, <1>10, <1>11,
     <1>12, <1>13, <1>14, <1>15 DEF Step, WorkerStep

\* No step takes a failed worker back to its work.
LEMMA FailedStep ==
  ASSUME TypeOK, FailedInv, NEW w \in Workers, Step(w)
  PROVE  FailedInv'
<1> USE DEF TypeOK, FailedInv, Goto, Decide, auxVars, workerVars, vars
<1>1. CASE \/ Spawn(w) \/ OpenLock(w) \/ WinLock(w) \/ TruncateLock(w)
              \/ RecordPid(w) \/ SyncLock(w)
  BY <1>1 DEF Spawn, OpenLock, WinLock, TruncateLock, RecordPid, SyncLock
<1>2. CASE FailAcquire(w) \/ LoseLock(w) \/ ReportLost(w)
  BY <1>2 DEF FailAcquire, LoseLock, ReportLost, Die
<1>3. CASE CheckSlot(w) \/ ReclaimEntries(w) \/ ReclaimDir(w) \/ MakeDir(w)
  BY <1>3 DEF CheckSlot, ReclaimEntries, ReclaimDir, MakeDir, AbortCreate
<1>4. CASE WriteIdentity(w) \/ Materialize(w)
  BY <1>4 DEF WriteIdentity, Materialize, Cleanup
<1>5. CASE ReportDaemonError(w) \/ ReportRequiredFailure(w) \/ ReportSuccess(w)
  BY <1>5 DEF ReportDaemonError, ReportRequiredFailure, ReportSuccess, Cleanup
<1>6. CASE InstallHandlers(w) \/ StopAll(w) \/ IdleStop(w) \/ ParentDies(w)
  BY <1>6 DEF InstallHandlers, StopAll, IdleStop, ParentDies
<1>7. CASE UnlinkLock(w) \/ CloseLock(w) \/ WipeData(w) \/ WipeSlot(w)
  BY <1>7 DEF UnlinkLock, CloseLock, WipeData, WipeSlot
<1>8. CASE SigtermTo(w) \/ SigkillTo(w)
  BY <1>8 DEF SigtermTo, SigkillTo, Die
<1> QED
  BY <1>1, <1>2, <1>3, <1>4, <1>5, <1>6, <1>7, <1>8 DEF Step, WorkerStep

\* No step gets a worker past the check over an unsafe slot.
LEMMA UnsafeStep ==
  ASSUME IInv, NEW w \in Workers, Step(w)
  PROVE  UnsafeInv' /\ (slot = "unsafe" => slot' = "unsafe")
<1> USE DEF IInv, LockInv, TypeOK, FSTypeOK, UnsafeInv, Pcs, LockedPcs, Goto, auxVars,
        workerVars, dataVars, fsVars, vars
<1>1. CASE \/ Spawn(w) \/ OpenLock(w) \/ WinLock(w) \/ TruncateLock(w)
              \/ RecordPid(w) \/ SyncLock(w)
  BY <1>1 DEF Spawn, OpenLock, WinLock, TruncateLock, RecordPid, SyncLock
<1>2. CASE FailAcquire(w) \/ LoseLock(w) \/ ReportLost(w)
  BY <1>2 DEF FailAcquire, AcquirePcs, LoseLock, ReportLost, Die
<1>3. CASE CheckSlot(w) \/ ReclaimEntries(w) \/ ReclaimDir(w) \/ MakeDir(w)
  BY <1>3 DEF CheckSlot, ReclaimEntries, ReclaimDir, MakeDir, AbortCreate,
     RemoveEntries, CanRemoveDir, RemoveDir
<1>4. CASE WriteIdentity(w) \/ Materialize(w)
  BY <1>4 DEF WriteIdentity, Materialize, Cleanup
<1>5. CASE ReportDaemonError(w) \/ ReportRequiredFailure(w) \/ ReportSuccess(w)
  BY <1>5 DEF ReportDaemonError, ReportRequiredFailure, ReportSuccess, Cleanup
<1>6. CASE InstallHandlers(w) \/ StopAll(w) \/ IdleStop(w) \/ ParentDies(w)
  BY <1>6 DEF InstallHandlers, StopAll, IdleStop, ParentDies
<1>7. CASE UnlinkLock(w) \/ CloseLock(w)
  BY <1>7 DEF UnlinkLock, CloseLock
<1>8. CASE WipeData(w) \/ WipeSlot(w)
  BY <1>8 DEF WipeData, WipeEntries, RemoveEntries, WipeSlot, WipeDir,
     CanRemoveDir, RemoveDir
<1>9. CASE SigtermTo(w) \/ SigkillTo(w)
  BY <1>9 DEF SigtermTo, SigkillTo, Die
<1> QED
  BY <1>1, <1>2, <1>3, <1>4, <1>5, <1>6, <1>7, <1>8, <1>9 DEF Step, WorkerStep

\* The invariant holds at the start.
LEMMA IInvInit == Init => IInv
BY FSAssumption, WorkerAssumption
   DEF Init, FSInit, IInv, LockInv, TypeOK, FSTypeOK, Pcs, LockedPcs, Codes,
       DescriptorInv, RecordedPidIsHolder, Locked, RecordedPcs, ReleaseInv,
       ExclusionUntilRelease, SlotInv, FailedInv, OwnDataUntilRelease, InSession,
       SessionPcs, BeforeSession, Empty, UnsafeInv

\* Every step keeps the invariant.
LEMMA IInvStep == IInv /\ [Next]_vars => IInv'
<1> SUFFICES ASSUME IInv, [Next]_vars PROVE IInv'
  OBVIOUS
<1>1. ASSUME NEW w \in Workers, Step(w) PROVE IInv'
  <2>1. LockInv'
    BY <1>1, TypeStep, LockStep DEF IInv, LockInv
  <2>2. ReleaseInv'
    BY <1>1, ReleaseStep DEF IInv
  \* With one inode behind every descriptor, one flock means one holder.
  <2>3. ExclusionUntilRelease'
    BY <2>1, <2>2, WorkerAssumption
       DEF LockInv, RecordedPidIsHolder, ReleaseInv, ExclusionUntilRelease, Locked
  <2>4. SlotInv' /\ OwnDataUntilRelease'
    BY <1>1, <2>1, DataStep DEF LockInv
  <2>5. UnsafeInv'
    BY <1>1, UnsafeStep
  <2>6. FailedInv'
    BY <1>1, FailedStep DEF IInv, LockInv
  <2> QED
    BY <2>1, <2>2, <2>3, <2>4, <2>5, <2>6 DEF IInv
<1>2. CASE UNCHANGED vars
  BY <1>2 DEF vars, fsVars, lockVars, dataVars, workerVars, auxVars, IInv,
     LockInv, TypeOK, FSTypeOK, DescriptorInv, RecordedPidIsHolder, Locked,
     ReleaseInv, ExclusionUntilRelease, SlotInv, FailedInv, OwnDataUntilRelease,
     InSession, Empty, UnsafeInv
<1> QED
  BY <1>1, <1>2, NextCases

\* The invariant holds throughout.
LEMMA InvariantHolds == Spec => []IInv
  BY IInvInit, IInvStep, PTL DEF Spec

\* Any number of workers may start at once: until one of them releases the
\* lock, at most one is past acquire_session_lock.
THEOREM Exclusion == Spec => []ExclusionUntilRelease
<1>1. IInv => ExclusionUntilRelease
  BY DEF IInv
<1> QED
  BY <1>1, InvariantHolds, PTL

\* Until a release, a worker in session has the tunnel-data it made, with its
\* pid, all its kubeconfigs and nobody else's.
THEOREM Ownership == Spec => []OwnDataUntilRelease
<1>1. IInv => OwnDataUntilRelease
  BY DEF IInv
<1> QED
  BY <1>1, InvariantHolds, PTL

\* An unsafe tunnel-data is neither replaced nor written, and no worker serves
\* a session over it.
THEOREM UnsafeRefused == Spec => UnsafeSlotRefused
<1>1. IInv /\ IInv' /\ [Next]_vars =>
        [slot = "unsafe" =>
           slot' = "unsafe" /\ Empty' /\ \A w \in Workers : ~InSession(w)']_vars
  <2> SUFFICES ASSUME IInv, IInv', [Next]_vars, slot = "unsafe"
               PROVE  slot' = "unsafe" /\ Empty' /\ \A w \in Workers : ~InSession(w)'
    OBVIOUS
  <2>1. slot' = "unsafe"
    <3>1. CASE \E w \in Workers : Step(w)
      BY <3>1, UnsafeStep
    <3>2. CASE UNCHANGED vars
      BY <3>2 DEF vars, fsVars, dataVars
    <3> QED
      BY <3>1, <3>2, NextCases
  <2>2. Empty'
    BY <2>1 DEF IInv, SlotInv
  <2>3. \A w \in Workers : ~InSession(w)'
    BY <2>1 DEF IInv, UnsafeInv, InSession, SessionPcs
  <2> QED
    BY <2>1, <2>2, <2>3
<1> QED
  BY <1>1, InvariantHolds, PTL DEF Spec, UnsafeSlotRefused

-----------------------------------------------------------------------------
(* The directory after the last worker *)

\* A worker that dies without its cleanup is at its end.
AbruptInv == \A w \in Workers : rc[w] \in Abrupt => pc[w] = "exited"

\* A flock that a worker has is one it has not given up.
HolderInv == \A i \in Inodes : flocked[i] \in Workers => Locked(flocked[i])

\* A worker that is past its unlink has the inode of an older name open, unless
\* a failed call has left the name there is.
UnlinkedInv ==
  \A w \in Workers : pc[w] \in {"close", "abortclose"} => fd[w] # lockFile \/ leftover

\* Nobody else uses the directory.
OthersInv == \A p \in Procs \ Workers : fd[p] = None

\* Who will yet unlink the name, remove an entry, remove the directory.
UnlinkerPcs == {"flock"} \cup (LockedPcs \ {"close", "abortclose"})
EntryPcs    == SessionPcs \cup {"close", "wipe"}
DirPcs      == EntryPcs \cup {"identity", "wiperm"}

NobodyAbrupt == \A w \in Workers : rc[w] \notin Abrupt

\* Whatever there is in the session directory, some worker has still to remove
\* it, but for a name that a failed call has left.  A worker that loses the
\* flock hands the name on to its holder, one that cannot remove a directory
\* leaves it to the owner of what it found there.
DutyInv ==
  NobodyAbrupt =>
    /\ lockFile # None =>
         leftover \/ \E w \in Workers : fd[w] = lockFile /\ pc[w] \in UnlinkerPcs
    /\ pidFile # None => pidFile \in Workers /\ pc[pidFile] \in EntryPcs
    /\ \A p \in secrets : p \in Workers /\ pc[p] \in EntryPcs
    /\ slot = "dir" => \E w \in Workers : pc[w] \in DirPcs

CleanInv == AbruptInv /\ HolderInv /\ UnlinkedInv /\ OthersInv /\ DutyInv

\* A worker's step is a step of its own: the others stay where they are, an end
\* is final, and nobody becomes idle again.
LEMMA OwnStep ==
  ASSUME TypeOK, NEW w \in Workers, Step(w)
  PROVE  /\ \A v \in Workers \ {w} : pc'[v] = pc[v] /\ rc'[v] = rc[v]
         /\ pc[w] = "exited" => pc'[w] = "exited" /\ rc'[w] = rc[w]
         /\ pc[w] # "idle" => pc'[w] # "idle"
         /\ \A p \in Procs \ {w} : fd'[p] = fd[p]
<1> USE WorkerAssumption DEF TypeOK, FSTypeOK, Goto, Decide, lockVars, fsVars, workerVars, vars
<1>1. CASE \/ Spawn(w) \/ OpenLock(w) \/ WinLock(w) \/ TruncateLock(w)
              \/ RecordPid(w) \/ SyncLock(w)
  BY <1>1 DEF Spawn, OpenLock, OpenCreate, WinLock, Flock, TruncateLock, RecordPid, SyncLock,
     WriteLock
<1>2. CASE FailAcquire(w) \/ LoseLock(w) \/ ReportLost(w)
  BY <1>2 DEF FailAcquire, AcquirePcs, LoseLock, ReportLost, Die, CloseLockFd
<1>3. CASE CheckSlot(w) \/ ReclaimEntries(w) \/ ReclaimDir(w) \/ MakeDir(w)
  BY <1>3 DEF CheckSlot, ReclaimEntries, ReclaimDir, MakeDir, AbortCreate
<1>4. CASE WriteIdentity(w) \/ Materialize(w)
  BY <1>4 DEF WriteIdentity, Materialize, Cleanup
<1>5. CASE ReportDaemonError(w) \/ ReportRequiredFailure(w) \/ ReportSuccess(w)
  BY <1>5 DEF ReportDaemonError, ReportRequiredFailure, ReportSuccess, Cleanup
<1>6. CASE InstallHandlers(w) \/ StopAll(w) \/ IdleStop(w) \/ ParentDies(w)
  BY <1>6 DEF InstallHandlers, StopAll, IdleStop, ParentDies
<1>7. CASE UnlinkLock(w) \/ CloseLock(w)
  BY <1>7 DEF UnlinkLock, UnlinkName, CloseLock, CloseLockFd
<1>8. CASE WipeData(w) \/ WipeSlot(w)
  BY <1>8 DEF WipeData, WipeSlot
<1>9. CASE SigtermTo(w) \/ SigkillTo(w)
  BY <1>9 DEF SigtermTo, SigkillTo, Die, CloseLockFd
<1> QED
  BY <1>1, <1>2, <1>3, <1>4, <1>5, <1>6, <1>7, <1>8, <1>9 DEF Step, WorkerStep

\* A worker's step keeps who holds a flock and what an unlink leaves behind.
LEMMA HolderStep ==
  ASSUME LockInv, HolderInv, UnlinkedInv, NEW w \in Workers, Step(w)
  PROVE  HolderInv' /\ UnlinkedInv'
<1> USE WorkerAssumption, FSAssumption
    DEF LockInv, TypeOK, FSTypeOK, DescriptorInv, RecordedPidIsHolder, HolderInv,
        UnlinkedInv, Locked, LockedPcs, Goto, auxVars, workerVars, lockVars, dataVars,
        fsVars, vars
<1>1. CASE Spawn(w)
  BY <1>1 DEF Spawn
<1>2. CASE OpenLock(w)
  BY <1>2 DEF OpenLock, OpenCreate, FreeInodes
<1>3. CASE WinLock(w)
  BY <1>3 DEF WinLock, Flock, Contended
<1>4. CASE FailAcquire(w) \/ LoseLock(w) \/ ReportLost(w)
  BY <1>4 DEF FailAcquire, AcquirePcs, LoseLock, ReportLost, Die, CloseLockFd, Contended
<1>5. CASE TruncateLock(w) \/ RecordPid(w) \/ SyncLock(w)
  BY <1>5 DEF TruncateLock, RecordPid, SyncLock, WriteLock
<1>6. CASE CheckSlot(w) \/ ReclaimEntries(w) \/ ReclaimDir(w) \/ MakeDir(w)
  BY <1>6 DEF CheckSlot, ReclaimEntries, ReclaimDir, MakeDir, AbortCreate
<1>7. CASE WriteIdentity(w) \/ Materialize(w)
  BY <1>7 DEF WriteIdentity, Materialize, Cleanup
<1>8. CASE ReportDaemonError(w) \/ ReportRequiredFailure(w) \/ ReportSuccess(w)
  BY <1>8 DEF ReportDaemonError, ReportRequiredFailure, ReportSuccess, Cleanup
<1>9. CASE InstallHandlers(w) \/ StopAll(w) \/ IdleStop(w) \/ ParentDies(w)
  BY <1>9 DEF InstallHandlers, StopAll, IdleStop, ParentDies
<1>10. CASE UnlinkLock(w)
  BY <1>10 DEF UnlinkLock, UnlinkName
<1>11. CASE CloseLock(w)
  BY <1>11 DEF CloseLock, CloseLockFd
<1>12. CASE WipeData(w) \/ WipeSlot(w)
  BY <1>12 DEF WipeData, WipeSlot
<1>13. CASE SigtermTo(w) \/ SigkillTo(w)
  BY <1>13 DEF SigtermTo, SigkillTo, Die, CloseLockFd
<1> QED
  BY <1>1, <1>2, <1>3, <1>4, <1>5, <1>6, <1>7, <1>8, <1>9, <1>10, <1>11,
     <1>12, <1>13 DEF Step, WorkerStep

\* As long as nobody has died without its cleanup, no step leaves anything in the
\* directory without somebody to remove it.
LEMMA DutyStep ==
  ASSUME LockInv, SlotInv, CleanInv, TypeOK', NEW w \in Workers, Step(w)
  PROVE  DutyInv'
<1> SUFFICES ASSUME NobodyAbrupt' PROVE DutyInv'
  BY DEF DutyInv
<1>1. NobodyAbrupt
  BY OwnStep DEF LockInv, CleanInv, AbruptInv, NobodyAbrupt, Abrupt
<1>2. /\ lockFile # None =>
           leftover \/ \E v \in Workers : fd[v] = lockFile /\ pc[v] \in UnlinkerPcs
      /\ pidFile # None => pidFile \in Workers /\ pc[pidFile] \in EntryPcs
      /\ \A p \in secrets : p \in Workers /\ pc[p] \in EntryPcs
      /\ slot = "dir" => \E v \in Workers : pc[v] \in DirPcs
  BY <1>1 DEF CleanInv, DutyInv
<1> USE <1>2, WorkerAssumption, FSAssumption
    DEF LockInv, TypeOK, FSTypeOK, DutyInv, UnlinkerPcs, EntryPcs,
        DirPcs, SessionPcs, LockedPcs, Goto, auxVars, workerVars, lockVars, dataVars, fsVars, vars
<1>3. CASE Spawn(w)
  BY <1>3 DEF Spawn
<1>4. CASE OpenLock(w)
  BY <1>4 DEF OpenLock, OpenCreate, FreeInodes
<1>5. CASE WinLock(w) \/ TruncateLock(w) \/ RecordPid(w) \/ SyncLock(w)
  BY <1>5 DEF WinLock, Flock, TruncateLock, RecordPid, SyncLock, WriteLock
<1>6. CASE FailAcquire(w)
  <2> USE DEF FailAcquire, AcquirePcs, CloseLockFd
  <2>1. lockFile' # None =>
          leftover' \/ \E v \in Workers : fd'[v] = lockFile' /\ pc'[v] \in UnlinkerPcs
    <3> SUFFICES ASSUME lockFile # None, ~leftover, fd[w] # lockFile
                 PROVE  \E v \in Workers \ {w} : fd[v] = lockFile /\ pc[v] \in UnlinkerPcs
      BY <1>6
    <3> QED
      OBVIOUS
  <2>2. pidFile' # None => pidFile' \in Workers /\ pc'[pidFile'] \in EntryPcs
    BY <1>6
  <2>3. \A p \in secrets' : p \in Workers /\ pc'[p] \in EntryPcs
    BY <1>6
  <2>4. slot' = "dir" => \E v \in Workers : pc'[v] \in DirPcs
    BY <1>6
  <2> QED
    BY <2>1, <2>2, <2>3, <2>4
<1>7. CASE LoseLock(w)
  <2>1. ASSUME lockFile # None, fd[w] = lockFile, ~leftover
        PROVE  \E v \in Workers \ {w} : fd[v] = lockFile /\ pc[v] \in UnlinkerPcs
    <3>1. flocked[lockFile] # None /\ fd[flocked[lockFile]] = lockFile
      BY <1>7, <2>1 DEF LoseLock, Contended, DescriptorInv
    <3>2. flocked[lockFile] \in Workers
      BY <2>1, <3>1 DEF CleanInv, OthersInv
    <3> QED
      BY <1>7, <2>1, <3>1, <3>2 DEF LoseLock, CleanInv, HolderInv, UnlinkedInv, Locked
  <2> QED
    BY <1>7, <2>1 DEF LoseLock, Die, CloseLockFd
<1>8. CASE CheckSlot(w)
  BY <1>8 DEF CheckSlot, AbortCreate
<1>9. CASE ReclaimEntries(w)
  BY <1>9 DEF ReclaimEntries, RemoveEntries, AbortCreate
<1>10. CASE ReclaimDir(w)
  BY <1>10 DEF ReclaimDir, RemoveDir, AbortCreate
<1>11. CASE MakeDir(w)
  BY <1>11 DEF MakeDir, AbortCreate
<1>12. CASE WriteIdentity(w)
  BY <1>12 DEF WriteIdentity, Cleanup
<1>13. CASE Materialize(w)
  BY <1>13 DEF Materialize, Cleanup
<1>14. CASE ReportDaemonError(w) \/ ReportRequiredFailure(w) \/ ReportSuccess(w)
  BY <1>14 DEF ReportDaemonError, ReportRequiredFailure, ReportSuccess, Cleanup
<1>15. CASE InstallHandlers(w) \/ StopAll(w) \/ IdleStop(w) \/ ParentDies(w)
  BY <1>15 DEF InstallHandlers, StopAll, IdleStop, ParentDies
<1>16. CASE UnlinkLock(w)
  BY <1>16 DEF UnlinkLock, UnlinkName
<1>17. CASE CloseLock(w)
  BY <1>17 DEF CloseLock, CloseLockFd
<1>18. CASE WipeData(w)
  BY <1>18 DEF WipeData, WipeEntries, RemoveEntries, SlotInv, Empty
<1>19. CASE WipeSlot(w)
  BY <1>19 DEF WipeSlot, WipeDir, CanRemoveDir, RemoveDir, Empty
<1>20. CASE ReportLost(w) \/ SigtermTo(w) \/ SigkillTo(w)
  BY <1>20 DEF ReportLost, SigtermTo, SigkillTo, Die, Decide, NobodyAbrupt, Abrupt
<1> QED
  BY <1>3, <1>4, <1>5, <1>6, <1>7, <1>8, <1>9, <1>10, <1>11, <1>12, <1>13, <1>14,
     <1>15, <1>16, <1>17, <1>18, <1>19, <1>20 DEF Step, WorkerStep

\* Only a death without a cleanup is recorded as one.
LEMMA AbruptStep ==
  ASSUME TypeOK, AbruptInv, NEW w \in Workers, Step(w)
  PROVE  AbruptInv'
<1>1. CASE rc'[w] \notin Abrupt \/ pc'[w] = "exited"
  BY <1>1, OwnStep DEF TypeOK, AbruptInv
<1>2. rc'[w] \notin Abrupt \/ pc'[w] = "exited"
  BY DEF TypeOK, AbruptInv, Abrupt, Step, WorkerStep, Spawn, OpenLock, FailAcquire, WinLock,
         LoseLock, TruncateLock, RecordPid, SyncLock, CheckSlot, ReclaimEntries, ReclaimDir, MakeDir,
         WriteIdentity, Materialize, ReportDaemonError, ReportRequiredFailure,
         ReportSuccess, ReportLost, InstallHandlers, StopAll, UnlinkLock, CloseLock,
         WipeData, WipeSlot, IdleStop, ParentDies, SigtermTo, SigkillTo, Die, AbortCreate,
         Cleanup, Goto, Decide, vars, workerVars
<1> QED
  BY <1>1, <1>2

\* Every step keeps both invariants.
LEMMA CleanStep == IInv /\ CleanInv /\ [Next]_vars => CleanInv'
<1> SUFFICES ASSUME IInv, CleanInv, [Next]_vars PROVE CleanInv'
  OBVIOUS
<1>1. ASSUME NEW w \in Workers, Step(w) PROVE CleanInv'
  <2>1. AbruptInv'
    BY <1>1, AbruptStep DEF IInv, LockInv, CleanInv
  <2>2. HolderInv' /\ UnlinkedInv'
    BY <1>1, HolderStep DEF IInv, CleanInv
  <2>3. OthersInv'
    BY <1>1, OwnStep DEF IInv, LockInv, CleanInv, OthersInv
  <2>4. DutyInv'
    BY <1>1, TypeStep, DutyStep DEF IInv, LockInv
  <2> QED
    BY <2>1, <2>2, <2>3, <2>4 DEF CleanInv
<1>2. CASE UNCHANGED vars
  BY <1>2 DEF vars, fsVars, lockVars, dataVars, workerVars, auxVars, CleanInv, AbruptInv,
     HolderInv, UnlinkedInv, OthersInv, DutyInv, NobodyAbrupt, Locked
<1> QED
  BY <1>1, <1>2, NextCases

\* When every worker has ended by its own code, tunnel-data is gone, and so is
\* session.lock unless a call of acquire_session_lock or the unlink itself failed
\* and left it, however the starts raced, whatever calls failed, and whatever the
\* losers of a flock and the rmtrees that met somebody else's entries left to
\* others.
THEOREM CleanDirectory == Spec => []CleanAtQuiescence
<1>1. Init => CleanInv
  BY FSAssumption, WorkerAssumption
     DEF Init, FSInit, CleanInv, AbruptInv, HolderInv, UnlinkedInv, OthersInv, DutyInv,
         NobodyAbrupt, Abrupt
<1>2. IInv /\ CleanInv => CleanAtQuiescence
  BY DEF IInv, SlotInv, CleanInv, DutyInv, NobodyAbrupt, CleanAtQuiescence, Empty,
         UnlinkerPcs, EntryPcs, DirPcs, SessionPcs, LockedPcs
<1> QED
  BY <1>1, <1>2, CleanStep, InvariantHolds, PTL DEF Spec
=============================================================================
