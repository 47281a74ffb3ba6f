--------------------------- MODULE SessionCliProofs ---------------------------
(***************************************************************************)
(* Proofs about SessionCli for any number of workers, stop, status and run *)
(* commands on one directory.  The lemmas are about single steps, so that  *)
(* they also serve a specification that schedules the same steps           *)
(* differently.                                                            *)
(***************************************************************************)
EXTENDS SessionCli, SessionWorkerProofs

-----------------------------------------------------------------------------
(* The actions, case by case *)

\* A step of a command.
Act(c) == ReadIdentity(c) \/ CliStep(c)

\* Every step is a worker's, a command's, or the kernel's reuse of a pid.
LEMMA CliCases ==
  ASSUME [CliNext]_allVars
  PROVE  \/ \E w \in Workers : Step(w) /\ UNCHANGED cliVars
         \/ \E w \in Workers : PidReuse(w)
         \/ \E c \in Clis : Act(c)
         \/ UNCHANGED allVars
  BY NextCases DEF CliNext, allVars, Act

\* The constants: a command is neither a worker nor None.
LEMMA Disjoint ==
  /\ \A c \in Clis : c \in Procs /\ c \notin Workers /\ c # None
  /\ \A w \in Workers : w \in Procs /\ w \notin Clis /\ w # None
  BY CliAssumption, WorkerAssumption, FSAssumption DEF Clis

\* What a signal of command c does: a step of the worker c has read about, or
\* nothing in this directory.
LEMMA SignalStep ==
  ASSUME CliTypeOK, NEW c \in Clis, SendTerm(c) \/ SendKill(c)
  PROVE  /\ target[c] \in Workers
         /\ \/ Step(target[c])
            \/ UNCHANGED vars
  BY DEF CliTypeOK, SendTerm, SendKill, Terminate, Kill, Stray, Step

\* Where a verdict leads, and what is said of it.
LEMMA ConcludeCases ==
  ASSUME NEW c, NEW v, Conclude(c, v)
  PROVE  /\ UNCHANGED <<target, forcing, reused, reaped, struck>>
         /\ \/ c \in Statuses /\ CGoto(c, "done")
            \/ v # "match" /\ CGoto(c, "wipe")
            \/ v = "match" /\ (CGoto(c, "kill") \/ CGoto(c, "term"))
         /\ Say(c, v) \/ (v # "match" /\ Say(c, "changed"))
<1>1. \/ c \in Statuses /\ Sequel(c, v) = "done"
      \/ v # "match" /\ Sequel(c, v) = "wipe"
      \/ v = "match" /\ Sequel(c, v) \in {"kill", "term"}
  BY DEF Sequel
<1> QED
  BY <1>1 DEF Conclude

\* The verdict of _check_lock on a contended lock.
LEMMA VerdictCases ==
  ASSUME NEW c
  PROVE  /\ LockVerdict(c) \in {"unavailable", "mismatch", "match"}
         /\ LockVerdict(c) = "match" <=>
              lockFile # None /\ recorded[lockFile] # None /\ recorded[lockFile] = target[c]
  BY DEF LockVerdict

-----------------------------------------------------------------------------
(* Type correctness *)

\* A worker that has written daemon.pid.
IdentifiedPcs == EntryPcs \cup {"wiperm", "exited"}

\* daemon.pid, and what a command has read there, is the pid of a worker that
\* has made it into its session.
IdentityInv ==
  /\ pidFile # None => pidFile \in Workers /\ pc[pidFile] \in IdentifiedPcs
  /\ \A c \in Clis : target[c] # None => pc[target[c]] \in IdentifiedPcs

\* A command's step keeps the types.
LEMMA ActType ==
  ASSUME CliTypeOK, IdentityInv, NEW c \in Clis, Act(c)
  PROVE  CliTypeOK'
<1>1. TypeOK'
  <2>1. CASE UNCHANGED vars
    BY <2>1 DEF CliTypeOK, TypeOK, FSTypeOK, vars, fsVars, lockVars, dataVars,
                workerVars, auxVars
  <2>2. CASE SendTerm(c) \/ SendKill(c)
    BY <2>1, <2>2, SignalStep, TypeStep DEF CliTypeOK
  <2>3. CASE OpenProbe(c) \/ Probe(c)
    BY <2>3, Disjoint DEF OpenProbe, OpenExisting, Probe, Flock, CliTypeOK, TypeOK,
       FSTypeOK, lockVars, dataVars, workerVars, auxVars
  <2>4. CASE ReadPid(c) \/ Unprobe(c)
    BY <2>4, Disjoint DEF ReadPid, Unprobe, CloseLockFd, CliTypeOK, TypeOK,
       FSTypeOK, dataVars, workerVars, auxVars
  <2>5. CASE CliWipeData(c) \/ CliWipeSlot(c)
    BY <2>5 DEF CliWipeData, CliWipeSlot, WipeEntries, WipeDir, RemoveEntries, RemoveDir,
       CliTypeOK, TypeOK, FSTypeOK, lockVars, dataVars, workerVars, auxVars
  <2> QED
    BY <2>1, <2>2, <2>3, <2>4, <2>5
       DEF Act, CliStep, ReadIdentity, CheckExists, CheckIsFile, GraceEnded, GraceExpired, Unheard
<1>2. /\ cpc' \in [Clis -> CliPcs]
      /\ target' \in [Clis -> Workers \cup {None}]
      /\ forcing' \in [Clis -> BOOLEAN]
      /\ report' \in [Clis -> Reports]
      /\ struck' \subseteq Workers
      /\ UNCHANGED <<reused, reaped>>
      /\ \A d \in Clis : cpc'[d] \notin {"read", "wipe", "wiperm", "done", "gone"} => target'[d] # None
  <2> USE DEF CliTypeOK, CliPcs, VerifyPcs, Reports, CGoto, Say
  <2>1. CASE ReadIdentity(c)
    BY <2>1 DEF ReadIdentity, IdentityInv
  <2>2. CASE CheckExists(c)
    BY <2>2, ConcludeCases DEF CheckExists
  <2>3. CASE CheckIsFile(c)
    BY <2>3, ConcludeCases DEF CheckIsFile
  <2>4. CASE OpenProbe(c)
    BY <2>4, ConcludeCases DEF OpenProbe
  <2>5. CASE Probe(c)
    BY <2>5 DEF Probe
  <2>6. CASE ReadPid(c)
    BY <2>6, VerdictCases, ConcludeCases DEF ReadPid
  <2>7. CASE Unprobe(c)
    BY <2>7, ConcludeCases DEF Unprobe
  <2>8. CASE SendTerm(c) \/ SendKill(c)
    BY <2>8, SignalStep DEF SendTerm, SendKill, Terminate, Kill, Stray
  <2>9. CASE GraceEnded(c) \/ GraceExpired(c) \/ Unheard(c)
    BY <2>9 DEF GraceEnded, GraceExpired, Unheard
  <2>10. CASE CliWipeData(c) \/ CliWipeSlot(c)
    BY <2>10 DEF CliWipeData, CliWipeSlot
  <2> QED
    BY <2>1, <2>2, <2>3, <2>4, <2>5, <2>6, <2>7, <2>8, <2>9, <2>10 DEF Act, CliStep
<1> QED
  BY <1>1, <1>2 DEF CliTypeOK

\* A worker with its pid in daemon.pid keeps it there or goes on to its end, and
\* no other pid gets there.
LEMMA IdentityKept ==
  ASSUME TypeOK, NEW w \in Workers, Step(w)
  PROVE  /\ pc[w] \in IdentifiedPcs => pc'[w] \in IdentifiedPcs
         /\ pidFile' \in {pidFile, None} \/ (pidFile' = w /\ pc'[w] \in IdentifiedPcs)
<1> USE DEF TypeOK, FSTypeOK, Goto, IdentifiedPcs, EntryPcs, SessionPcs, lockVars,
        dataVars, fsVars, workerVars, auxVars, vars
<1>1. CASE Spawn(w) \/ OpenLock(w) \/ WinLock(w) \/ TruncateLock(w)
              \/ RecordPid(w) \/ SyncLock(w)
  BY <1>1 DEF Spawn, OpenLock, WinLock, TruncateLock, RecordPid, SyncLock
<1>2. CASE FailAcquire(w) \/ LoseLock(w) \/ ReportLost(w)
  BY <1>2 DEF FailAcquire, LoseLock, ReportLost, Die
<1>3. CASE CheckSlot(w) \/ ReclaimEntries(w) \/ ReclaimDir(w) \/ MakeDir(w)
  BY <1>3 DEF CheckSlot, ReclaimEntries, ReclaimDir, MakeDir, AbortCreate,
     RemoveEntries, RemoveDir
<1>4. CASE WriteIdentity(w) \/ Materialize(w)
  BY <1>4 DEF WriteIdentity, Materialize, Cleanup
<1>5. CASE ReportDaemonError(w) \/ ReportRequiredFailure(w) \/ ReportSuccess(w)
  BY <1>5 DEF ReportDaemonError, ReportRequiredFailure, ReportSuccess, Cleanup
<1>6. CASE InstallHandlers(w) \/ StopAll(w) \/ IdleStop(w) \/ ParentDies(w)
  BY <1>6 DEF InstallHandlers, StopAll, IdleStop, ParentDies
<1>7. CASE UnlinkLock(w) \/ CloseLock(w)
  BY <1>7 DEF UnlinkLock, CloseLock
<1>8. CASE WipeData(w) \/ WipeSlot(w)
  BY <1>8 DEF WipeData, WipeSlot, WipeEntries, WipeDir, RemoveEntries, RemoveDir
<1>9. CASE SigtermTo(w) \/ SigkillTo(w)
  BY <1>9 DEF SigtermTo, SigkillTo, Die
<1> QED
  BY <1>1, <1>2, <1>3, <1>4, <1>5, <1>6, <1>7, <1>8, <1>9 DEF Step, WorkerStep

\* A worker's step keeps the identities.
LEMMA WorkerIdentity ==
  ASSUME CliTypeOK, IdentityInv, NEW w \in Workers, Step(w), UNCHANGED target
  PROVE  IdentityInv'
<1>1. \A v \in Workers : pc[v] \in IdentifiedPcs => pc'[v] \in IdentifiedPcs
  BY OwnStep, IdentityKept DEF CliTypeOK
<1> QED
  BY <1>1, IdentityKept, Disjoint DEF CliTypeOK, IdentityInv

\* A command's step keeps the identities.
LEMMA ActIdentity ==
  ASSUME CliTypeOK, IdentityInv, NEW c \in Clis, Act(c)
  PROVE  IdentityInv'
<1> USE DEF CliTypeOK, vars, fsVars, dataVars, workerVars
<1>1. CASE SendTerm(c) \/ SendKill(c)
  <2>1. UNCHANGED target
    BY <1>1 DEF SendTerm, SendKill
  <2> QED
    BY <2>1, <1>1, SignalStep, WorkerIdentity DEF IdentityInv
<1>2. CASE ReadIdentity(c)
  BY <1>2, Disjoint DEF ReadIdentity, IdentityInv
<1>3. CASE UNCHANGED <<target, pidFile, pc>>
  BY <1>3 DEF IdentityInv
<1>4. CASE CliWipeData(c)
  BY <1>4 DEF CliWipeData, WipeEntries, RemoveEntries, IdentityInv
<1>5. ASSUME \/ CheckExists(c) \/ CheckIsFile(c) \/ OpenProbe(c) \/ Probe(c) \/ ReadPid(c)
             \/ Unprobe(c) \/ GraceEnded(c) \/ GraceExpired(c) \/ Unheard(c) \/ CliWipeSlot(c)
      PROVE  UNCHANGED <<target, pidFile, pc>>
  BY <1>5, ConcludeCases
     DEF CheckExists, CheckIsFile, OpenProbe, Probe, ReadPid, Unprobe, GraceEnded, GraceExpired, Unheard,
         CliWipeSlot, WipeDir, RemoveDir
<1> QED
  BY <1>1, <1>2, <1>3, <1>4, <1>5 DEF Act, CliStep

-----------------------------------------------------------------------------
(* Descriptors and flocks of the commands *)

\* Where a command has session.lock open.
ProbePcs == {"probe", "readpid", "unprobe"}

\* A command has session.lock open exactly while it probes, and it has the flock
\* exactly when it has found the lock free; nobody else opens the file.
ProbeInv ==
  /\ \A c \in Clis :
       /\ fd[c] # None <=> cpc[c] \in ProbePcs
       /\ cpc[c] = "unprobe" => flocked[fd[c]] = c
  /\ \A i \in Inodes : flocked[i] \in Clis => cpc[flocked[i]] = "unprobe"
  /\ \A p \in Procs \ (Workers \cup Clis) : fd[p] = None

\* Who has the lock open and who has it locked: what SessionWorkerProofs says of
\* the workers, which the probes leave true, and the same of the probes.
Locks ==
  /\ DescriptorInv /\ RecordedPidIsHolder
  /\ ReleaseInv /\ HolderInv /\ UnlinkedInv /\ ProbeInv

\* The part that can be proved by itself.
CliLockInv == CliTypeOK /\ Locks

\* No command begins or ends a probe.
SameProbes ==
  \A c \in Clis : cpc[c] \in ProbePcs \/ cpc'[c] \in ProbePcs => cpc'[c] = cpc[c]

\* A worker takes no flock from a command.
LEMMA FlockKept ==
  ASSUME LockInv, NEW w \in Workers, Step(w)
  PROVE  \A i \in Inodes : \A c \in Clis : flocked'[i] = c <=> flocked[i] = c
<1> USE Disjoint, FSAssumption
    DEF LockInv, TypeOK, FSTypeOK, DescriptorInv, lockVars, fsVars, vars
<1>1. CASE WinLock(w)
  BY <1>1 DEF WinLock, Flock, Contended
<1>2. CASE OpenLock(w)
  BY <1>2 DEF OpenLock, OpenCreate
<1>3. CASE UNCHANGED flocked
  BY <1>3
<1>4. CASE CloseLockFd(w)
  BY <1>4 DEF CloseLockFd
<1> QED
  BY <1>1, <1>2, <1>3, <1>4
     DEF Step, WorkerStep, Spawn, FailAcquire, LoseLock, TruncateLock, RecordPid, SyncLock, CheckSlot,
         ReclaimEntries, ReclaimDir, MakeDir, WriteIdentity, Materialize,
         ReportDaemonError, ReportRequiredFailure, ReportSuccess, ReportLost,
         InstallHandlers, StopAll, UnlinkLock, UnlinkName, CloseLock, WipeData, WipeSlot,
         IdleStop, ParentDies, SigtermTo, SigkillTo, Die, WriteLock

\* A worker's step keeps all this.
LEMMA WorkerLocks ==
  ASSUME CliLockInv, NEW w \in Workers, Step(w), SameProbes
  PROVE  Locks'
<1>1. LockInv /\ TypeOK'
  BY TypeStep DEF Locks, CliLockInv, CliTypeOK, LockInv
<1>2. DescriptorInv' /\ RecordedPidIsHolder' /\ ReleaseInv' /\ HolderInv' /\ UnlinkedInv'
  BY <1>1, LockStep, ReleaseStep, HolderStep DEF Locks, CliLockInv
<1>3. \A p \in Procs \ {w} : fd'[p] = fd[p]
  BY <1>1, OwnStep DEF LockInv
<1>4. ProbeInv'
  BY <1>1, <1>3, FlockKept, Disjoint
     DEF Locks, CliLockInv, LockInv, TypeOK, FSTypeOK, ProbeInv, ProbePcs, SameProbes
<1> QED
  BY <1>2, <1>4 DEF Locks

\* What close does to the locks, whichever command closes.
LEMMA CloseKeeps ==
  ASSUME CliLockInv, NEW c \in Clis, CloseLockFd(c), UNCHANGED <<pc, released, leftover>>,
         cpc'[c] \notin ProbePcs, \A d \in Clis \ {c} : cpc'[d] = cpc[d]
  PROVE  Locks'
<1> USE Disjoint, FSAssumption DEF Locks, CliLockInv, CliTypeOK, ProbePcs, TypeOK, FSTypeOK,
                                     CloseLockFd
<1>1. DescriptorInv'
  BY DEF DescriptorInv
<1>2. RecordedPidIsHolder'
  BY DEF RecordedPidIsHolder, Locked
<1>3. ReleaseInv' /\ HolderInv' /\ UnlinkedInv'
  BY DEF ReleaseInv, HolderInv, UnlinkedInv, Locked
<1>4. ProbeInv'
  BY DEF ProbeInv, DescriptorInv
<1> QED
  BY <1>1, <1>2, <1>3, <1>4

\* A command's step keeps all this: a probe takes a flock only where no worker
\* has one, and gives it back.
LEMMA ActLocks ==
  ASSUME CliLockInv, NEW c \in Clis, Act(c)
  PROVE  Locks'
<1> USE DEF CGoto
<1>1. CASE UNCHANGED <<lockVars, pc, released, leftover>> /\ SameProbes
  BY <1>1 DEF Locks, CliLockInv, lockVars, DescriptorInv, RecordedPidIsHolder, ReleaseInv,
              HolderInv, UnlinkedInv, ProbeInv, ProbePcs, SameProbes, Locked
<1>2. CASE SendTerm(c) \/ SendKill(c)
  <2>1. SameProbes
    BY <1>2 DEF SendTerm, SendKill, CliLockInv, CliTypeOK, ProbePcs, SameProbes
  <2> QED
    BY <1>1, <1>2, <2>1, SignalStep, WorkerLocks
       DEF CliLockInv, vars, fsVars, workerVars, auxVars
<1>3. CASE ReadPid(c) \/ Unprobe(c)
  <2>1. CloseLockFd(c) /\ UNCHANGED <<pc, released, leftover>>
    BY <1>3 DEF ReadPid, Unprobe, workerVars, auxVars
  <2>2. /\ cpc'[c] \notin ProbePcs
        /\ \A d \in Clis \ {c} : cpc'[d] = cpc[d]
    BY <1>3, ConcludeCases DEF ReadPid, Unprobe, CliLockInv, CliTypeOK, ProbePcs
  <2> QED
    BY <2>1, <2>2, CloseKeeps
<1>4. CASE OpenProbe(c)
  <2>1. CASE OpenExisting(c) /\ CGoto(c, "probe") /\ UNCHANGED <<pc, released, leftover>>
    BY <2>1, <1>4, Disjoint, FSAssumption
       DEF OpenExisting, OpenProbe, Locks, CliLockInv, CliTypeOK, ProbePcs, TypeOK,
           FSTypeOK, DescriptorInv, RecordedPidIsHolder, ReleaseInv, HolderInv,
           UnlinkedInv, ProbeInv, Locked
  <2>2. CASE Conclude(c, "unavailable") /\ UNCHANGED <<lockVars, pc, released, leftover>>
    BY <1>1, <1>4, <2>2, ConcludeCases
       DEF OpenProbe, CliLockInv, CliTypeOK, ProbePcs, SameProbes
  <2> QED
    BY <1>4, <2>1, <2>2 DEF OpenProbe, workerVars, auxVars
<1>5. CASE Probe(c)
  <2>1. CASE Flock(c) /\ CGoto(c, "unprobe") /\ UNCHANGED <<pc, released, leftover>>
    BY <2>1, <1>5, Disjoint, FSAssumption
       DEF Flock, Contended, Probe, Locks, CliLockInv, CliTypeOK, ProbePcs, TypeOK,
           FSTypeOK, DescriptorInv, RecordedPidIsHolder, ReleaseInv, HolderInv,
           UnlinkedInv, ProbeInv, Locked
  <2>2. CASE CGoto(c, "readpid") /\ UNCHANGED <<lockVars, pc, released, leftover>>
    BY <2>2, <1>5, Disjoint
       DEF Probe, Locks, CliLockInv, CliTypeOK, ProbePcs, TypeOK, FSTypeOK, lockVars,
           DescriptorInv, RecordedPidIsHolder, ReleaseInv, HolderInv, UnlinkedInv,
           ProbeInv, Locked
  <2> QED
    BY <1>5, <2>1, <2>2 DEF Probe, workerVars, auxVars
<1>6. ASSUME \/ ReadIdentity(c) \/ CheckExists(c) \/ CheckIsFile(c) \/ GraceEnded(c)
             \/ GraceExpired(c) \/ Unheard(c) \/ CliWipeData(c) \/ CliWipeSlot(c)
      PROVE  UNCHANGED <<lockVars, pc, released, leftover>> /\ SameProbes
  BY <1>6, ConcludeCases
     DEF ReadIdentity, CheckExists, CheckIsFile, GraceEnded, GraceExpired, Unheard, CliWipeData,
         CliWipeSlot, CliLockInv, CliTypeOK, ProbePcs, SameProbes, vars, fsVars,
         workerVars, auxVars
<1> QED
  BY <1>1, <1>2, <1>3, <1>4, <1>5, <1>6 DEF Act, CliStep

-----------------------------------------------------------------------------
(* What a step leaves alone *)

\* Nothing is stored without a directory.
StoreInv == slot # "dir" => Empty

\* No other worker was ever started.
Sole(w) == \A v \in Workers \ {w} : pc[v] = "idle"

\* No worker comes back to life, becomes idle again or takes a release back.
Forward ==
  /\ \A w \in Workers : /\ pc[w] = "exited" => pc'[w] = "exited"
                        /\ pc[w] # "idle" => pc'[w] # "idle"
  /\ released => released'

\* A worker's step goes forward.
LEMMA WorkerForward ==
  ASSUME TypeOK, NEW w \in Workers, Step(w)
  PROVE  Forward
<1>1. released => released'
  BY DEF Step, WorkerStep, Spawn, OpenLock, FailAcquire, WinLock,
         LoseLock, TruncateLock, RecordPid, SyncLock, CheckSlot, ReclaimEntries, ReclaimDir, MakeDir,
         WriteIdentity, Materialize, ReportDaemonError, ReportRequiredFailure,
         ReportSuccess, ReportLost, InstallHandlers, StopAll, UnlinkLock, CloseLock,
         WipeData, WipeSlot, IdleStop, ParentDies, SigtermTo, SigkillTo, Die,
         vars, workerVars, auxVars
<1> QED
  BY <1>1, OwnStep DEF Forward

\* What a worker that is not there does: it starts, and changes nothing else.
LEMMA QuietStep ==
  ASSUME TypeOK, NEW w \in Workers, Step(w), pc[w] \in {"idle", "exited"}
  PROVE  UNCHANGED <<fsVars, released>>
  BY DEF Step, WorkerStep, Spawn, OpenLock, FailAcquire, AcquirePcs, WinLock,
         LoseLock, TruncateLock, RecordPid, SyncLock, CheckSlot, ReclaimEntries, ReclaimDir, MakeDir,
         WriteIdentity, Materialize, ReportDaemonError, ReportRequiredFailure,
         ReportSuccess, ReportLost, InstallHandlers, StopAll, UnlinkLock, CloseLock,
         WipeData, WipeSlot, IdleStop, ParentDies, SigtermTo, SigkillTo, vars, workerVars, auxVars

\* A worker's step stores nothing without a directory.
LEMMA WorkerStore ==
  ASSUME StoreInv, NEW w \in Workers, Step(w)
  PROVE  StoreInv'
<1> USE DEF StoreInv, Empty, dataVars, fsVars, vars
<1>1. CASE CheckSlot(w) \/ ReclaimEntries(w) \/ ReclaimDir(w) \/ MakeDir(w)
  BY <1>1 DEF CheckSlot, ReclaimEntries, ReclaimDir, MakeDir, AbortCreate,
     RemoveEntries, CanRemoveDir, RemoveDir
<1>2. CASE WriteIdentity(w) \/ Materialize(w)
  BY <1>2 DEF WriteIdentity, Materialize, Cleanup
<1>3. CASE WipeData(w) \/ WipeSlot(w)
  BY <1>3 DEF WipeData, WipeSlot, WipeEntries, WipeDir, RemoveEntries, CanRemoveDir, RemoveDir
<1>4. CASE UNCHANGED dataVars
  BY <1>4
<1> QED
  BY <1>1, <1>2, <1>3, <1>4
     DEF Step, WorkerStep, Spawn, OpenLock, FailAcquire, WinLock, LoseLock, TruncateLock,
         RecordPid, SyncLock, ReportDaemonError, ReportRequiredFailure, ReportSuccess, ReportLost,
         InstallHandlers, StopAll, UnlinkLock, CloseLock, IdleStop, ParentDies, SigtermTo,
         SigkillTo, Die, Cleanup

\* A command's step goes forward too, concerns itself only, and touches
\* tunnel-data only to empty or to remove it.
LEMMA ActFrame ==
  ASSUME CliTypeOK, IdentityInv, StoreInv, NEW c \in Clis, Act(c)
  PROVE  /\ Forward
         /\ UNCHANGED reused
         /\ cpc'[c] # "read"
         /\ \A d \in Clis \ {c} :
              cpc'[d] = cpc[d] /\ target'[d] = target[d] /\ report'[d] = report[d]
         /\ StoreInv'
<1>1. UNCHANGED reused
  BY ConcludeCases DEF Act, CliStep, ReadIdentity, CheckExists, CheckIsFile, OpenProbe,
     Probe, ReadPid, Unprobe, SendTerm, GraceEnded, GraceExpired, Unheard, SendKill, CliWipeData,
     CliWipeSlot
<1>2. CASE SendTerm(c) \/ SendKill(c)
  <2>1. Forward /\ StoreInv'
    BY <1>2, SignalStep, WorkerForward, WorkerStore
       DEF CliTypeOK, Forward, StoreInv, Empty, vars, fsVars, dataVars, workerVars, auxVars
  <2> QED
    BY <1>1, <1>2, <2>1 DEF SendTerm, SendKill, CliTypeOK, CGoto, Say
<1>3. CASE CliWipeData(c) \/ CliWipeSlot(c)
  BY <1>1, <1>3 DEF CliWipeData, CliWipeSlot, WipeEntries, WipeDir, RemoveEntries,
     CanRemoveDir, RemoveDir, CliTypeOK, CGoto, Forward, StoreInv, Empty, dataVars,
     workerVars, auxVars
<1>4. ASSUME \/ ReadIdentity(c) \/ CheckExists(c) \/ CheckIsFile(c) \/ OpenProbe(c)
             \/ Probe(c) \/ ReadPid(c) \/ Unprobe(c) \/ GraceEnded(c) \/ GraceExpired(c) \/ Unheard(c)
      PROVE  /\ UNCHANGED <<dataVars, pc, released>>
             /\ cpc'[c] # "read"
             /\ \A d \in Clis \ {c} :
                  cpc'[d] = cpc[d] /\ target'[d] = target[d] /\ report'[d] = report[d]
  BY <1>4, ConcludeCases
     DEF ReadIdentity, CheckExists, CheckIsFile, OpenProbe, Probe, ReadPid, Unprobe,
         GraceEnded, GraceExpired, Unheard, CliTypeOK, CGoto, Say, vars, fsVars, workerVars, auxVars
<1>5. CASE UNCHANGED <<dataVars, pc, released>>
  <2>1. Forward /\ StoreInv'
    BY <1>5 DEF Forward, StoreInv, Empty, dataVars
  <2> QED
    BY <1>1, <1>2, <1>3, <1>4, <2>1 DEF Act, CliStep
<1> QED
  BY <1>1, <1>2, <1>3, <1>4, <1>5 DEF Act, CliStep

-----------------------------------------------------------------------------
(* What the commands say *)

\* A command has said nothing before it has read the identity, and whatever it
\* says of a daemon is said of the worker it has read about.
ReportInv ==
  \A c \in Clis :
    /\ cpc[c] = "read" => report[c] = "none"
    /\ report[c] \notin {"none", "no_identity"} => target[c] # None

\* What a command says when it finds no daemon to signal, or none any more.
Denials == {"not_found", "mismatch", "unavailable", "changed"}

\* NoDaemonMissed, for a worker that is not about to start either and for the
\* verification before SIGKILL too.
DeadInv ==
  \A c \in Clis :
    ~released /\ report[c] \in Denials
      => pc[target[c]] = "exited"

\* "stopped" and "forced" come before the wipe, and the wipe is then of a dead
\* daemon's data.
StoppedInv ==
  \A c \in Clis :
    report[c] \in {"stopped", "forced"} =>
      /\ pc[target[c]] = "exited"
      /\ cpc[c] \in {"wipe", "wiperm", "done", "gone"}
      /\ Sole(target[c]) =>
           /\ cpc[c] = "wiperm" => Empty
           /\ cpc[c] = "done" => slot # "dir" /\ Empty

\* Everything about the reports.
SpokenInv == ReportInv /\ DeadInv /\ StoppedInv

\* Until a release, the lock names a live daemon: session.lock is linked to the
\* inode that it has locked and that records its pid.
LEMMA LiveDaemonFound ==
  ASSUME CliLockInv, ~released, NEW w \in Workers, pc[w] \in IdentifiedPcs, pc[w] # "exited"
  PROVE  lockFile # None /\ flocked[lockFile] = w /\ recorded[lockFile] = w
<1>1. pc[w] \in RecordedPcs /\ Locked(w)
  BY DEF CliLockInv, Locks, ReleaseInv, IdentifiedPcs, EntryPcs, SessionPcs, RecordedPcs,
         LockedPcs, Locked
<1> QED
  BY <1>1, Disjoint DEF CliLockInv, Locks, RecordedPidIsHolder, ReleaseInv

\* A verdict other than a match is right, until a release, that the daemon is dead.
LEMMA VerdictRight ==
  ASSUME CliLockInv, IdentityInv, ReportInv, NEW c \in Clis, ~released, Act(c),
         report'[c] \in Denials
  PROVE  \/ report'[c] = report[c] /\ target'[c] = target[c]
         \/ target'[c] = target[c] /\ target[c] # None /\ pc'[target[c]] = "exited"
<1> USE DEF CliLockInv, CliTypeOK, CGoto, Say, Denials
<1>1. CASE ReadIdentity(c)
  BY <1>1 DEF ReadIdentity, ReportInv
<1>2. CASE Probe(c) \/ GraceExpired(c) \/ Unheard(c) \/ CliWipeData(c) \/ CliWipeSlot(c)
  BY <1>2 DEF Probe, GraceExpired, Unheard, CliWipeData, CliWipeSlot
<1>3. CASE SendTerm(c) \/ SendKill(c) \/ GraceEnded(c)
  BY <1>3 DEF SendTerm, SendKill, GraceEnded
<1>4. ASSUME \/ CheckExists(c) \/ CheckIsFile(c) \/ OpenProbe(c) \/ ReadPid(c) \/ Unprobe(c)
      PROVE  target[c] \in Workers /\ pc[target[c]] \in IdentifiedPcs
             /\ target'[c] = target[c] /\ UNCHANGED pc
  BY <1>4, ConcludeCases DEF CheckExists, CheckIsFile, OpenProbe, ReadPid, Unprobe,
     IdentityInv, vars, workerVars
<1>5. CASE CheckExists(c)
  <2>1. CASE Exists(target[c])
    BY <1>5, <2>1 DEF CheckExists
  <2>2. CASE ~Exists(target[c])
    BY <1>4, <1>5, <2>2, Disjoint DEF Exists, Running, IdentifiedPcs, EntryPcs, SessionPcs
  <2> QED
    BY <2>1, <2>2
<1>6. CASE CheckIsFile(c)
  BY <1>4, <1>6, LiveDaemonFound DEF CheckIsFile
<1>7. CASE OpenProbe(c)
  BY <1>4, <1>7, LiveDaemonFound DEF OpenProbe
<1>8. CASE ReadPid(c)
  <2>1. CASE LockVerdict(c) = "match"
    BY <1>8, <2>1, ConcludeCases DEF ReadPid
  <2>2. CASE LockVerdict(c) # "match"
    BY <1>4, <1>8, <2>2, VerdictCases, LiveDaemonFound, Disjoint
  <2> QED
    BY <2>1, <2>2
<1>9. CASE Unprobe(c)
  <2>1. fd[c] = lockFile /\ flocked[lockFile] = c
    BY <1>9, Disjoint DEF Unprobe, Locks, ProbeInv, ProbePcs, ReleaseInv
  <2> QED
    BY <1>4, <1>9, <2>1, LiveDaemonFound, Disjoint
<1> QED
  BY <1>1, <1>2, <1>3, <1>5, <1>6, <1>7, <1>8, <1>9 DEF Act, CliStep

\* A worker's step makes nothing untrue that was said.
LEMMA WorkerSpoken ==
  ASSUME CliTypeOK, SpokenInv, NEW w \in Workers, Step(w), UNCHANGED <<cpc, target, report>>
  PROVE  SpokenInv'
<1>1. Forward
  BY WorkerForward DEF CliTypeOK
<1>2. \A c \in Clis : report[c] \notin {"none", "no_identity"} => target[c] \in Workers
  BY DEF SpokenInv, ReportInv, CliTypeOK
<1>3. ReportInv' /\ DeadInv'
  BY <1>1, <1>2 DEF SpokenInv, ReportInv, DeadInv, Denials, Forward
<1>4. ASSUME NEW t \in Workers, pc[t] = "exited", Sole(t)'
      PROVE  Sole(t) /\ UNCHANGED dataVars
  BY <1>1, <1>4, QuietStep DEF Forward, Sole, CliTypeOK, fsVars
<1>5. StoppedInv'
  BY <1>1, <1>2, <1>4 DEF SpokenInv, StoppedInv, Forward, Empty, dataVars
<1> QED
  BY <1>3, <1>5 DEF SpokenInv

\* A command's step adds nothing to what a dead daemon has left.
LEMMA ActRemoves ==
  ASSUME CliTypeOK, IdentityInv, NEW c \in Clis, Act(c),
         NEW t \in Workers, pc[t] = "exited", Sole(t)
  PROVE  (Empty => Empty') /\ (slot # "dir" => slot' # "dir")
<1> USE DEF Empty, dataVars
<1>1. CASE UNCHANGED dataVars
  BY <1>1
<1>2. CASE SendTerm(c) \/ SendKill(c)
  <2>1. target[c] \in Workers /\ pc[target[c]] \in {"idle", "exited"}
    BY <1>2, SignalStep DEF Sole
  <2> QED
    BY <1>1, <1>2, <2>1, SignalStep, QuietStep DEF CliTypeOK, vars, fsVars
<1>3. CASE CliWipeData(c) \/ CliWipeSlot(c)
  BY <1>3 DEF CliWipeData, CliWipeSlot, WipeEntries, WipeDir, RemoveEntries, RemoveDir
<1>4. ASSUME \/ ReadIdentity(c) \/ CheckExists(c) \/ CheckIsFile(c) \/ OpenProbe(c)
             \/ Probe(c) \/ ReadPid(c) \/ Unprobe(c) \/ GraceEnded(c) \/ GraceExpired(c) \/ Unheard(c)
      PROVE  UNCHANGED dataVars
  BY <1>4 DEF ReadIdentity, CheckExists, CheckIsFile, OpenProbe, Probe, ReadPid, Unprobe,
     GraceEnded, GraceExpired, Unheard, vars, fsVars
<1> QED
  BY <1>1, <1>2, <1>3, <1>4 DEF Act, CliStep

\* A command's step makes nothing untrue that was said.
LEMMA ActSpoken ==
  ASSUME CliLockInv, IdentityInv, StoreInv, SpokenInv, NEW c \in Clis, Act(c)
  PROVE  SpokenInv'
<1>1. CliTypeOK /\ CliTypeOK'
  BY ActType DEF CliLockInv
<1>2. Forward /\ \A d \in Clis \ {c} :
                 cpc'[d] = cpc[d] /\ target'[d] = target[d] /\ report'[d] = report[d]
  BY <1>1, ActFrame
<1>3. ReportInv'
  <2>1. cpc'[c] # "read"
    BY <1>1, ActFrame
  <2>2. report'[c] \notin {"none", "no_identity"} => target'[c] # None
    <3>1. CASE cpc[c] = "read" \/ cpc[c] \in {"wipe", "wiperm"}
      BY <3>1, <1>1, ConcludeCases
         DEF SpokenInv, ReportInv, CliTypeOK, CGoto, Say, Act, CliStep, ReadIdentity, CheckExists,
             CheckIsFile, OpenProbe, Probe, ReadPid, Unprobe, SendTerm, GraceEnded,
             GraceExpired, Unheard, SendKill, CliWipeData, CliWipeSlot
    <3>2. CASE cpc[c] \in VerifyPcs \cup {"term", "grace", "kill"}
      <4>1. target[c] # None
        BY <1>1, <3>2 DEF CliTypeOK, VerifyPcs
      <4>2. UNCHANGED target
        BY <3>2, ConcludeCases
           DEF VerifyPcs, Act, CliStep, ReadIdentity, CheckExists,
               CheckIsFile, OpenProbe, Probe, ReadPid, Unprobe, SendTerm, GraceEnded,
               GraceExpired, Unheard, SendKill, CliWipeData, CliWipeSlot
      <4> QED
        BY <4>1, <4>2
    <3> QED
      BY <3>1, <3>2
         DEF VerifyPcs, Act, CliStep, ReadIdentity, CheckExists, CheckIsFile, OpenProbe, Probe,
             ReadPid, Unprobe, SendTerm, GraceEnded, GraceExpired, Unheard, SendKill, CliWipeData,
             CliWipeSlot
  <2> QED
    BY <1>2, <2>1, <2>2 DEF SpokenInv, ReportInv
<1>4. DeadInv'
  <2> SUFFICES ASSUME NEW d \in Clis, ~released',
                      report'[d] \in Denials
               PROVE  pc'[target'[d]] = "exited"
    BY DEF DeadInv
  <2>1. ~released
    BY <1>2 DEF Forward
  <2>2. CASE report'[d] = report[d] /\ target'[d] = target[d]
    BY <1>1, <1>2, <2>1, <2>2
       DEF SpokenInv, ReportInv, DeadInv, Denials, Forward, CliTypeOK
  <2>3. CASE d = c
    BY <2>1, <2>2, <2>3, VerdictRight DEF SpokenInv
  <2> QED
    BY <1>2, <2>2, <2>3
<1>5. StoppedInv'
  <2> SUFFICES ASSUME NEW d \in Clis, report'[d] \in {"stopped", "forced"}
               PROVE  /\ pc'[target'[d]] = "exited"
                      /\ cpc'[d] \in {"wipe", "wiperm", "done", "gone"}
                      /\ Sole(target[d])' =>
                           /\ cpc'[d] = "wiperm" => Empty'
                           /\ cpc'[d] = "done" => slot' # "dir" /\ Empty'
    BY DEF StoppedInv
  <2>1. \A t \in Workers : Sole(t)' => Sole(t)
    BY <1>2 DEF Sole, Forward
  <2>2. CASE d # c
    BY <1>1, <1>2, <2>1, <2>2, ActRemoves
       DEF SpokenInv, ReportInv, StoppedInv, Forward, CliTypeOK
  <2>3. CASE d = c /\ report[c] \in {"stopped", "forced"}
    <3>1. Unheard(c) \/ CliWipeData(c) \/ CliWipeSlot(c)
      BY <2>3 DEF SpokenInv, StoppedInv, Act, CliStep, ReadIdentity, CheckExists,
         CheckIsFile, OpenProbe, Probe, ReadPid, Unprobe, SendTerm, GraceEnded,
         GraceExpired, SendKill
    <3>2. target[c] \in Workers /\ pc[target[c]] = "exited" /\ UNCHANGED <<target, pc>>
      BY <1>1, <2>3, <3>1 DEF SpokenInv, ReportInv, StoppedInv, CliTypeOK, Unheard, CliWipeData,
         CliWipeSlot, vars, workerVars
    <3>3. CASE CliWipeData(c)
      BY <1>1, <2>3, <3>2, <3>3
         DEF CliWipeData, WipeEntries, RemoveEntries, StoreInv, Empty, CliTypeOK, CGoto, dataVars
    <3>4. CASE CliWipeSlot(c)
      BY <1>1, <2>1, <2>3, <3>2, <3>4
         DEF CliWipeSlot, WipeDir, CanRemoveDir, RemoveDir, SpokenInv, StoppedInv, Empty,
             CliTypeOK, CGoto, dataVars
    <3>5. CASE Unheard(c)
      BY <1>1, <2>3, <3>2, <3>5 DEF Unheard, CliTypeOK, CGoto
    <3> QED
      BY <3>1, <3>3, <3>4, <3>5
  <2>4. CASE d = c /\ report[c] \notin {"stopped", "forced"}
    <3>1. SendTerm(c) \/ GraceEnded(c) \/ SendKill(c)
      BY <1>1, <2>4, ConcludeCases, VerdictCases
         DEF Act, CliStep, ReadIdentity, CheckExists, CheckIsFile, OpenProbe, Probe,
             ReadPid, Unprobe, GraceExpired, Unheard, CliWipeData, CliWipeSlot, Say, CliTypeOK
    <3>2. /\ cpc'[c] = "wipe" /\ target'[c] = target[c] /\ target[c] \in Workers
          /\ pc[target[c]] \in IdentifiedPcs
      BY <1>1, <2>4, <3>1
         DEF SendTerm, GraceEnded, SendKill, CliTypeOK, CGoto, IdentityInv
    <3>3. ~Exists(target[c]) => pc[target[c]] = "exited"
      BY <3>2 DEF Exists, Running, IdentifiedPcs, EntryPcs, SessionPcs
    <3>4. pc'[target[c]] = "exited"
      <4>1. CASE ~Exists(target[c])
        BY <1>2, <3>2, <3>3, <4>1 DEF Forward
      <4>2. CASE Exists(target[c])
        <5>1. SendKill(c) /\ Kill(c)
          BY <1>1, <2>4, <3>1, <4>2 DEF SendTerm, GraceEnded, SendKill
        <5>2. CASE SigkillTo(target[c])
          BY <1>1, <3>2, <5>2 DEF SigkillTo, Die, Goto, CliTypeOK, TypeOK
        <5>3. CASE Stray(c)
          BY <1>2, <3>2, <5>3
             DEF Stray, Running, Forward, IdentifiedPcs, EntryPcs, SessionPcs
        <5> QED
          BY <5>1, <5>2, <5>3 DEF Kill
      <4> QED
        BY <4>1, <4>2
    <3> QED
      BY <2>4, <3>2, <3>4
  <2> QED
    BY <2>2, <2>3, <2>4
<1> QED
  BY <1>3, <1>4, <1>5 DEF SpokenInv

-----------------------------------------------------------------------------
(* Whom the signals reach *)

\* Another worker, or two commands at once, are in the directory of w.
Crowded(w) ==
  \/ \E v \in Workers \ {w} : pc[v] # "idle"
  \/ \E c, d \in Clis : c # d /\ cpc[c] # "read" /\ cpc[d] # "read"

\* A reused pid is a dead worker's.  A command that has found the flock taken
\* has a live daemon's pid, unless somebody else than that daemon has the flock.
StrayInv ==
  /\ \A w \in reused : pc[w] = "exited"
  /\ \A c \in Clis :
       cpc[c] \in {"readpid", "term", "kill"} /\ target[c] \in reused => Crowded(target[c])

\* Everything about the signals.
SignalInv == StrayInv /\ BystandersSpared

\* A directory once crowded stays so.
LEMMA CrowdStays ==
  ASSUME Forward, \A c \in Clis : cpc[c] # "read" => cpc'[c] # "read",
         NEW w \in Workers, Crowded(w)
  PROVE  Crowded(w)'
  BY DEF Crowded, Forward

\* A worker's step reaches nobody.
LEMMA WorkerSignals ==
  ASSUME CliTypeOK, SignalInv, NEW w \in Workers, Step(w),
         UNCHANGED <<cpc, target, reused, struck>>
  PROVE  SignalInv'
<1>1. Forward
  BY WorkerForward DEF CliTypeOK
<1>2. \A v \in Workers : Crowded(v) => Crowded(v)'
  BY <1>1, CrowdStays
<1>3. StrayInv'
  BY <1>1, <1>2 DEF SignalInv, StrayInv, Forward, CliTypeOK
<1>4. \A v \in struck : Crowded(v)
  BY DEF SignalInv, BystandersSpared, Crowded
<1>5. BystandersSpared'
  BY <1>2, <1>4 DEF BystandersSpared, Crowded, CliTypeOK
<1> QED
  BY <1>3, <1>5 DEF SignalInv

\* A flock that a probe finds taken is a live worker's or another probe's.
LEMMA ContenderKnown ==
  ASSUME CliLockInv, StrayInv, NEW c \in Clis, cpc[c] = "probe", Contended(c),
         target[c] \in reused
  PROVE  Crowded(target[c])
<1> DEFINE h == flocked[fd[c]]
<1>1. fd[c] \in Inodes /\ h \in Procs /\ fd[h] = fd[c] /\ fd[h] # None
  BY Disjoint DEF CliLockInv, CliTypeOK, TypeOK, FSTypeOK, Locks, ProbeInv, ProbePcs,
     DescriptorInv, Contended
<1>2. CASE h \in Workers
  <2>1. pc[h] \in LockedPcs
    BY <1>1, <1>2 DEF CliLockInv, Locks, HolderInv, Locked
  <2>2. h # target[c] /\ pc[h] # "idle"
    BY <2>1 DEF StrayInv, LockedPcs
  <2> QED
    BY <1>2, <2>2 DEF Crowded
<1>3. CASE h \in Clis
  <2>1. cpc[h] = "unprobe"
    BY <1>1, <1>3 DEF CliLockInv, Locks, ProbeInv
  <2> QED
    BY <1>3, <2>1 DEF Crowded
<1>4. h \in Workers \cup Clis
  BY <1>1 DEF CliLockInv, Locks, ProbeInv
<1> QED
  BY <1>2, <1>3, <1>4

\* A command signals a reused pid only in a crowded directory.
LEMMA ActSignals ==
  ASSUME CliLockInv, IdentityInv, StoreInv, SignalInv, NEW c \in Clis, Act(c)
  PROVE  SignalInv'
<1>1. CliTypeOK
  BY DEF CliLockInv
<1>2. /\ Forward /\ UNCHANGED reused
      /\ \A d \in Clis \ {c} : cpc'[d] = cpc[d] /\ target'[d] = target[d]
  BY <1>1, ActFrame
<1>3. \A d \in Clis : cpc[d] # "read" => cpc'[d] # "read"
  BY <1>1, <1>2, ActFrame
<1>4. \A v \in Workers : Crowded(v) => Crowded(v)'
  BY <1>2, <1>3, CrowdStays
<1>5. ASSUME cpc'[c] \in {"readpid", "term", "kill"}
      PROVE  /\ UNCHANGED target
             /\ \/ cpc[c] = "probe" /\ Contended(c)
                \/ cpc[c] = "readpid"
  BY <1>1, <1>5, ConcludeCases
     DEF CliTypeOK, CGoto, Act, CliStep, ReadIdentity, CheckExists, CheckIsFile, OpenProbe,
         Probe, ReadPid, Unprobe, SendTerm, GraceEnded, GraceExpired, Unheard, SendKill,
         CliWipeData, CliWipeSlot
<1>6. StrayInv'
  <2> SUFFICES ASSUME NEW d \in Clis, cpc'[d] \in {"readpid", "term", "kill"},
                      target'[d] \in reused'
               PROVE  Crowded(target[d])'
    BY <1>1, <1>2 DEF SignalInv, StrayInv, Forward, CliTypeOK
  <2>1. target'[d] = target[d] /\ target[d] \in reused /\ target[d] \in Workers
    BY <1>1, <1>2, <1>5 DEF CliTypeOK
  <2>2. Crowded(target[d])
    BY <1>2, <1>5, <2>1, ContenderKnown DEF SignalInv, StrayInv
  <2> QED
    BY <1>4, <2>1, <2>2 DEF Crowded
<1>7. BystandersSpared'
  <2>1. \A v \in struck' : v \in Workers /\ Crowded(v)
    <3>1. CASE SendTerm(c) \/ SendKill(c)
      BY <1>1, <3>1, SignalStep
         DEF SendTerm, SendKill, Terminate, Kill, Stray, SignalInv, StrayInv,
             BystandersSpared, Crowded, CliTypeOK
    <3>2. CASE UNCHANGED struck
      BY <1>1, <3>2 DEF SignalInv, BystandersSpared, Crowded, CliTypeOK
    <3> QED
      BY <3>1, <3>2, ConcludeCases
         DEF Act, CliStep, ReadIdentity, CheckExists, CheckIsFile, OpenProbe, Probe,
             ReadPid, Unprobe, GraceEnded, GraceExpired, Unheard, CliWipeData, CliWipeSlot
  <2> QED
    BY <1>4, <2>1 DEF BystandersSpared, Crowded
<1> QED
  BY <1>6, <1>7 DEF SignalInv

-----------------------------------------------------------------------------
(* Everything together *)

\* The inductive invariant.
CliInv ==
  /\ CliLockInv /\ IdentityInv /\ StoreInv
  /\ SpokenInv /\ SignalInv

\* The invariant holds at the start.
LEMMA CliInvInit == CliInit => CliInv
<1> SUFFICES ASSUME CliInit PROVE CliInv
  OBVIOUS
<1>1. IInv /\ HolderInv /\ UnlinkedInv
  BY IInvInit, Disjoint DEF CliInit, Init, FSInit, HolderInv, UnlinkedInv
<1>2. CliTypeOK
  BY <1>1 DEF CliInit, CliTypeOK, IInv, LockInv, CliPcs, Reports
<1>3. ProbeInv
  BY Disjoint DEF CliInit, Init, FSInit, ProbeInv, ProbePcs
<1>4. Locks /\ StoreInv
  BY <1>1, <1>3 DEF IInv, LockInv, SlotInv, Locks, StoreInv
<1>5. IdentityInv /\ SpokenInv /\ SignalInv
  BY DEF CliInit, Init, FSInit, IdentityInv, SpokenInv, ReportInv, DeadInv, Denials,
         StoppedInv, SignalInv, StrayInv, BystandersSpared
<1> QED
  BY <1>2, <1>4, <1>5 DEF CliInv, CliLockInv

\* A worker's step keeps it, whoever else does nothing.
LEMMA WorkerKeeps ==
  ASSUME CliInv, NEW w \in Workers, Step(w), UNCHANGED cliVars
  PROVE  CliInv'
<1>1. CliLockInv /\ CliTypeOK /\ TypeOK /\ UNCHANGED <<cpc, target, report, reused, struck>>
  BY DEF CliInv, CliLockInv, CliTypeOK, cliVars
<1>2. CliTypeOK'
  BY <1>1, TypeStep DEF CliTypeOK, cliVars
<1>3. SameProbes
  BY <1>1 DEF SameProbes
<1>4. CliLockInv'
  BY <1>1, <1>2, <1>3, WorkerLocks DEF CliLockInv
<1>5. IdentityInv' /\ StoreInv'
  BY <1>1, WorkerIdentity, WorkerStore DEF CliInv
<1>6. SpokenInv' /\ SignalInv'
  BY <1>1, WorkerSpoken, WorkerSignals DEF CliInv
<1> QED
  BY <1>4, <1>5, <1>6 DEF CliInv

\* A command's step keeps it.
LEMMA ActKeeps ==
  ASSUME CliInv, NEW c \in Clis, Act(c)
  PROVE  CliInv'
<1>1. CliTypeOK
  BY DEF CliInv, CliLockInv
<1>2. CliLockInv'
  BY <1>1, ActType, ActLocks DEF CliInv, CliLockInv
<1>3. IdentityInv' /\ StoreInv'
  BY <1>1, ActIdentity, ActFrame DEF CliInv
<1>4. SpokenInv' /\ SignalInv'
  BY ActSpoken, ActSignals DEF CliInv
<1> QED
  BY <1>2, <1>3, <1>4 DEF CliInv

\* A pid is given away while no command relies on it.
LEMMA ReuseKeeps ==
  ASSUME CliInv, NEW w \in Workers, PidReuse(w)
  PROVE  CliInv'
<1> USE DEF PidReuse, vars, fsVars, lockVars, dataVars, workerVars, auxVars
<1>1. CliLockInv'
  BY DEF CliInv, CliLockInv, CliTypeOK, TypeOK, FSTypeOK, Locks, DescriptorInv,
         RecordedPidIsHolder, ReleaseInv, HolderInv, UnlinkedInv, ProbeInv, Locked
<1>2. IdentityInv' /\ StoreInv' /\ SpokenInv'
  BY DEF CliInv, IdentityInv, StoreInv, SpokenInv, ReportInv, DeadInv, StoppedInv, Sole, Empty
<1>3. StrayInv'
  BY DEF CliInv, SignalInv, StrayInv, Crowded
<1>4. BystandersSpared'
  BY DEF CliInv, SignalInv, BystandersSpared
<1> QED
  BY <1>1, <1>2, <1>3, <1>4 DEF CliInv, SignalInv

\* So does a step that changes nothing of all this.
LEMMA StutterKeeps ==
  ASSUME CliInv, UNCHANGED allVars
  PROVE  CliInv'
<1> USE DEF allVars, cliVars, vars, fsVars, lockVars, dataVars, workerVars, auxVars
<1>1. CliLockInv'
  BY DEF CliInv, CliLockInv, CliTypeOK, TypeOK, FSTypeOK, Locks, DescriptorInv,
         RecordedPidIsHolder, ReleaseInv, HolderInv, UnlinkedInv, ProbeInv, Locked
<1>2. IdentityInv' /\ StoreInv' /\ SpokenInv'
  BY DEF CliInv, IdentityInv, StoreInv, SpokenInv, ReportInv, DeadInv, StoppedInv, Sole, Empty
<1>3. SignalInv'
  BY DEF CliInv, SignalInv, StrayInv, Crowded, BystandersSpared
<1> QED
  BY <1>1, <1>2, <1>3 DEF CliInv

\* The invariant holds throughout.
LEMMA CliInvariant == CliSpec => []CliInv
<1>1. CliInv /\ [CliNext]_allVars => CliInv'
  BY CliCases, WorkerKeeps, ReuseKeeps, ActKeeps, StutterKeeps
<1> QED
  BY <1>1, CliInvInit, PTL DEF CliSpec

-----------------------------------------------------------------------------
(* Results *)

\* The commands keep the types, and one that verifies or signals has a pid.
THEOREM CliTypeCorrect == CliSpec => []CliTypeOK
<1>1. CliInv => CliTypeOK
  BY DEF CliInv, CliLockInv
<1> QED
  BY <1>1, CliInvariant, PTL

\* verify_session misses no daemon before a release: the flock it finds taken and
\* the pid it reads in session.lock are those of the live daemon, whatever other
\* starts, probes and stops do between its system calls.
THEOREM NoneMissed == CliSpec => []NoDaemonMissed
<1>1. CliInv => NoDaemonMissed
  BY DEF CliInv, SpokenInv, DeadInv, Denials, NoDaemonMissed, Running
<1> QED
  BY <1>1, CliInvariant, PTL

\* "stopped" and "forced" are said of a dead daemon only, and the command that
\* has said so leaves none of its data, unless another worker has started.
THEOREM NothingLeft == CliSpec => []StopLeavesNothing
<1>1. CliInv => StopLeavesNothing
  BY DEF CliInv, SpokenInv, StoppedInv, StopLeavesNothing, Sole, Running
<1> QED
  BY <1>1, CliInvariant, PTL

\* The verification before each signal keeps a command from signalling a process
\* that has got the dead daemon's pid, as long as it is alone with one daemon.
THEOREM Spared == CliSpec => []BystandersSpared
<1>1. CliInv => BystandersSpared
  BY DEF CliInv, SignalInv
<1> QED
  BY <1>1, CliInvariant, PTL

=============================================================================
