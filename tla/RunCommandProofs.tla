--------------------------- MODULE RunCommandProofs ---------------------------
(***************************************************************************)
(* Proofs about RunCommand for any number of start and run commands, each  *)
(* with a worker of its own, and of stop and status commands among them.   *)
(* The invariant CliInv of SessionCliProofs carries over, as every step of *)
(* RunNext is one of a worker, a command or the kernel, or the end of a    *)
(* command; what follows adds where start and run are.                     *)
(***************************************************************************)
EXTENDS RunCommand, SessionCliProofs

-----------------------------------------------------------------------------
(* The invariant *)

\* A worker past its cleanup's first step, and one that has begun it.
LeftPcs == LeavingPcs \cup {"exited"}
GonePcs == LeftPcs \cup {"unlink"}

\* What a worker has decided on, or said, fits where it is.
OutcomeInv ==
  \A w \in Workers :
    /\ rc[w] \in {"required", "error"} => pc[w] \in GonePcs
    /\ rc[w] = "active" => pc[w] = "exited"
    /\ w \in announced => pc[w] \in IdentifiedPcs \ {"starting"} /\ rc[w] # "failed"
    /\ frame[w] = "success" => w \in announced
    /\ frame[w] \notin {"none", "success"} => pc[w] \in GonePcs

\* Where a start or run command is fits its worker and its teardown: nobody else
\* forks the worker, and only an announced one gets a teardown.
StationInv ==
  \A c \in Teardowns :
    /\ at[c] \notin {"teardown", "end"} => cpc[c] = "read"
    /\ at[c] = "end" => cpc[c] = "gone"
    /\ at[c] \in {"args", "fork"} => pc[ChildOf[c]] = "idle"
    /\ at[c] \in {"launch", "window", "child", "teardown"} => ChildOf[c] \in announced

\* Of a worker alone in the directory: only its own release counts, and its data
\* is there until it leaves.
AloneInv ==
  \A w \in Workers : Alone(w) =>
    /\ released => pc[w] \in LeftPcs \cup {"abortclose"}
    /\ InSession(w) \/ pc[w] = "identity" => slot = "dir"
    /\ InSession(w) /\ rc[w] # "failed" => pidFile = w

\* A command removes tunnel-data only when the worker that is alone there leaves.
WipeInv ==
  \A c \in Clis : \A w \in Workers :
    cpc[c] \in {"wipe", "wiperm"} /\ Alone(w) => pc[w] \in LeftPcs

\* The teardown, in the middle of its removal and after it.
TornInv ==
  \A c \in Teardowns : Alone(ChildOf[c]) =>
    /\ cpc[c] = "wiperm" => Empty
    /\ cpc[c] = "done" => slot # "dir" /\ Empty /\ pc[ChildOf[c]] \in LeftPcs

\* The inductive invariant.
RunInv ==
  /\ RunTypeOK /\ CliInv
  /\ FailedInv /\ OutcomeInv /\ StationInv /\ AloneInv /\ WipeInv /\ TornInv
  /\ FailureLeavesNoDaemon

-----------------------------------------------------------------------------
(* The steps, as the invariants of SessionCliProofs see them *)

\* Command c is gone, by itself or by a signal, and its worker may have lost its
\* parent.
Bows(c) ==
  /\ CGoto(c, "gone")
  /\ CloseLockFd(c)
  /\ orphaned' \subseteq Workers
  /\ UNCHANGED <<dataVars, pc, rc, materialized, announced, released, leftover,
                 target, forcing, report, reused, reaped, struck>>

\* Dead children are polled.
Polls ==
  /\ reaped' \subseteq Workers
  /\ UNCHANGED <<vars, cpc, target, forcing, report, reused, struck>>

\* Before a command has opened anything there is nothing to close.
LEMMA ExitBows ==
  ASSUME CliLockInv, NEW c \in Teardowns, cpc[c] = "read", CGoto(c, "gone"),
         UNCHANGED <<vars, target, forcing, report, reused, reaped, struck>>
  PROVE  Bows(c)
<1>1. c \in Clis /\ c \in Procs /\ c # None
  BY Disjoint DEF Clis
<1>2. fd[c] = None /\ \A i \in Inodes : flocked[i] # c
  BY <1>1 DEF CliLockInv, Locks, ProbeInv, ProbePcs
<1>3. CloseLockFd(c)
  BY <1>1, <1>2 DEF CloseLockFd, CliLockInv, CliTypeOK, TypeOK, FSTypeOK, vars, fsVars, lockVars
<1> QED
  BY <1>3 DEF Bows, CliLockInv, CliTypeOK, TypeOK, vars, fsVars, dataVars, workerVars, auxVars

\* A step of start or run command c itself, before or besides its teardown.
Moves(c) ==
  \/ Judge(c) \/ Fork(c) \/ Receive(c) \/ Launch(c)
  \/ InstallForwarding(c) \/ Interrupt(c) \/ ChildEnds(c) \/ CommandKilled(c)

\* Every step, with what it does to the directory and to the commands.
LEMMA RunCases ==
  ASSUME RunInv, [RunNext]_commandVars
  PROVE  \/ \E w \in Workers : Work(w)
         \/ \E w \in Workers : PidReuse(w) /\ UNCHANGED runVars
         \/ \E c \in Clis :
              /\ Act(c) /\ (c \in Teardowns => at[c] = "teardown")
              /\ UNCHANGED <<runs, at, renders, unsaid, frame>>
              /\ \/ UNCHANGED code
                 \/ c \in Teardowns /\ code' = [code EXCEPT ![c] = Traceback]
         \/ \E c \in Teardowns : Moves(c)
         \/ UNCHANGED commandVars
  BY DEF RunNext, CommandStep, Teardown, Act, Over, Clis, Moves, runVars

\* The same, without where start and run are.
LEMMA DirectoryCases ==
  ASSUME RunInv, [RunNext]_commandVars
  PROVE  \/ \E w \in Workers : Step(w) /\ UNCHANGED cliVars
         \/ \E w \in Workers : PidReuse(w)
         \/ \E c \in Clis : Act(c)
         \/ \E c \in Teardowns : Bows(c)
         \/ Polls
         \/ UNCHANGED allVars
<1>1. ASSUME NEW w \in Workers, Work(w)
      PROVE  Step(w) /\ UNCHANGED cliVars
  BY <1>1 DEF Work, Step, Signal
<1>2. ASSUME NEW c \in Teardowns, Moves(c)
      PROVE  \/ Step(ChildOf[c]) /\ UNCHANGED cliVars
             \/ Bows(c) \/ Polls \/ UNCHANGED allVars
  <2>0. CliLockInv /\ ChildOf[c] \in Workers
    BY CliAssumption DEF RunInv, CliInv
  <2>1. CASE Judge(c) \/ Receive(c)
    <3>1. CASE UNCHANGED allVars
      BY <3>1
    <3>2. ASSUME NEW s, Exit(c, s)
          PROVE  Bows(c)
      BY <2>0, <2>1, <3>2, ExitBows DEF RunInv, StationInv, Judge, Receive, Exit
    <3> QED
      BY <2>1, <3>1, <3>2 DEF Judge, Receive, ExitSaying, allVars
  <2>2. CASE Fork(c)
    <3>1. CASE Spawn(ChildOf[c]) /\ UNCHANGED cliVars
      BY <3>1 DEF Step
    <3>2. ASSUME NEW s, Exit(c, s), UNCHANGED vars
          PROVE  Bows(c)
      BY <2>0, <2>2, <3>2, ExitBows DEF RunInv, StationInv, Fork, Exit
    <3> QED
      BY <2>2, <3>1, <3>2 DEF Fork, ExitSaying
  <2>3. CASE Launch(c)
    BY <2>0, <2>3 DEF Launch, Polls, CliLockInv, CliTypeOK
  <2>4. CASE InstallForwarding(c) \/ Interrupt(c) \/ ChildEnds(c)
    BY <2>4 DEF InstallForwarding, Interrupt, ChildEnds
  <2>5. CASE CommandKilled(c)
    BY <2>0, <2>5 DEF CommandKilled, Bows, CliLockInv, CliTypeOK, TypeOK
  <2> QED
    BY <1>2, <2>1, <2>2, <2>3, <2>4, <2>5 DEF Moves
<1> QED
  BY <1>1, <1>2, RunCases, CliAssumption DEF commandVars

\* The end of a command keeps what holds of the others.
LEMMA BowsKeeps ==
  ASSUME CliInv, NEW c \in Teardowns, Bows(c)
  PROVE  CliInv'
<1>0. c \in Clis /\ CliLockInv /\ CliTypeOK
  BY DEF Clis, CliInv, CliLockInv
<1>1. cpc' = [cpc EXCEPT ![c] = "gone"] /\ cpc'[c] = "gone"
      /\ \A d \in Clis \ {c} : cpc'[d] = cpc[d]
  BY <1>0 DEF Bows, CGoto, CliTypeOK
<1>2. Locks'
  BY <1>0, <1>1, CloseKeeps DEF Bows, ProbePcs
<1>3. CliTypeOK'
  <2>1. TypeOK'
    BY <1>0, Disjoint DEF CliTypeOK, TypeOK, FSTypeOK, Bows, CloseLockFd, dataVars
  <2> QED
    BY <1>0, <1>1, <2>1 DEF CliTypeOK, CliPcs, Bows
<1>4. IdentityInv' /\ StoreInv'
  BY DEF CliInv, IdentityInv, StoreInv, Empty, Bows, dataVars
<1>5. SpokenInv'
  BY <1>1 DEF CliInv, SpokenInv, ReportInv, DeadInv, StoppedInv, Sole, Empty, Bows, dataVars
<1>6. \A w \in Workers : Crowded(w) => Crowded(w)'
  BY <1>1 DEF Crowded, Bows
<1>7. StrayInv'
  BY <1>1, <1>6, <1>0 DEF CliInv, SignalInv, StrayInv, Bows, CliTypeOK
<1>8. BystandersSpared'
  BY <1>6, <1>0 DEF CliInv, SignalInv, BystandersSpared, Crowded, Bows, CliTypeOK
<1> QED
  BY <1>2, <1>3, <1>4, <1>5, <1>7, <1>8 DEF CliInv, CliLockInv, SignalInv

\* So does a poll.
LEMMA PollsKeeps ==
  ASSUME CliInv, Polls
  PROVE  CliInv'
<1> USE DEF Polls, vars, fsVars, lockVars, dataVars, workerVars, auxVars
<1>1. CliLockInv'
  BY DEF CliInv, CliLockInv, CliTypeOK, TypeOK, FSTypeOK, Locks, DescriptorInv,
         RecordedPidIsHolder, ReleaseInv, HolderInv, UnlinkedInv, ProbeInv, Locked
<1>2. IdentityInv' /\ StoreInv' /\ SpokenInv'
  BY DEF CliInv, IdentityInv, StoreInv, SpokenInv, ReportInv, DeadInv, StoppedInv, Sole, Empty
<1>3. SignalInv'
  BY DEF CliInv, SignalInv, StrayInv, Crowded, BystandersSpared
<1> QED
  BY <1>1, <1>2, <1>3 DEF CliInv

\* The invariant of the stop and status commands holds under RunNext too.
LEMMA CliInvKept ==
  ASSUME RunInv, [RunNext]_commandVars
  PROVE  CliInv'
  BY DirectoryCases, WorkerKeeps, ReuseKeeps, ActKeeps, BowsKeeps, PollsKeeps, StutterKeeps
     DEF RunInv

-----------------------------------------------------------------------------
(* Type correctness *)

\* The exit statuses of bad input.
LEMMA InputCodes ==
  ASSUME NEW f
  PROVE  {RunCode(f), StartCode(f)} \subseteq {OK, SchemaError, Unexpected, Usage}
<1>1. ASSUME NEW u
      PROVE  FlagsCode(f, u) \in {OK, SchemaError, u}
  BY DEF FlagsCode
<1>2. RunCode(f) \in {OK, SchemaError, Unexpected, Usage}
  BY <1>1 DEF RunCode, Traceback, SchemaError
<1>3. StartCode(f) \in {OK, SchemaError, Unexpected, Usage}
  BY <1>1 DEF StartCode
<1> QED
  BY <1>2, <1>3

\* Rendering succeeds or fails.
LEMMA RendersType ==
  ASSUME NEW c, NEW f
  PROVE  Renders(c, f) \subseteq BOOLEAN
  BY DEF Renders

\* Every step keeps the types.
LEMMA RunTypeKept ==
  ASSUME RunInv, [RunNext]_commandVars
  PROVE  RunTypeOK'
<1> USE DEF RunInv, RunTypeOK
<1>1. CliTypeOK'
  BY CliInvKept DEF CliInv, CliLockInv
<1>2. CASE UNCHANGED runVars
  BY <1>1, <1>2 DEF runVars
<1>3. ASSUME NEW w \in Workers, Work(w)
      PROVE  RunTypeOK'
  <2>1. Written(w)' \in Frames
    BY DEF Written, Frames
  <2> QED
    BY <1>1, <1>3, <2>1 DEF Work
<1>4. ASSUME NEW c \in Teardowns, Judge(c)
      PROVE  RunTypeOK'
  <2>1. PICK f \in Inputs :
          LET status == IF c \in runs THEN RunCode(f) ELSE StartCode(f)
          IN IF status = OK
               THEN /\ renders' \in {[renders EXCEPT ![c] = r] : r \in Renders(c, f)}
                    /\ Proceed(c, "fork")
                    /\ UNCHANGED <<code, cliVars>>
               ELSE ExitSaying(c, status) /\ UNCHANGED renders
    BY <1>4 DEF Judge
  <2>2. CASE Proceed(c, "fork") /\ UNCHANGED code
        /\ renders' \in {[renders EXCEPT ![c] = r] : r \in Renders(c, f)}
    BY <1>1, <1>4, <2>2, RendersType DEF Judge, Proceed, Stations
  <2>3. ASSUME NEW s \in {RunCode(f), StartCode(f), Traceback}, Exit(c, s),
               UNCHANGED renders
        PROVE  RunTypeOK'
    <3>1. s \in {OK, SchemaError, Unexpected, Usage}
      BY InputCodes DEF Traceback, SchemaError
    <3> QED
      BY <1>1, <1>4, <2>3, <3>1 DEF Judge, Exit, Proceed, Settle, Stations
  <2> QED
    BY <2>1, <2>2, <2>3 DEF ExitSaying
<1>5. ASSUME NEW c \in Teardowns, Fork(c) \/ Launch(c) \/ InstallForwarding(c)
                \/ Interrupt(c) \/ ChildEnds(c) \/ CommandKilled(c)
      PROVE  RunTypeOK'
  BY <1>1, <1>5 DEF Fork, Launch, InstallForwarding, Interrupt, ChildEnds, CommandKilled,
     ExitSaying, Exit, Proceed, Settle, Stations, Traceback, SchemaError
<1>6. ASSUME NEW c \in Teardowns, Receive(c)
      PROVE  RunTypeOK'
  <2>1. StatusOf(frame[ChildOf[c]]) \in {OK, 2, 3, Unexpected}
    BY DEF StatusOf, Unexpected
  <2> QED
    BY <1>1, <1>6, <2>1
       DEF Receive, ExitSaying, Exit, Proceed, Settle, Stations, Traceback, SchemaError
<1>7. ASSUME NEW c \in Clis, UNCHANGED <<runs, at, renders, unsaid, frame>>,
             \/ UNCHANGED code
             \/ c \in Teardowns /\ code' = [code EXCEPT ![c] = Traceback]
      PROVE  RunTypeOK'
  BY <1>1, <1>7 DEF Traceback, SchemaError
<1> QED
  BY <1>2, <1>3, <1>4, <1>5, <1>6, <1>7, RunCases DEF commandVars, Moves

-----------------------------------------------------------------------------
(* What a worker's step does *)

\* A worker that leaves does not come back, its answer stays what it was, and
\* what it has decided fits where it is.
LEMMA Progress ==
  ASSUME TypeOK, NEW w \in Workers, Step(w)
  PROVE  /\ pc[w] \in GonePcs => pc'[w] \in GonePcs
         /\ pc[w] \in LeftPcs => pc'[w] \in LeftPcs
         /\ announced \subseteq announced' /\ announced' \subseteq announced \cup {w}
         /\ /\ rc[w] = "failed" => pc[w] # "starting"
            /\ w \in announced => pc[w] \in IdentifiedPcs \ {"starting"} /\ rc[w] # "failed"
            => (w \in announced' =>
                  pc'[w] \in IdentifiedPcs \ {"starting"} /\ rc'[w] # "failed")
         /\ (rc[w] \in {"required", "error"} => pc[w] \in GonePcs)
              => (rc'[w] \in {"required", "error"} => pc'[w] \in GonePcs)
         /\ (rc[w] = "active" => pc[w] = "exited")
              => (rc'[w] = "active" => pc'[w] = "exited")
<1> USE DEF TypeOK, Goto, Decide, GonePcs, LeftPcs, LeavingPcs, IdentifiedPcs, EntryPcs,
            SessionPcs, fsVars, workerVars, auxVars, vars
<1>1. CASE \/ Spawn(w) \/ OpenLock(w) \/ WinLock(w) \/ TruncateLock(w)
              \/ RecordPid(w) \/ SyncLock(w)
  BY <1>1 DEF Spawn, OpenLock, WinLock, TruncateLock, RecordPid, SyncLock
<1>2. CASE FailAcquire(w) \/ LoseLock(w) \/ ReportLost(w)
  BY <1>2 DEF FailAcquire, AcquirePcs, LoseLock, ReportLost, Die
<1>3. CASE CheckSlot(w) \/ ReclaimEntries(w) \/ ReclaimDir(w) \/ MakeDir(w)
  BY <1>3 DEF CheckSlot, ReclaimEntries, ReclaimDir, MakeDir, AbortCreate
<1>4. CASE WriteIdentity(w) \/ Materialize(w)
  BY <1>4 DEF WriteIdentity, Materialize, Cleanup
<1>5. CASE ReportDaemonError(w) \/ ReportRequiredFailure(w) \/ ReportSuccess(w)
  BY <1>5 DEF ReportDaemonError, ReportRequiredFailure, ReportSuccess, Cleanup
<1>6. CASE InstallHandlers(w) \/ StopAll(w) \/ IdleStop(w) \/ ParentDies(w)
  BY <1>6 DEF InstallHandlers, StopAll, IdleStop, ParentDies
<1>7. CASE UnlinkLock(w) \/ CloseLock(w)
  BY <1>7 DEF UnlinkLock, CloseLock
<1>8. CASE WipeData(w) \/ WipeSlot(w)
  BY <1>8 DEF WipeData, WipeSlot
<1>9. CASE SigtermTo(w) \/ SigkillTo(w)
  BY <1>9 DEF SigtermTo, SigkillTo, Die
<1> QED
  BY <1>1, <1>2, <1>3, <1>4, <1>5, <1>6, <1>7, <1>8, <1>9 DEF Step, WorkerStep

\* A worker in session leaves its data in place, one that leaves adds nothing to
\* the directory, and the release is its own doing.
LEMMA OwnData ==
  ASSUME TypeOK, FailedInv, NEW w \in Workers, Step(w)
  PROVE  /\ /\ InSession(w) \/ pc[w] = "identity" => slot = "dir"
            /\ InSession(w) /\ rc[w] # "failed" => pidFile = w
            => /\ InSession(w)' \/ pc'[w] = "identity" => slot' = "dir"
               /\ InSession(w)' /\ rc'[w] # "failed" => pidFile' = w
         /\ pc[w] \in LeftPcs => (Empty => Empty') /\ (slot # "dir" => slot' # "dir")
         /\ (released => pc[w] \in LeftPcs \cup {"abortclose"})
              => (released' => pc'[w] \in LeftPcs \cup {"abortclose"})
<1> USE DEF TypeOK, FSTypeOK, Goto, Decide, FailedInv, LeftPcs, LeavingPcs, InSession,
            SessionPcs, Empty, dataVars, fsVars, workerVars, auxVars, vars
<1>1. CASE \/ Spawn(w) \/ OpenLock(w) \/ WinLock(w) \/ TruncateLock(w)
              \/ RecordPid(w) \/ SyncLock(w)
  BY <1>1 DEF Spawn, OpenLock, WinLock, TruncateLock, RecordPid, SyncLock
<1>2. CASE FailAcquire(w) \/ LoseLock(w) \/ ReportLost(w)
  BY <1>2 DEF FailAcquire, AcquirePcs, LoseLock, ReportLost, Die
<1>3. CASE CheckSlot(w) \/ ReclaimEntries(w) \/ ReclaimDir(w) \/ MakeDir(w)
  BY <1>3 DEF CheckSlot, ReclaimEntries, ReclaimDir, MakeDir, AbortCreate
<1>4. CASE WriteIdentity(w)
  BY <1>4 DEF WriteIdentity, Cleanup
<1>5. CASE Materialize(w)
  BY <1>5 DEF Materialize, Cleanup
<1>6. CASE ReportDaemonError(w) \/ ReportRequiredFailure(w) \/ ReportSuccess(w)
  BY <1>6 DEF ReportDaemonError, ReportRequiredFailure, ReportSuccess, Cleanup
<1>7. CASE InstallHandlers(w) \/ StopAll(w) \/ IdleStop(w) \/ ParentDies(w)
  BY <1>7 DEF InstallHandlers, StopAll, IdleStop, ParentDies
<1>8. CASE UnlinkLock(w) \/ CloseLock(w)
  BY <1>8 DEF UnlinkLock, CloseLock
<1>9. CASE WipeData(w) \/ WipeSlot(w)
  BY <1>9 DEF WipeData, WipeSlot, WipeEntries, WipeDir, RemoveEntries, RemoveDir, CanRemoveDir
<1>10. CASE SigtermTo(w) \/ SigkillTo(w)
  BY <1>10 DEF SigtermTo, SigkillTo, Die
<1> QED
  BY <1>1, <1>2, <1>3, <1>4, <1>5, <1>6, <1>7, <1>8, <1>9, <1>10 DEF Step, WorkerStep

\* A worker that has not been forked does nothing by itself.
LEMMA IdleWork ==
  ASSUME TypeOK, NEW w \in Workers, Work(w), pc[w] = "idle"
  PROVE  pc'[w] = "idle"
  BY DEF Work, WorkerStep, OpenLock, FailAcquire, AcquirePcs, WinLock, LoseLock,
         TruncateLock, RecordPid, SyncLock, CheckSlot, ReclaimEntries, ReclaimDir, MakeDir, WriteIdentity, Materialize,
         ReportDaemonError, ReportRequiredFailure, ReportSuccess, ReportLost,
         InstallHandlers, StopAll, UnlinkLock, CloseLock, WipeData, WipeSlot, IdleStop,
         Signal, SigtermTo, SigkillTo, vars, workerVars

\* A worker that is alone is so because no other has ever been forked, and the
\* others change nothing.
LEMMA OthersQuiet ==
  ASSUME TypeOK, NEW v \in Workers, Step(v), NEW w \in Workers, v # w, Alone(w)'
  PROVE  Alone(w) /\ pc'[w] = pc[w] /\ UNCHANGED <<fsVars, released>>
<1>1. Forward
  BY WorkerForward
<1>2. Alone(w)
  BY <1>1 DEF Alone, Forward
<1> QED
  BY <1>2, QuietStep, OwnStep DEF Alone

-----------------------------------------------------------------------------
(* What any step does to the directory *)

\* Command c removes what it can.
Removes(c) ==
  /\ cpc[c] \in {"wipe", "wiperm"}
  /\ Empty => Empty'
  /\ slot # "dir" => slot' # "dir"
  /\ UNCHANGED <<pc, rc, announced, released>>

\* A step is a worker's, a removal by a command, or leaves tunnel-data and the
\* workers alone.
LEMMA StepKinds ==
  ASSUME RunInv, [RunNext]_commandVars
  PROVE  \/ \E w \in Workers : Step(w)
         \/ \E c \in Clis : Removes(c)
         \/ UNCHANGED <<dataVars, pc, rc, announced, released>>
<1> USE DEF dataVars, fsVars, workerVars, auxVars, vars
<1>1. ASSUME NEW c \in Clis, Act(c)
      PROVE  \/ \E w \in Workers : Step(w)
             \/ Removes(c)
             \/ UNCHANGED <<dataVars, pc, rc, announced, released>>
  <2>1. CASE SendTerm(c) \/ SendKill(c)
    BY <2>1, SignalStep DEF RunInv, RunTypeOK
  <2>2. CASE CliWipeData(c) \/ CliWipeSlot(c)
    BY <2>2 DEF CliWipeData, CliWipeSlot, WipeEntries, WipeDir, RemoveEntries, RemoveDir,
       Removes, Empty
  <2>3. ASSUME \/ ReadIdentity(c) \/ CheckExists(c) \/ CheckIsFile(c) \/ OpenProbe(c)
               \/ Probe(c) \/ ReadPid(c) \/ Unprobe(c) \/ GraceEnded(c) \/ GraceExpired(c)
               \/ Unheard(c)
        PROVE  UNCHANGED <<dataVars, pc, rc, announced, released>>
    BY <2>3 DEF ReadIdentity, CheckExists, CheckIsFile, OpenProbe, Probe, ReadPid, Unprobe,
       GraceEnded, GraceExpired, Unheard
  <2> QED
    BY <1>1, <2>1, <2>2, <2>3 DEF Act, CliStep
<1>2. ASSUME NEW w \in Workers, PidReuse(w)
      PROVE  UNCHANGED <<dataVars, pc, rc, announced, released>>
  BY <1>2 DEF PidReuse
<1>3. ASSUME NEW c \in Teardowns, Bows(c)
      PROVE  UNCHANGED <<dataVars, pc, rc, announced, released>>
  BY <1>3 DEF Bows
<1>4. ASSUME Polls \/ UNCHANGED allVars
      PROVE  UNCHANGED <<dataVars, pc, rc, announced, released>>
  BY <1>4 DEF Polls, allVars
<1> QED
  BY <1>1, <1>2, <1>3, <1>4, DirectoryCases

\* A worker stays alone only if it was so, it leaves for good, and once it leaves
\* nothing comes back.
LEMMA AloneKept ==
  ASSUME RunInv, [RunNext]_commandVars, NEW w \in Workers, Alone(w)'
  PROVE  /\ Alone(w)
         /\ pc[w] \in LeftPcs =>
              pc'[w] \in LeftPcs /\ (Empty => Empty') /\ (slot # "dir" => slot' # "dir")
<1>1. TypeOK /\ FailedInv
  BY DEF RunInv, RunTypeOK, CliTypeOK
<1>2. ASSUME NEW v \in Workers, Step(v)
      PROVE  /\ Alone(w)
             /\ pc[w] \in LeftPcs =>
                  pc'[w] \in LeftPcs /\ (Empty => Empty') /\ (slot # "dir" => slot' # "dir")
  <2>1. CASE v = w
    <3>1. Alone(w)
      BY <1>1, <1>2, WorkerForward DEF Alone, Forward
    <3> QED
      BY <1>1, <1>2, <2>1, <3>1, Progress, OwnData
  <2>2. CASE v # w
    BY <1>1, <1>2, <2>2, OthersQuiet DEF fsVars, dataVars, Empty
  <2> QED
    BY <2>1, <2>2
<1>3. CASE \E c \in Clis : Removes(c)
  BY <1>3 DEF Removes, Alone
<1>4. CASE UNCHANGED <<dataVars, pc, rc, announced, released>>
  BY <1>4 DEF Alone, dataVars, Empty
<1> QED
  BY <1>2, <1>3, <1>4, StepKinds

\* The invariant on a lone worker.
LEMMA AloneStep ==
  ASSUME RunInv, [RunNext]_commandVars
  PROVE  AloneInv'
<1>1. TypeOK /\ FailedInv /\ AloneInv
  BY DEF RunInv, RunTypeOK, CliTypeOK
<1> SUFFICES ASSUME NEW w \in Workers, Alone(w)'
             PROVE  /\ released' => pc'[w] \in LeftPcs \cup {"abortclose"}
                    /\ InSession(w)' \/ pc'[w] = "identity" => slot' = "dir"
                    /\ InSession(w)' /\ rc'[w] # "failed" => pidFile' = w
  BY DEF AloneInv
<1>2. Alone(w)
  BY AloneKept
<1>3. /\ released => pc[w] \in LeftPcs \cup {"abortclose"}
      /\ InSession(w) \/ pc[w] = "identity" => slot = "dir"
      /\ InSession(w) /\ rc[w] # "failed" => pidFile = w
  BY <1>1, <1>2 DEF AloneInv
<1>4. CASE Step(w)
  BY <1>1, <1>3, <1>4, OwnData
<1>5. ASSUME NEW v \in Workers, v # w, Step(v)
      PROVE  pc'[w] = pc[w] /\ rc'[w] = rc[w] /\ UNCHANGED <<fsVars, released>>
  BY <1>1, <1>5, OthersQuiet, OwnStep
<1>6. ASSUME NEW c \in Clis, Removes(c)
      PROVE  pc[w] \in LeftPcs /\ UNCHANGED <<pc, released>>
  BY <1>2, <1>6 DEF Removes, RunInv, WipeInv
<1> QED
  BY <1>3, <1>4, <1>5, <1>6, StepKinds
     DEF InSession, SessionPcs, LeftPcs, LeavingPcs, fsVars, dataVars

-----------------------------------------------------------------------------
(* The stations of start and run, and the answers of their workers *)

\* A worker that has given up does not come back, whoever takes the step.
LEMMA GoneKept ==
  ASSUME RunInv, [RunNext]_commandVars, NEW w \in Workers
  PROVE  /\ pc[w] \in GonePcs => pc'[w] \in GonePcs
         /\ announced \subseteq announced'
         /\ w \in announced' =>
              pc'[w] \in IdentifiedPcs \ {"starting"} /\ rc'[w] # "failed"
         /\ rc'[w] \in {"required", "error"} => pc'[w] \in GonePcs
         /\ rc'[w] = "active" => pc'[w] = "exited"
<1>1. TypeOK /\ OutcomeInv /\ (rc[w] = "failed" => pc[w] # "starting")
  BY DEF RunInv, RunTypeOK, CliTypeOK, FailedInv
<1>2. CASE Step(w)
  BY <1>1, <1>2, Progress DEF OutcomeInv
<1>3. ASSUME NEW v \in Workers, v # w, Step(v)
      PROVE  /\ pc'[w] = pc[w] /\ rc'[w] = rc[w]
             /\ announced \subseteq announced' /\ announced' \subseteq announced \cup {v}
  BY <1>1, <1>3, Progress, OwnStep
<1>4. CASE \E v \in Workers : v # w /\ Step(v)
  BY <1>1, <1>3, <1>4 DEF OutcomeInv
<1>5. CASE (\E c \in Clis : Removes(c)) \/ UNCHANGED <<dataVars, pc, rc, announced, released>>
  <2>1. UNCHANGED <<pc, rc, announced>>
    BY <1>5 DEF Removes
  <2> QED
    BY <1>1, <2>1 DEF OutcomeInv
<1> QED
  BY <1>2, <1>4, <1>5, StepKinds

\* A worker that has failed by itself stays out of the session.
LEMMA FailedKept ==
  ASSUME RunInv, [RunNext]_commandVars
  PROVE  FailedInv'
<1>1. TypeOK /\ FailedInv
  BY DEF RunInv, RunTypeOK, CliTypeOK
<1>2. ASSUME NEW w \in Workers, Step(w)
      PROVE  FailedInv'
  BY <1>1, <1>2, FailedStep
<1>3. ASSUME (\E c \in Clis : Removes(c)) \/ UNCHANGED <<dataVars, pc, rc, announced, released>>
      PROVE  FailedInv'
  BY <1>1, <1>3 DEF Removes, FailedInv
<1> QED
  BY <1>2, <1>3, StepKinds

\* What workers say stays fitting.
LEMMA OutcomeStep ==
  ASSUME RunInv, [RunNext]_commandVars
  PROVE  OutcomeInv'
<1>1. /\ OutcomeInv /\ frame \in [Workers -> Frames]
  BY DEF RunInv, RunTypeOK
<1> SUFFICES ASSUME NEW w \in Workers
             PROVE  /\ frame'[w] = "success" => w \in announced'
                    /\ frame'[w] \notin {"none", "success"} => pc'[w] \in GonePcs
  BY GoneKept DEF OutcomeInv
<1>2. CASE frame'[w] = frame[w]
  BY <1>1, <1>2, GoneKept DEF OutcomeInv
<1>3. CASE frame'[w] = Written(w)'
  <2>1. \/ Written(w)' = "success" /\ w \in announced'
        \/ Written(w)' = "required_failure" /\ rc'[w] = "required"
        \/ Written(w)' = "session_active" /\ rc'[w] = "active"
        \/ Written(w)' = "daemon_error" /\ (rc'[w] = "error" \/ pc'[w] = "exited")
        \/ Written(w)' = "none"
    BY DEF Written
  <2> QED
    BY <1>3, <2>1, GoneKept DEF GonePcs, LeftPcs
<1>4. frame'[w] \in {frame[w], Written(w)'}
  BY <1>1, RunCases
     DEF Moves, Work, runVars, Judge, Fork, Receive, Launch, InstallForwarding, Interrupt,
         ChildEnds, CommandKilled, commandVars
<1> QED
  BY <1>2, <1>3, <1>4

\* Only its own command forks a worker.
LEMMA IdleKept ==
  ASSUME RunInv, [RunNext]_commandVars, NEW c \in Teardowns, pc[ChildOf[c]] = "idle"
  PROVE  pc'[ChildOf[c]] = "idle" \/ Fork(c)
<1>1. TypeOK /\ CliTypeOK /\ ChildOf[c] \in Workers
  BY CliAssumption DEF RunInv, RunTypeOK, CliTypeOK
<1>2. ASSUME NEW w \in Workers, Work(w)
      PROVE  pc'[ChildOf[c]] = "idle"
  <2>1. Step(w)
    BY <1>2 DEF Work, Step, Signal
  <2> QED
    BY <1>1, <1>2, <2>1, IdleWork, OwnStep
<1>3. ASSUME NEW d \in Clis, Act(d)
      PROVE  pc'[ChildOf[c]] = "idle"
  <2>1. CASE SendTerm(d) \/ SendKill(d)
    <3>1. target[d] \in Workers /\ (Step(target[d]) \/ UNCHANGED vars)
      BY <1>1, <2>1, SignalStep
    <3>2. pc[target[d]] # "idle"
      BY <3>1, Disjoint
         DEF RunInv, CliInv, IdentityInv, IdentifiedPcs, EntryPcs, SessionPcs
    <3> QED
      BY <1>1, <3>1, <3>2, OwnStep DEF vars, workerVars
  <2>2. ASSUME ~(SendTerm(d) \/ SendKill(d))
        PROVE  UNCHANGED pc
    BY <1>3, <2>2
       DEF Act, CliStep, ReadIdentity, CheckExists, CheckIsFile, OpenProbe, Probe, ReadPid,
           Unprobe, GraceEnded, GraceExpired, Unheard, CliWipeData, CliWipeSlot, vars, workerVars
  <2> QED
    BY <2>1, <2>2
<1>4. ASSUME NEW d \in Teardowns, Fork(d)
      PROVE  pc'[ChildOf[c]] = "idle" \/ Fork(c)
  <2>1. CASE d = c
    BY <1>4, <2>1
  <2>2. CASE d # c
    <3>1. ChildOf[d] # ChildOf[c] /\ ChildOf[d] \in Workers
      BY <2>2, RunAssumption, CliAssumption
    <3> QED
      BY <1>1, <1>4, <3>1 DEF Fork, Spawn, Goto, TypeOK, vars, workerVars
  <2> QED
    BY <2>1, <2>2
<1>5. ASSUME NEW d \in Teardowns,
             Judge(d) \/ Receive(d) \/ Launch(d) \/ InstallForwarding(d)
             \/ Interrupt(d) \/ ChildEnds(d) \/ CommandKilled(d)
      PROVE  UNCHANGED pc
  BY <1>5 DEF Judge, Receive, Launch, InstallForwarding, Interrupt, ChildEnds,
     CommandKilled, allVars, vars, workerVars
<1>6. ASSUME (\E w \in Workers : PidReuse(w)) \/ UNCHANGED commandVars
      PROVE  UNCHANGED pc
  BY <1>6 DEF PidReuse, commandVars, allVars, vars, workerVars
<1> QED
  BY <1>2, <1>3, <1>4, <1>5, <1>6, RunCases DEF Moves

\* Any other step leaves c where it is.
LEMMA OwnMoves ==
  ASSUME RunInv, [RunNext]_commandVars, NEW c \in Teardowns, ~Moves(c)
  PROVE  /\ at'[c] = at[c] /\ renders'[c] = renders[c] /\ (c \in unsaid' <=> c \in unsaid)
         /\ code'[c] = code[c] \/ at[c] = "teardown"
         /\ cpc'[c] = cpc[c] \/ (at[c] = "teardown" /\ Act(c))
<1>1. CliTypeOK /\ RunTypeOK /\ c \in Clis
  BY DEF RunInv, RunTypeOK, Clis
<1>2. ASSUME NEW w \in Workers, Work(w) \/ (PidReuse(w) /\ UNCHANGED runVars)
      PROVE  UNCHANGED <<at, code, renders, unsaid, cpc>>
  BY <1>2 DEF Work, PidReuse, runVars, cliVars
<1>3. ASSUME NEW d \in Clis, Act(d), d \in Teardowns => at[d] = "teardown",
             UNCHANGED <<runs, at, renders, unsaid, frame>>,
             \/ UNCHANGED code
             \/ d \in Teardowns /\ code' = [code EXCEPT ![d] = Traceback]
      PROVE  /\ UNCHANGED <<at, renders, unsaid>>
             /\ code'[c] = code[c] \/ at[c] = "teardown"
             /\ cpc'[c] = cpc[c] \/ (at[c] = "teardown" /\ Act(c))
  BY <1>1, <1>3, ActFrame DEF RunInv, CliInv, RunTypeOK
<1>4. ASSUME NEW d \in Teardowns, d # c, Moves(d)
      PROVE  /\ at'[c] = at[c] /\ code'[c] = code[c] /\ renders'[c] = renders[c]
             /\ cpc'[c] = cpc[c] /\ (c \in unsaid' <=> c \in unsaid)
  <2>1. CASE Judge(d)
    BY <1>1, <1>4, <2>1 DEF Judge, ExitSaying, Exit, Proceed, Settle, CGoto, RunTypeOK,
       CliTypeOK, cliVars
  <2>2. CASE Fork(d) \/ Receive(d)
    BY <1>1, <1>4, <2>2
       DEF Fork, Receive, ExitSaying, Exit, Proceed, Settle, CGoto, RunTypeOK, CliTypeOK,
           cliVars
  <2>3. CASE Launch(d) \/ InstallForwarding(d) \/ Interrupt(d) \/ ChildEnds(d)
    BY <1>1, <1>4, <2>3
       DEF Launch, InstallForwarding, Interrupt, ChildEnds, Proceed, Settle, RunTypeOK,
           allVars, cliVars
  <2>4. CASE CommandKilled(d)
    BY <1>1, <1>4, <2>4 DEF CommandKilled, Proceed, CGoto, RunTypeOK, CliTypeOK
  <2> QED
    BY <1>4, <2>1, <2>2, <2>3, <2>4 DEF Moves
<1>5. CASE UNCHANGED commandVars
  BY <1>5 DEF commandVars, runVars, allVars, cliVars
<1> QED
  BY <1>2, <1>3, <1>4, <1>5, RunCases

\* The stations go with the worker and the teardown.
LEMMA StationStep ==
  ASSUME RunInv, [RunNext]_commandVars
  PROVE  StationInv'
<1> SUFFICES ASSUME NEW c \in Teardowns
             PROVE  /\ at'[c] \notin {"teardown", "end"} => cpc'[c] = "read"
                    /\ at'[c] = "end" => cpc'[c] = "gone"
                    /\ at'[c] \in {"args", "fork"} => pc'[ChildOf[c]] = "idle"
                    /\ at'[c] \in {"launch", "window", "child", "teardown"} =>
                         ChildOf[c] \in announced'
  BY DEF StationInv
<1>1. /\ RunTypeOK /\ CliTypeOK /\ c \in Clis /\ ChildOf[c] \in Workers
      /\ at[c] \notin {"teardown", "end"} => cpc[c] = "read"
      /\ at[c] = "end" => cpc[c] = "gone"
      /\ at[c] \in {"args", "fork"} => pc[ChildOf[c]] = "idle"
      /\ at[c] \in {"launch", "window", "child", "teardown"} => ChildOf[c] \in announced
  BY CliAssumption DEF RunInv, RunTypeOK, StationInv, Clis
<1>2. announced \subseteq announced'
  BY <1>1, GoneKept
<1>3. CASE ~Moves(c)
  BY <1>1, <1>2, <1>3, OwnMoves, IdleKept DEF Moves
<1>4. CASE Judge(c)
  BY <1>1, <1>2, <1>4
     DEF Judge, ExitSaying, Exit, Proceed, CGoto, RunTypeOK, CliTypeOK, cliVars, vars,
         workerVars
<1>5. CASE Fork(c)
  BY <1>1, <1>2, <1>5 DEF Fork, ExitSaying, Exit, Proceed, CGoto, RunTypeOK, CliTypeOK, cliVars
<1>6. CASE Receive(c)
  <2>1. frame[ChildOf[c]] = "success" => ChildOf[c] \in announced
    BY <1>1 DEF RunInv, OutcomeInv
  <2> QED
    BY <1>1, <1>2, <1>6, <2>1
       DEF Receive, ExitSaying, Exit, Proceed, CGoto, RunTypeOK, CliTypeOK, cliVars
<1>7. CASE Launch(c) \/ InstallForwarding(c) \/ Interrupt(c) \/ ChildEnds(c)
  BY <1>1, <1>2, <1>7
     DEF Launch, InstallForwarding, Interrupt, ChildEnds, Proceed, RunTypeOK, allVars, cliVars
<1>8. CASE CommandKilled(c)
  BY <1>1, <1>8 DEF CommandKilled, Proceed, CGoto, RunTypeOK, CliTypeOK
<1> QED
  BY <1>3, <1>4, <1>5, <1>6, <1>7, <1>8 DEF Moves

\* A failure is reported only of a worker that has given up or never came up.
LEMMA FailureStep ==
  ASSUME RunInv, [RunNext]_commandVars
  PROVE  FailureLeavesNoDaemon'
<1> DEFINE Fine == GonePcs \cup {"idle"}
<1> SUFFICES ASSUME NEW c \in Teardowns, at'[c] = "end", code'[c] \notin {OK, None},
                    renders'[c], c \notin unsaid'
             PROVE  pc'[ChildOf[c]] \in Fine
  BY DEF FailureLeavesNoDaemon, GonePcs, LeftPcs
<1>1. /\ RunTypeOK /\ ChildOf[c] \in Workers
      /\ at[c] \in {"args", "fork"} => pc[ChildOf[c]] = "idle"
      /\ frame[ChildOf[c]] \notin {"none", "success"} => pc[ChildOf[c]] \in GonePcs
  BY CliAssumption DEF RunInv, RunTypeOK, StationInv, OutcomeInv
<1>2. CASE ~Moves(c)
  <2>1. pc[ChildOf[c]] \in Fine
    BY <1>2, OwnMoves DEF RunInv, FailureLeavesNoDaemon, GonePcs, LeftPcs
  <2> QED
    BY <1>1, <1>2, <2>1, GoneKept, IdleKept DEF Moves
<1>3. CASE Judge(c)
  BY <1>1, <1>3 DEF Judge, vars, workerVars
<1>4. CASE Fork(c)
  BY <1>1, <1>4 DEF Fork, Proceed, RunTypeOK, vars, workerVars
<1>5. CASE Receive(c)
  <2>1. CASE frame[ChildOf[c]] = "success"
    <3>1. renders[c] /\ c \notin runs
      BY <1>1, <1>5, <2>1 DEF Receive, Proceed, RunTypeOK
    \* The other end of a start is among the unsaid.
    <3>2. code'[c] = StatusOf("success")
      BY <1>1, <1>5, <2>1, <3>1 DEF Receive, Exit, Settle, RunTypeOK
    <3> QED
      BY <3>2 DEF StatusOf
  <2>2. CASE frame[ChildOf[c]] = "none"
    BY <1>5, <2>2 DEF Receive, Answered, GonePcs, LeftPcs, vars, workerVars
  <2> QED
    BY <1>1, <1>5, <2>1, <2>2 DEF Receive, vars, workerVars
<1>6. CASE Launch(c) \/ InstallForwarding(c) \/ Interrupt(c) \/ ChildEnds(c)
  BY <1>1, <1>6 DEF Launch, InstallForwarding, Interrupt, ChildEnds, Proceed, RunTypeOK
<1>7. CASE CommandKilled(c)
  BY <1>1, <1>7 DEF CommandKilled, RunTypeOK
<1> QED
  BY <1>2, <1>3, <1>4, <1>5, <1>6, <1>7 DEF Moves

-----------------------------------------------------------------------------
(* The teardown *)

\* A command's place changes only by its own doing.
LEMMA OwnActs ==
  ASSUME RunInv, [RunNext]_commandVars, NEW c \in Clis, cpc'[c] \notin {cpc[c], "gone"}
  PROVE  Act(c) /\ (c \in Teardowns => at[c] = "teardown")
<1>1. CliTypeOK /\ CliLockInv
  BY DEF RunInv, RunTypeOK, CliInv
<1>2. ASSUME NEW d \in Clis, Act(d), d # c
      PROVE  cpc'[c] = cpc[c]
  BY <1>1, <1>2, ActFrame DEF RunInv, CliInv
<1>3. ASSUME NEW d \in Teardowns, Moves(d)
      PROVE  cpc'[c] \in {cpc[c], "gone"}
  BY <1>1, <1>3
     DEF Moves, Judge, Fork, Receive, Launch, InstallForwarding, Interrupt, ChildEnds,
         CommandKilled, ExitSaying, Exit, CGoto, CliTypeOK, allVars, cliVars
<1>4. ASSUME \/ \E w \in Workers : Work(w) \/ PidReuse(w)
             \/ UNCHANGED commandVars
      PROVE  cpc' = cpc
  BY <1>4 DEF Work, PidReuse, commandVars, allVars, cliVars
<1> QED
  BY <1>2, <1>3, <1>4, RunCases

\* A command turns to the removal because there is no daemon.pid, which only
\* the teardown of run does, or after a verdict or a signal.
LEMMA WipeBegins ==
  ASSUME CliTypeOK, NEW c \in Clis, Act(c), cpc'[c] = "wipe"
  PROVE  \/ /\ c \in Teardowns /\ ~(slot = "dir" /\ pidFile # None)
            /\ UNCHANGED pc
         \/ report'[c] \in Denials \cup {"stopped", "forced"}
<1> USE DEF CliTypeOK, CGoto, Say, Denials
<1>1. CASE ReadIdentity(c)
  BY <1>1 DEF ReadIdentity, vars, workerVars
<1>2. CASE CheckExists(c) \/ CheckIsFile(c) \/ OpenProbe(c) \/ Unprobe(c)
  BY <1>2, ConcludeCases DEF CheckExists, CheckIsFile, OpenProbe, Unprobe
<1>3. CASE ReadPid(c)
  BY <1>3, ConcludeCases, VerdictCases DEF ReadPid
<1>4. CASE Probe(c) \/ GraceExpired(c) \/ Unheard(c) \/ CliWipeData(c) \/ CliWipeSlot(c)
  BY <1>4 DEF Probe, GraceExpired, Unheard, CliWipeData, CliWipeSlot
<1>5. CASE SendTerm(c) \/ GraceEnded(c) \/ SendKill(c)
  BY <1>5 DEF SendTerm, GraceEnded, SendKill
<1> QED
  BY <1>1, <1>2, <1>3, <1>4, <1>5 DEF Act, CliStep

\* What a removal is about has left or is leaving.
LEMMA WipeStep ==
  ASSUME RunInv, [RunNext]_commandVars
  PROVE  WipeInv'
<1> SUFFICES ASSUME NEW c \in Clis, NEW w \in Workers,
                    cpc'[c] \in {"wipe", "wiperm"}, Alone(w)'
             PROVE  pc'[w] \in LeftPcs
  BY DEF WipeInv
<1>1. CASE cpc[c] \in {"wipe", "wiperm"}
  BY <1>1, AloneKept DEF RunInv, WipeInv
<1>2. CASE cpc[c] \notin {"wipe", "wiperm"}
  <2>1. CliTypeOK /\ Act(c) /\ (c \in Teardowns => at[c] = "teardown")
    BY <1>2, OwnActs DEF RunInv, RunTypeOK
  <2>2. cpc'[c] = "wipe"
    BY <1>2, <2>1, ConcludeCases
       DEF Act, CliStep, ReadIdentity, CheckExists, CheckIsFile, OpenProbe, Probe, ReadPid,
           Unprobe, SendTerm, GraceEnded, GraceExpired, Unheard, SendKill, CliWipeData, CliWipeSlot,
           CGoto, CliTypeOK
  <2>3. CASE /\ c \in Teardowns /\ ~(slot = "dir" /\ pidFile # None)
             /\ UNCHANGED pc
    <3>1. /\ ChildOf[c] \in Workers
          /\ pc[ChildOf[c]] \in IdentifiedPcs \ {"starting"} /\ rc[ChildOf[c]] # "failed"
      BY <2>1, <2>3, CliAssumption DEF RunInv, StationInv, OutcomeInv
    <3>2. ChildOf[c] = w /\ Alone(w)
      BY <2>3, <3>1, AloneKept DEF Alone, IdentifiedPcs, EntryPcs, SessionPcs
    <3>3. ~InSession(w)
      BY <2>3, <3>1, <3>2, Disjoint DEF RunInv, AloneInv
    <3> QED
      BY <2>3, <3>1, <3>2, <3>3
         DEF IdentifiedPcs, EntryPcs, InSession, LeftPcs, LeavingPcs
  <2>4. CASE report'[c] \in Denials \cup {"stopped", "forced"}
    <3>1. CliInv' /\ AloneInv'
      BY CliInvKept, AloneStep
    <3>2. /\ target'[c] \in Workers
          /\ pc'[target'[c]] \in IdentifiedPcs
          /\ ~released' => pc'[target'[c]] = "exited"
      BY <2>4, <3>1
         DEF CliInv, CliLockInv, CliTypeOK, IdentityInv, SpokenInv, ReportInv, DeadInv,
             StoppedInv, Denials
    <3>3. target'[c] = w
      BY <3>2 DEF Alone, IdentifiedPcs, EntryPcs, SessionPcs
    <3>4. released' => pc'[w] \in LeftPcs \cup {"abortclose"}
      BY <3>1 DEF AloneInv
    <3> QED
      BY <3>2, <3>3, <3>4 DEF IdentifiedPcs, EntryPcs, SessionPcs, LeftPcs
  <2> QED
    BY <2>1, <2>2, <2>3, <2>4, WipeBegins
<1> QED
  BY <1>1, <1>2

\* The teardown leaves nothing.
LEMMA TornStep ==
  ASSUME RunInv, [RunNext]_commandVars
  PROVE  TornInv'
<1> SUFFICES ASSUME NEW c \in Teardowns, Alone(ChildOf[c])'
             PROVE  /\ cpc'[c] = "wiperm" => Empty'
                    /\ cpc'[c] = "done" =>
                         slot' # "dir" /\ Empty' /\ pc'[ChildOf[c]] \in LeftPcs
  BY DEF TornInv
<1>1. /\ CliTypeOK /\ StoreInv /\ c \in Clis /\ c \notin Statuses
      /\ ChildOf[c] \in Workers
  BY CliAssumption DEF RunInv, RunTypeOK, CliInv, Clis
<1>2. /\ Alone(ChildOf[c])
      /\ pc[ChildOf[c]] \in LeftPcs =>
           /\ pc'[ChildOf[c]] \in LeftPcs
           /\ Empty => Empty'
           /\ slot # "dir" => slot' # "dir"
  BY <1>1, AloneKept
<1>3. /\ cpc[c] \in {"wipe", "wiperm"} => pc[ChildOf[c]] \in LeftPcs
      /\ cpc[c] = "wiperm" => Empty
      /\ cpc[c] = "done" => slot # "dir" /\ Empty /\ pc[ChildOf[c]] \in LeftPcs
  BY <1>1, <1>2 DEF RunInv, WipeInv, TornInv
<1>4. CASE cpc'[c] = cpc[c]
  BY <1>2, <1>3, <1>4
<1>5. CASE cpc'[c] # cpc[c] /\ cpc'[c] \in {"wiperm", "done"}
  <2>1. Act(c)
    BY <1>1, <1>5, OwnActs
  <2>2. CASE CliWipeData(c)
    BY <1>1, <1>5, <2>2
       DEF CliWipeData, WipeEntries, RemoveEntries, StoreInv, Empty, CGoto, CliTypeOK, dataVars
  <2>3. CASE CliWipeSlot(c)
    BY <1>1, <1>2, <1>3, <1>5, <2>3
       DEF CliWipeSlot, WipeDir, CanRemoveDir, RemoveDir, Empty, CGoto, CliTypeOK, dataVars
  <2>4. CliWipeData(c) \/ CliWipeSlot(c)
    BY <1>1, <1>5, <2>1, ConcludeCases
       DEF Act, CliStep, ReadIdentity, CheckExists, CheckIsFile, OpenProbe, Probe, ReadPid,
           Unprobe, SendTerm, GraceEnded, GraceExpired, Unheard, SendKill, CGoto, CliTypeOK
  <2> QED
    BY <2>2, <2>3, <2>4
<1> QED
  BY <1>4, <1>5

-----------------------------------------------------------------------------
(* Everything together *)

\* The invariant holds at the start.
LEMMA RunInvInit == RunInit => RunInv
<1> SUFFICES ASSUME RunInit PROVE RunInv
  OBVIOUS
<1>1. CliInv
  BY CliInvInit DEF RunInit
<1>2. RunTypeOK
  BY <1>1 DEF RunInit, RunTypeOK, CliInv, CliLockInv, Stations, Frames
<1>3. /\ \A w \in Workers : pc[w] = "idle" /\ rc[w] = "none" /\ frame[w] = "none"
      /\ announced = {} /\ released = FALSE
      /\ \A c \in Clis : cpc[c] = "read"
      /\ \A c \in Teardowns : at[c] = "args" /\ code[c] = None
  BY DEF RunInit, CliInit, Init
<1>4. FailedInv /\ OutcomeInv /\ StationInv
  BY <1>3, CliAssumption DEF FailedInv, OutcomeInv, StationInv, Clis
<1>5. AloneInv /\ WipeInv /\ TornInv
  BY <1>3 DEF AloneInv, WipeInv, TornInv, InSession, SessionPcs, Clis
<1>6. FailureLeavesNoDaemon
  BY <1>3 DEF FailureLeavesNoDaemon
<1> QED
  BY <1>1, <1>2, <1>4, <1>5, <1>6 DEF RunInv

\* The invariant holds throughout.
LEMMA RunInvariant == RunSpec => []RunInv
<1>1. RunInv /\ [RunNext]_commandVars => RunInv'
  BY CliInvKept, RunTypeKept, FailedKept, OutcomeStep, StationStep, AloneStep, WipeStep, TornStep,
     FailureStep DEF RunInv
<1> QED
  BY <1>1, RunInvInit, PTL DEF RunSpec

-----------------------------------------------------------------------------
(* Results *)

\* start and run keep the types, and end with one of the documented statuses, 127
\* or the status of the child.
THEOREM RunTypeCorrect == RunSpec => []RunTypeOK
<1>1. RunInv => RunTypeOK
  BY DEF RunInv
<1> QED
  BY <1>1, RunInvariant, PTL

\* _teardown_run leaves neither a daemon in service nor its data, however the
\* daemon, the child, other commands and signals have been interleaved with it.
THEOREM RunTornDown == RunSpec => []RunTearsDown
<1>1. RunInv => RunTearsDown
  BY DEF RunInv, RunTypeOK, TornInv, RunTearsDown, Running, LeftPcs
<1> QED
  BY <1>1, RunInvariant, PTL

\* A start or run that exits with a failure leaves no daemon behind, unless the
\* daemon came up and the command could not render the answer or not write it.
THEOREM NoDaemonAfterFailure == RunSpec => []FailureLeavesNoDaemon
<1>1. RunInv => FailureLeavesNoDaemon
  BY DEF RunInv
<1> QED
  BY <1>1, RunInvariant, PTL

\* What is proved of stop and status holds among start and run commands too: no
\* live daemon is missed, nothing is left by a stop, no bystander is signalled.
THEOREM CommandsTogether ==
  RunSpec => [](NoDaemonMissed /\ StopLeavesNothing /\ BystandersSpared)
<1>1. RunInv => NoDaemonMissed /\ StopLeavesNothing /\ BystandersSpared
  BY DEF RunInv, CliInv, SpokenInv, DeadInv, Denials, StoppedInv, Sole, SignalInv,
         NoDaemonMissed, StopLeavesNothing, Running
<1> QED
  BY <1>1, RunInvariant, PTL
=============================================================================
