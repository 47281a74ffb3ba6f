---------------------------- MODULE SessionWorker ----------------------------
(***************************************************************************)
(* The daemon side of a session: tunstrap._worker processes started with   *)
(* the same --session-dir, from SessionDir.create through serving to       *)
(* SessionDir.cleanup.  A worker's pc names the next system call it makes, *)
(* so every interleaving of two starts, or of a start with the cleanup of  *)
(* an earlier daemon, is a behaviour.                                      *)
(*                                                                         *)
(* What happens inside TunnelManager between the identity file and the     *)
(* report to the parent is a choice of outcomes here; module TunnelManager *)
(* models it.                                                              *)
(***************************************************************************)
EXTENDS SessionFS

CONSTANTS
  Workers,     \* the workers spawned over the life of the directory
  Signalled,   \* the workers that somebody else may signal
  Abandoned,   \* the workers whose parent may end before it reads their frame
  Faulty       \* the workers whose system calls on the directory may fail for
               \* reasons of their own: no space, no rights, an I/O error

ASSUME WorkerAssumption ==
  /\ Workers \subseteq Procs
  /\ Signalled \subseteq Workers
  /\ Abandoned \subseteq Workers
  /\ Faulty \subseteq Workers

VARIABLES
  pc,           \* pc[w]: the next step of worker w
  rc,           \* rc[w]: the status w has decided on or died with, or "none"
  orphaned,     \* workers whose parent is gone, so their IPC pipe has no reader
  materialized, \* workers that wrote a kubeconfig and put its path in the output
  announced,    \* workers that have written their success frame
  released,     \* history: some worker has called release_session_lock
  leftover      \* history: the name session.lock is one that a call which
                \* failed has left behind

auxVars == <<orphaned, materialized, announced, released, leftover>>
workerVars == <<pc, rc, auxVars>>
vars == <<fsVars, workerVars>>

\* From a won flock to the close (or the death) that drops it.
LockedPcs ==
  {"truncate", "record", "sync", "check", "reclaim", "rmdir", "mkdir",
   "identity", "starting", "handlers", "serving", "stopping", "unlink", "close",
   "abort", "abortclose"}

\* acquire_session_lock.
AcquirePcs == {"open", "flock", "truncate", "record", "sync"}

\* The pid is in session.lock.
RecordedPcs == LockedPcs \ {"truncate", "record"}

\* daemon.pid is written and the lock not yet given up.
SessionPcs == {"starting", "handlers", "serving", "stopping", "unlink"}

Pcs == LockedPcs \cup {"idle", "open", "flock", "wipe", "wiperm", "exited"}

\* "error" is reported before the cleanup it leads to, "failed" after it.
Codes == {"none", "ok", "required", "active", "error", "failed",
          "killed", "terminated", "crashed"}

TypeOK ==
  /\ FSTypeOK
  /\ pc \in [Workers -> Pcs]
  /\ rc \in [Workers -> Codes]
  /\ orphaned \subseteq Workers
  /\ materialized \subseteq Workers
  /\ announced \subseteq Workers
  /\ released \in BOOLEAN
  /\ leftover \in BOOLEAN

Init ==
  /\ FSInit
  /\ pc = [w \in Workers |-> "idle"]
  /\ rc = [w \in Workers |-> "none"]
  /\ orphaned = {}
  /\ materialized = {}
  /\ announced = {}
  /\ released = FALSE
  /\ leftover = FALSE

Goto(w, next) == pc' = [pc EXCEPT ![w] = next]
Decide(w, code) == rc' = [rc EXCEPT ![w] = code]

\* The process ends with a status and without another line of its own code.
\* The kernel closes its descriptors.
Die(w, code) ==
  /\ Goto(w, "exited")
  /\ Decide(w, code)
  /\ CloseLockFd(w)
  /\ UNCHANGED <<dataVars, auxVars>>

-----------------------------------------------------------------------------
(* SessionDir.create *)

\* spawn_daemon has forked the worker.
Spawn(w) ==
  /\ pc[w] = "idle"
  /\ Goto(w, "open")
  /\ UNCHANGED <<fsVars, rc, auxVars>>

\* Mutant: the lock file is opened with O_TRUNC.
OpenLockTruncating(w) ==
  /\ pc[w] = "open"
  /\ \E i \in IF lockFile = None THEN FreeInodes ELSE {lockFile} :
       /\ lockFile' = i
       /\ fd' = [fd EXCEPT ![w] = i]
       /\ recorded' = [recorded EXCEPT ![i] = None]
  /\ Goto(w, "flock")
  /\ UNCHANGED <<flocked, dataVars, rc, auxVars>>

\* acquire_session_lock: os.open.
OpenLock(w) ==
  /\ pc[w] = "open"
  /\ OpenCreate(w)
  /\ Goto(w, "flock")
  /\ UNCHANGED <<dataVars, rc, auxVars>>

\* The directory is no absolute path, or it or session.lock cannot be made or
\* opened, or one of flock, ftruncate, write and fsync raises.  None of it is
\* in the try of create, so nobody calls release_session_lock: a daemon_error
\* frame, exit 4, and a session.lock that is there stays.
FailAcquire(w) ==
  /\ pc[w] \in AcquirePcs
  /\ w \in Faulty
  /\ Goto(w, "exited")
  /\ Decide(w, "failed")
  /\ CloseLockFd(w)
  /\ leftover' = (leftover \/ (fd[w] # None /\ fd[w] = lockFile))
  /\ UNCHANGED <<dataVars, orphaned, materialized, announced, released>>

\* acquire_session_lock: the flock is won ...
WinLock(w) ==
  /\ pc[w] = "flock"
  /\ Flock(w)
  /\ Goto(w, "truncate")
  /\ UNCHANGED <<dataVars, rc, auxVars>>

\* Mutant: the loser calls release_session_lock, which unlinks the name.
LoseLockReleasing(w) ==
  /\ pc[w] = "flock"
  /\ Contended(w)
  /\ lockFile' = None
  /\ fd' = [fd EXCEPT ![w] = None]
  /\ Goto(w, "exited")
  /\ Decide(w, "active")
  /\ UNCHANGED <<recorded, flocked, dataVars, auxVars>>

\* Mutant: the flock is asked for without LOCK_NB, and the worker waits.
LoseLockWaiting(w) ==
  /\ pc[w] = "flock"
  /\ Contended(w)
  /\ UNCHANGED vars

\* ... or refused: SessionActive, a session_active frame, exit 3.  A lost
\* pipe is ignored there.
LoseLock(w) ==
  /\ pc[w] = "flock"
  /\ Contended(w)
  /\ Die(w, "active")

TruncateLock(w) ==
  /\ pc[w] = "truncate"
  /\ WriteLock(w, None)
  /\ Goto(w, "record")
  /\ UNCHANGED <<dataVars, rc, auxVars>>

\* Mutant: the descriptor is written instead of the pid.
RecordDescriptor(w) ==
  /\ pc[w] = "record"
  /\ WriteLock(w, fd[w])
  /\ Goto(w, "sync")
  /\ UNCHANGED <<dataVars, rc, auxVars>>

RecordPid(w) ==
  /\ pc[w] = "record"
  /\ WriteLock(w, w)
  /\ Goto(w, "sync")
  /\ UNCHANGED <<dataVars, rc, auxVars>>

\* fsync: acquire_session_lock returns.
SyncLock(w) ==
  /\ pc[w] = "sync"
  /\ Goto(w, "check")
  /\ UNCHANGED <<fsVars, rc, auxVars>>

\* create raises: release_session_lock, then main reports and exits 4.
\* tunnel-data is left as it is.
AbortCreate(w) ==
  /\ Goto(w, "abort")
  /\ Decide(w, "failed")
  /\ UNCHANGED dataVars

\* Mutant: whatever is at tunnel-data is taken over, as mkdir(exist_ok=True)
\* without _reclaim_data_slot would.
CheckSlotExistOk(w) ==
  /\ pc[w] = "check"
  /\ Goto(w, IF slot = "absent" THEN "mkdir" ELSE "identity")
  /\ UNCHANGED <<fsVars, rc, auxVars>>

\* _reclaim_data_slot: what is in the way of the new tunnel-data?
CheckSlot(w) ==
  /\ pc[w] = "check"
  /\ \/ slot = "unsafe" /\ AbortCreate(w)
     \/ slot = "absent" /\ Goto(w, "mkdir") /\ UNCHANGED <<dataVars, rc>>
     \/ slot = "dir" /\ Goto(w, "reclaim") /\ UNCHANGED <<dataVars, rc>>
  /\ UNCHANGED <<lockVars, auxVars>>

\* _reclaim_data_slot: rmtree removes the entries, or raises: a directory that
\* vanished in between, or any other error.
ReclaimEntries(w) ==
  /\ pc[w] = "reclaim"
  /\ \/ slot = "dir" /\ RemoveEntries /\ Goto(w, "rmdir") /\ UNCHANGED rc
     \/ (slot # "dir" \/ w \in Faulty) /\ AbortCreate(w)
  /\ UNCHANGED <<lockVars, auxVars>>

\* _reclaim_data_slot: rmtree removes the directory, or raises: ENOTEMPTY,
\* ENOENT, or any other error.
ReclaimDir(w) ==
  /\ pc[w] = "rmdir"
  /\ \/ CanRemoveDir /\ RemoveDir /\ Goto(w, "mkdir") /\ UNCHANGED rc
     \/ (~CanRemoveDir \/ w \in Faulty) /\ AbortCreate(w)
  /\ UNCHANGED <<lockVars, auxVars>>

\* data.mkdir(mode=0o700), which raises EEXIST or any other error.
MakeDir(w) ==
  /\ pc[w] = "mkdir"
  /\ \/ /\ slot = "absent"
        /\ slot' = "dir"
        /\ Goto(w, "identity")
        /\ UNCHANGED <<pidFile, secrets, rc>>
     \/ (slot # "absent" \/ w \in Faulty) /\ AbortCreate(w)
  /\ UNCHANGED <<lockVars, auxVars>>

-----------------------------------------------------------------------------
(* main and _run up to the report *)

\* Every failure after create runs session.cleanup and ends with a status.
Cleanup(w, code) ==
  /\ Goto(w, "unlink")
  /\ Decide(w, code)
  /\ UNCHANGED dataVars

\* SessionDir.write_identity; without a directory to write in, or on any other
\* error, cleanup, the report and exit 4.
WriteIdentity(w) ==
  /\ pc[w] = "identity"
  /\ \/ /\ slot = "dir"
        /\ pidFile' = w
        /\ Goto(w, "starting")
        /\ UNCHANGED <<slot, secrets, rc>>
     \/ (slot # "dir" \/ w \in Faulty) /\ Cleanup(w, "failed")
  /\ UNCHANGED <<lockVars, auxVars>>

\* _start_one writes a kubeconfig with SessionDir.materialize.  A missing
\* directory raises out of the gather into the worker's guard: exit 4.
Materialize(w) ==
  /\ pc[w] = "starting"
  /\ w \notin materialized
  /\ IF slot = "dir"
       THEN /\ secrets' = secrets \cup {w}
            /\ materialized' = materialized \cup {w}
            /\ UNCHANGED <<slot, pidFile, pc, rc>>
       ELSE Cleanup(w, "error") /\ UNCHANGED materialized
  /\ UNCHANGED <<lockVars, orphaned, announced, released, leftover>>

\* Mutant: the error path returns without session.cleanup.
ReportDaemonErrorOnly(w) ==
  /\ pc[w] = "starting"
  /\ Die(w, "error")

\* A bad schema, or an exception of the manager: stop_all, a guarded
\* daemon_error frame, cleanup, exit 4.
ReportDaemonError(w) ==
  /\ pc[w] = "starting"
  /\ Cleanup(w, "error")
  /\ UNCHANGED <<lockVars, auxVars>>

\* ErrorOutput: stop_all, the required_failure frame, cleanup, exit 2.
ReportRequiredFailure(w) ==
  /\ pc[w] = "starting"
  /\ w \notin orphaned
  /\ Cleanup(w, "required")
  /\ UNCHANGED <<lockVars, auxVars>>

\* OutputSchema: the success frame; the signal handlers come after it.
ReportSuccess(w) ==
  /\ pc[w] = "starting"
  /\ w \notin orphaned
  /\ Goto(w, "handlers")
  /\ announced' = announced \cup {w}
  /\ UNCHANGED <<fsVars, rc, orphaned, materialized, released, leftover>>

\* The required_failure and success frames are written without a guard: with
\* nobody left to read them, BrokenPipeError ends the worker, cleanup not run.
ReportLost(w) ==
  /\ pc[w] = "starting"
  /\ w \in orphaned
  /\ Die(w, "crashed")

\* The start or run command that spawned w ends before it has read a frame.
ParentDies(w) ==
  /\ pc[w] \in AcquirePcs \cup {"check", "reclaim", "rmdir", "mkdir", "identity",
                               "starting"}
  /\ w \in Abandoned \ orphaned
  /\ orphaned' = orphaned \cup {w}
  /\ UNCHANGED <<fsVars, pc, rc, materialized, announced, released, leftover>>

-----------------------------------------------------------------------------
(* _run from the handlers to the end *)

InstallHandlers(w) ==
  /\ pc[w] = "handlers"
  /\ Goto(w, "serving")
  /\ UNCHANGED <<fsVars, rc, auxVars>>

\* stop_event is set and the wait ends: by the idle watchdog here, by a
\* signal in Sigterm.
IdleStop(w) ==
  /\ pc[w] = "serving"
  /\ Goto(w, "stopping")
  /\ Decide(w, "ok")
  /\ UNCHANGED <<fsVars, auxVars>>

\* manager.stop_all in the finally block.
StopAll(w) ==
  /\ pc[w] = "stopping"
  /\ Goto(w, "unlink")
  /\ UNCHANGED <<fsVars, rc, auxVars>>

\* release_session_lock, first half: the name goes, or an OSError is ignored
\* and it stays; the flock stays.
UnlinkLock(w) ==
  /\ pc[w] \in {"unlink", "abort"}
  /\ \/ UnlinkName /\ leftover' = FALSE
     \/ /\ w \in Faulty /\ lockFile # None
        /\ leftover' = TRUE
        /\ UNCHANGED lockVars
  /\ Goto(w, IF pc[w] = "unlink" THEN "close" ELSE "abortclose")
  /\ released' = TRUE
  /\ UNCHANGED <<dataVars, rc, orphaned, materialized, announced>>

\* release_session_lock, second half.  A failed create ends here; cleanup
\* goes on to tunnel-data without the lock.
CloseLock(w) ==
  /\ pc[w] \in {"close", "abortclose"}
  /\ CloseLockFd(w)
  /\ Goto(w, IF pc[w] = "close" THEN "wipe" ELSE "exited")
  /\ UNCHANGED <<dataVars, rc, auxVars>>

\* SessionDir.cleanup: rmtree(tunnel-data, ignore_errors=True), in two halves.
WipeData(w) ==
  /\ pc[w] = "wipe"
  /\ WipeEntries
  /\ Goto(w, "wiperm")
  /\ UNCHANGED <<lockVars, rc, auxVars>>

WipeSlot(w) ==
  /\ pc[w] = "wiperm"
  /\ WipeDir
  /\ Goto(w, "exited")
  /\ UNCHANGED <<lockVars, rc, auxVars>>

-----------------------------------------------------------------------------
(* Signals *)

\* SIGTERM.  Once the handler is in, it sets stop_event, which may be set
\* already; until then the default action ends the process.
SigtermTo(w) ==
  \/ /\ pc[w] = "serving"
     /\ Goto(w, "stopping")
     /\ Decide(w, "ok")
     /\ UNCHANGED <<fsVars, auxVars>>
  \/ /\ pc[w] \notin {"idle", "serving", "exited"}
     /\ rc[w] # "ok"
     /\ Die(w, "terminated")
  \/ /\ rc[w] = "ok"
     /\ UNCHANGED vars

SigkillTo(w) ==
  /\ pc[w] \notin {"idle", "exited"}
  /\ Die(w, "killed")

Signal(w) ==
  /\ w \in Signalled
  /\ SigtermTo(w) \/ SigkillTo(w)

-----------------------------------------------------------------------------
\* What the worker does on its own, given the processor.
WorkerStep(w) ==
  \/ OpenLock(w) \/ FailAcquire(w) \/ WinLock(w) \/ LoseLock(w)
  \/ TruncateLock(w) \/ RecordPid(w) \/ SyncLock(w)
  \/ CheckSlot(w) \/ ReclaimEntries(w) \/ ReclaimDir(w) \/ MakeDir(w)
  \/ WriteIdentity(w) \/ Materialize(w) \/ ReportDaemonError(w)
  \/ ReportRequiredFailure(w) \/ ReportSuccess(w) \/ ReportLost(w)
  \/ InstallHandlers(w) \/ StopAll(w) \/ UnlinkLock(w) \/ CloseLock(w)
  \/ WipeData(w) \/ WipeSlot(w)

WorkerNext ==
  \E w \in Workers :
    Spawn(w) \/ WorkerStep(w) \/ IdleStop(w) \/ ParentDies(w) \/ Signal(w)

\* The directory outlives its last worker.
Finished == (\A w \in Workers : pc[w] = "exited") /\ UNCHANGED vars

Next == WorkerNext \/ Finished

Spec == Init /\ [][Next]_vars

\* A step that needs no answer from the remote side: fetch_files waits for
\* SFTP replies, and close_transport for the peer, without a timeout.
LocalStep(w) == pc[w] \notin {"starting", "stopping"} /\ WorkerStep(w)

\* A worker that can take a local step is scheduled.  Nothing makes a remote
\* side answer, a parent die, a signal arrive or a session idle.
Fairness == \A w \in Workers : WF_vars(LocalStep(w))

FairSpec == Spec /\ Fairness

-----------------------------------------------------------------------------
(* Properties *)

Locked(w)    == pc[w] \in LockedPcs
InSession(w) == pc[w] \in SessionPcs

\* session.lock answers who is the daemon: from the write of its pid to the
\* close, a worker holds the flock of its inode and the inode holds its pid.
\* A losing racer's open (identity.py:47) never clobbers it.
RecordedPidIsHolder ==
  \A w \in Workers :
    /\ Locked(w) => fd[w] # None /\ flocked[fd[w]] = w
    /\ pc[w] \in RecordedPcs => recorded[fd[w]] = w

\* As long as no worker has released the lock, at most one worker is between
\* winning the flock and giving it up, however many start at once.
ExclusionUntilRelease ==
  ~released => \A v, w \in Workers : Locked(v) /\ Locked(w) => v = w

\* As long as no worker has released the lock, a worker in session has the
\* tunnel-data it made: its own pid (unless write_identity has failed and it is
\* about to clean up), every kubeconfig it announced, and nothing a dead daemon
\* left there.
OwnDataUntilRelease ==
  ~released =>
    \A w \in Workers : InSession(w) =>
      /\ slot = "dir"
      /\ pidFile = IF rc[w] = "failed" THEN None ELSE w
      /\ secrets = materialized \cap {w}

\* The ends that skip the worker's own cleanup.
Abrupt == {"killed", "terminated", "crashed"}

\* Once every worker has ended by its own code, whatever races the starts and
\* the cleanups ran and whatever call failed, there is no tunnel-data and no
\* credential, and a session.lock only if a failed call has left it: one of
\* acquire_session_lock, which create does not undo (session.py:58), or the
\* unlink whose error release_session_lock ignores (identity.py:59).
CleanAtQuiescence ==
  (\A w \in Workers : pc[w] \in {"idle", "exited"} /\ rc[w] \notin Abrupt)
    => slot # "dir" /\ Empty /\ (lockFile # None => leftover)

\* _reclaim_data_slot's refusal: with a symlink, a plain file or a foreign
\* directory at tunnel-data, no worker gets to a session, and the slot stays.
UnsafeSlotRefused ==
  [][slot = "unsafe" =>
       slot' = "unsafe" /\ Empty' /\ \A w \in Workers : ~InSession(w)']_vars

\* No worker ever waits for another, whoever holds the lock: it always comes
\* back to where only the remote side, the idle watchdog or a signal can hold
\* it up, or to its end.
OnlyRemoteWaits ==
  \A w \in Workers :
    []<>(pc[w] \in {"idle", "starting", "serving", "stopping", "exited"})

-----------------------------------------------------------------------------
(* What the repository says and the code does not keep *)

\* "race-free against two start invocations on the same path at the same
\* instant": at most one worker at a time serves the session.
SessionExclusion ==
  \A v, w \in Workers : pc[v] = "serving" /\ pc[w] = "serving" => v = w

\* "any existing tunnel-data belongs to a dead session" (session.py:78): what
\* is removed is never the data of a daemon in service.
ServingDataKept ==
  \A w \in Workers : pc[w] = "serving" =>
    pidFile = w /\ materialized \cap {w} \subseteq secrets
=============================================================================
