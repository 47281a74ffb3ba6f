------------------------------ MODULE SessionCli ------------------------------
(***************************************************************************)
(* The command side of a session: stop, status and the teardown of run,    *)
(* acting on the same directory as the workers of SessionWorker.  A        *)
(* command reads daemon.pid, verifies the pid against session.lock by      *)
(* probing the flock, signals the daemon and removes tunnel-data, one      *)
(* system call at a time.                                                  *)
(*                                                                         *)
(* A pid outlives its process twice over: the number can be given to an    *)
(* unrelated process (reused), and a child that run never waits for stays  *)
(* a zombie, which kill(pid, 0) still finds.                               *)
(***************************************************************************)
EXTENDS SessionWorker

CONSTANTS
  Stops,      \* stop commands
  Statuses,   \* status commands
  Teardowns,  \* _teardown_run at the end of a run command
  Recyclable, \* workers whose pid number may be reused after their death
  ChildOf     \* ChildOf[c]: the worker that the run command of teardown c spawned

Clis == Stops \cup Statuses \cup Teardowns

ASSUME CliAssumption ==
  /\ Clis \subseteq Procs \ Workers
  /\ Stops \cap Statuses = {} /\ Stops \cap Teardowns = {}
  /\ Statuses \cap Teardowns = {}
  /\ Recyclable \subseteq Workers
  /\ ChildOf \in [Teardowns -> Workers]

VARIABLES
  cpc,      \* cpc[c]: the next step of command c
  target,   \* target[c]: the pid c read from daemon.pid, or None
  forcing,  \* forcing[c]: the verification is the one before SIGKILL
  report,   \* report[c]: what c prints, or "none"
  reused,   \* workers whose pid belongs to an unrelated process now
  reaped,   \* dead workers that their run command has polled after all
  struck    \* workers whose pid was signalled when it was an unrelated process's

cliVars == <<cpc, target, forcing, report, reused, reaped, struck>>
allVars == <<vars, cliVars>>

VerifyPcs == {"exists", "isfile", "open", "probe", "readpid", "unprobe"}
CliPcs == VerifyPcs \cup {"read", "term", "grace", "kill", "wipe", "wiperm", "done", "gone"}

Verdicts == {"not_found", "unavailable", "mismatch", "match"}
Reports == {"none", "no_identity", "not_found", "unavailable", "mismatch",
            "match", "stopped", "forced", "changed"}

CliTypeOK ==
  /\ TypeOK
  /\ cpc \in [Clis -> CliPcs]
  /\ target \in [Clis -> Workers \cup {None}]
  /\ forcing \in [Clis -> BOOLEAN]
  /\ report \in [Clis -> Reports]
  /\ reused \subseteq Workers
  /\ reaped \subseteq Workers
  /\ struck \subseteq Workers
  /\ \A c \in Clis : cpc[c] \notin {"read", "wipe", "wiperm", "done", "gone"} => target[c] # None

CliInit ==
  /\ Init
  /\ cpc = [c \in Clis |-> "read"]
  /\ target = [c \in Clis |-> None]
  /\ forcing = [c \in Clis |-> FALSE]
  /\ report = [c \in Clis |-> "none"]
  /\ reused = {}
  /\ reaped = {}
  /\ struck = {}

\* Workers whose parent is still there and never waits for them (daemon.py:41).
Unreaped ==
  {ChildOf[c] : c \in {d \in Teardowns : cpc[d] \notin {"done", "gone"}}} \ reaped

Running(w) == pc[w] \notin {"idle", "exited"}

\* _process_exists: kill(pid, 0) finds a process.
Exists(w) ==
  \/ Running(w)
  \/ w \in reused
  \/ pc[w] = "exited" /\ w \in Unreaped

CGoto(c, next) == cpc' = [cpc EXCEPT ![c] = next]
Say(c, what) == report' = [report EXCEPT ![c] = what]

-----------------------------------------------------------------------------
\* A dead worker that has been reaped has its number given away.  Numbers come
\* round late, so not in the instants between a command's check of the pid and
\* its next use; the grace period is long enough.
PidReuse(w) ==
  /\ pc[w] = "exited"
  /\ \A c \in Clis : target[c] = w => cpc[c] \in {"grace", "done", "gone"}
  /\ w \in Recyclable \ (Unreaped \cup reused)
  /\ reused' = reused \cup {w}
  /\ UNCHANGED <<vars, cpc, target, forcing, report, reaped, struck>>

\* Mutant: a file that cannot be read or parsed is taken for a pid.
ReadIdentityUnchecked(c) ==
  /\ cpc[c] = "read"
  /\ target' = [target EXCEPT ![c] = pidFile]
  /\ CGoto(c, "exists")
  /\ UNCHANGED <<vars, forcing, report, reused, reaped, struck>>

\* SessionDir.read_identity.  Without a readable pid, stop and status say so
\* and end, and run's teardown still removes tunnel-data.  (A daemon.pid behind
\* a symlink or in a foreign directory would be read; an unsafe slot has none.)
ReadIdentity(c) ==
  /\ cpc[c] = "read"
  /\ IF slot = "dir" /\ pidFile # None
       THEN /\ target' = [target EXCEPT ![c] = pidFile]
            /\ CGoto(c, "exists")
            /\ UNCHANGED report
       ELSE /\ Say(c, "no_identity")
            /\ CGoto(c, IF c \in Teardowns THEN "wipe" ELSE "done")
            /\ UNCHANGED target
  /\ UNCHANGED <<vars, forcing, reused, reaped, struck>>

-----------------------------------------------------------------------------
(* verify_session and _check_lock *)

\* What each caller does with the verdict: status prints it, stop goes on to
\* SIGTERM on a match, and the second verification to SIGKILL.
Sequel(c, verdict) ==
  IF c \in Statuses THEN "done"
  ELSE IF verdict # "match" THEN "wipe"
  ELSE IF forcing[c] THEN "kill" ELSE "term"

Conclude(c, verdict) ==
  /\ CGoto(c, Sequel(c, verdict))
  /\ Say(c, IF forcing[c] /\ verdict # "match" THEN "changed" ELSE verdict)
  /\ UNCHANGED <<target, forcing, reused, reaped, struck>>

CheckExists(c) ==
  /\ cpc[c] = "exists"
  /\ IF Exists(target[c])
       THEN CGoto(c, "isfile") /\ UNCHANGED <<target, forcing, report, reused, reaped, struck>>
       ELSE Conclude(c, "not_found")
  /\ UNCHANGED vars

CheckIsFile(c) ==
  /\ cpc[c] = "isfile"
  /\ IF lockFile # None
       THEN CGoto(c, "open") /\ UNCHANGED <<target, forcing, report, reused, reaped, struck>>
       ELSE Conclude(c, "not_found")
  /\ UNCHANGED vars

\* open(O_RDONLY) of a name that may be gone by now.
OpenProbe(c) ==
  /\ cpc[c] = "open"
  /\ \/ /\ OpenExisting(c)
        /\ CGoto(c, "probe")
        /\ UNCHANGED <<target, forcing, report, reused, reaped, struck>>
     \/ /\ lockFile = None
        /\ Conclude(c, "unavailable")
        /\ UNCHANGED lockVars
  /\ UNCHANGED <<dataVars, workerVars>>

\* Mutant: the probe asks for the flock without LOCK_NB.
ProbeWaiting(c) ==
  /\ cpc[c] = "probe"
  /\ Flock(c)
  /\ CGoto(c, "unprobe")
  /\ UNCHANGED <<dataVars, workerVars, target, forcing, report, reused, reaped, struck>>

\* flock(LOCK_EX | LOCK_NB): taking the lock is how a probe learns it is free.
Probe(c) ==
  /\ cpc[c] = "probe"
  /\ \/ Flock(c) /\ CGoto(c, "unprobe")
     \/ Contended(c) /\ CGoto(c, "readpid") /\ UNCHANGED lockVars
  /\ UNCHANGED <<dataVars, workerVars, target, forcing, report, reused, reaped, struck>>

\* The pid is read through the name, not through the probed descriptor.
LockVerdict(c) ==
  IF lockFile = None THEN "unavailable"
  ELSE IF recorded[lockFile] = None THEN "unavailable"
  ELSE IF recorded[lockFile] = target[c] THEN "match" ELSE "mismatch"

ReadPid(c) ==
  /\ cpc[c] = "readpid"
  /\ Conclude(c, LockVerdict(c))
  /\ CloseLockFd(c)
  /\ UNCHANGED <<dataVars, workerVars>>

\* The lock was free: give it back and report the daemon dead.
Unprobe(c) ==
  /\ cpc[c] = "unprobe"
  /\ Conclude(c, "not_found")
  /\ CloseLockFd(c)
  /\ UNCHANGED <<dataVars, workerVars>>

-----------------------------------------------------------------------------
(* _kill_with_identity after the first match *)

\* kill(pid, sig) with the worker gone reaches an unrelated process that has
\* the pid now, or a zombie.
Stray(c) ==
  /\ ~Running(target[c])
  /\ struck' = IF target[c] \in reused THEN struck \cup {target[c]} ELSE struck
  /\ UNCHANGED vars

Terminate(c) ==
  \/ Running(target[c]) /\ SigtermTo(target[c]) /\ UNCHANGED struck
  \/ Stray(c)

Kill(c) ==
  \/ Running(target[c]) /\ SigkillTo(target[c]) /\ UNCHANGED struck
  \/ Stray(c)

SendTerm(c) ==
  /\ cpc[c] = "term"
  /\ IF Exists(target[c])
       THEN /\ Terminate(c)
            /\ CGoto(c, "grace")
            /\ UNCHANGED report
       ELSE /\ Say(c, "stopped")
            /\ CGoto(c, "wipe")
            /\ UNCHANGED <<vars, struck>>
  /\ UNCHANGED <<target, forcing, reused, reaped>>

\* The grace loop finds the process gone ...
GraceEnded(c) ==
  /\ cpc[c] = "grace"
  /\ ~Exists(target[c])
  /\ Say(c, "stopped")
  /\ CGoto(c, "wipe")
  /\ UNCHANGED <<vars, target, forcing, reused, reaped, struck>>

\* Mutant: SIGKILL follows the grace period without a second verification.
GraceExpiredRash(c) ==
  /\ cpc[c] = "grace"
  /\ CGoto(c, "kill")
  /\ UNCHANGED <<vars, target, forcing, report, reused, reaped, struck>>

\* Mutant: the command gives up after the grace period (force=False).
GraceExpiredGentle(c) ==
  /\ cpc[c] = "grace"
  /\ CGoto(c, "wipe")
  /\ UNCHANGED <<vars, target, forcing, report, reused, reaped, struck>>

\* Mutant: the grace loop has no deadline.
GraceExpiredNever(c) ==
  /\ cpc[c] = "grace"
  /\ Exists(target[c])
  /\ UNCHANGED allVars

\* ... or the deadline passes, at once with --grace-seconds 0.
GraceExpired(c) ==
  /\ cpc[c] = "grace"
  /\ forcing' = [forcing EXCEPT ![c] = TRUE]
  /\ CGoto(c, "exists")
  /\ UNCHANGED <<vars, target, report, reused, reaped, struck>>

\* Mutant: a forced stop leaves the cleanup to the daemon it has killed.
SendKillOnly(c) ==
  /\ cpc[c] = "kill"
  /\ IF Exists(target[c])
       THEN Kill(c) /\ Say(c, "forced")
       ELSE Say(c, "stopped") /\ UNCHANGED <<vars, struck>>
  /\ CGoto(c, "done")
  /\ UNCHANGED <<target, forcing, reused, reaped>>

SendKill(c) ==
  /\ cpc[c] = "kill"
  /\ IF Exists(target[c])
       THEN Kill(c) /\ Say(c, "forced")
       ELSE Say(c, "stopped") /\ UNCHANGED <<vars, struck>>
  /\ CGoto(c, "wipe")
  /\ UNCHANGED <<target, forcing, reused, reaped>>

\* The answer that _kill_with_identity prints cannot be written, its reader
\* being gone or its disk full: the error ends the command before cleanup_path.
Unheard(c) ==
  /\ cpc[c] = "wipe"
  /\ report[c] # "no_identity"
  /\ CGoto(c, "gone")
  /\ UNCHANGED <<vars, target, forcing, report, reused, reaped, struck>>

\* SessionDir.cleanup_path, whatever _kill_with_identity returned.
CliWipeData(c) ==
  /\ cpc[c] = "wipe"
  /\ WipeEntries
  /\ CGoto(c, "wiperm")
  /\ UNCHANGED <<lockVars, workerVars, target, forcing, report, reused, reaped, struck>>

CliWipeSlot(c) ==
  /\ cpc[c] = "wiperm"
  /\ WipeDir
  /\ CGoto(c, "done")
  /\ UNCHANGED <<lockVars, workerVars, target, forcing, report, reused, reaped, struck>>

-----------------------------------------------------------------------------
CliStep(c) ==
  \/ CheckExists(c) \/ CheckIsFile(c) \/ OpenProbe(c) \/ Probe(c)
  \/ ReadPid(c) \/ Unprobe(c) \/ SendTerm(c) \/ GraceEnded(c)
  \/ GraceExpired(c) \/ SendKill(c) \/ Unheard(c) \/ CliWipeData(c) \/ CliWipeSlot(c)

CliNext ==
  \/ Next /\ UNCHANGED cliVars
  \/ \E w \in Workers : PidReuse(w)
  \/ \E c \in Clis : ReadIdentity(c) \/ CliStep(c)

CliSpec == CliInit /\ [][CliNext]_allVars

\* A command that has read the pid runs on, and so do the workers as far as
\* they are on their own: what stop promises must not depend on a remote side.
CliFairness ==
  /\ \A c \in Clis : WF_allVars(CliStep(c))
  /\ \A w \in Workers : WF_allVars(LocalStep(w) /\ UNCHANGED cliVars)

CliFairSpec == CliSpec /\ CliFairness

-----------------------------------------------------------------------------
(* Properties *)

\* A stop or status that declares the daemon it read about dead, foreign or
\* unverifiable is right that it is gone, until some worker releases the
\* lock: starting workers and other probes never hide a live daemon.
NoDaemonMissed ==
  \A c \in Clis :
    ~released /\ report[c] \in {"not_found", "mismatch", "unavailable"}
      => ~Running(target[c])

\* "stopped" and "forced" are said of a daemon that has ended, and once the
\* command is done nothing of it is left in the directory, unless another
\* worker has started there: not even when SIGKILL cut its own cleanup short.
\* (A command that cannot print its answer is never done with the directory.)
StopLeavesNothing ==
  \A c \in Clis :
    report[c] \in {"stopped", "forced"} =>
      /\ ~Running(target[c])
      /\ cpc[c] = "done" /\ (\A w \in Workers \ {target[c]} : pc[w] = "idle")
           => slot # "dir" /\ Empty

\* No signal reaches an unrelated process that got a dead daemon's pid, be it
\* before the command or during its grace period, as long as one command deals
\* with one daemon.
BystandersSpared ==
  \A w \in struck :
    \/ \E v \in Workers \ {w} : pc[v] # "idle"
    \/ \E c, d \in Clis : c # d /\ cpc[c] # "read" /\ cpc[d] # "read"

\* A daemon in stop_all whose lock has lost its name: another worker, one that
\* had won an older inode after its release, has unlinked session.lock.
Disowned(w) == pc[w] = "stopping" /\ lockFile # fd[w]

\* A stop that has matched the daemon ends it, by its handler or, when its
\* transports hang, by SIGKILL.  The exception is a daemon that is disowned
\* during the grace period: the second verification finds no session.lock or
\* another daemon's (identity.py:72, cli.py:421), and the stop gives up.
StopEndsDaemon ==
  \A c \in Clis :
    cpc[c] = "grace" ~>
      \E w \in Workers : w = target[c] /\ (~Running(w) \/ Disowned(w))

\* Every command that has read the pid comes to its end.
CommandEnds ==
  \A c \in Clis : cpc[c] = "exists" ~> cpc[c] \in {"done", "gone"}

=============================================================================
