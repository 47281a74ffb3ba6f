------------------------------ MODULE RunCommand ------------------------------
(***************************************************************************)
(* The commands that start a daemon, start and run, over the workers and   *)
(* the teardown of SessionCli: how they judge their input, fork, take the  *)
(* worker's frame, and, for run, render the environment, launch the child, *)
(* wait for it under forwarded signals and tear the session down.          *)
(*                                                                         *)
(* A frame is whole here once the worker has written it; Handshake models  *)
(* the pipes it goes through.                                              *)
(***************************************************************************)
EXTENDS SessionCli, EnvRender

CONSTANTS
  Inputs,     \* the flags and stdin that they may be given
  ChildCodes  \* what a child of run may return

ASSUME RunAssumption ==
  \A c, d \in Teardowns : ChildOf[c] = ChildOf[d] => c = d

VARIABLES
  runs,    \* the run commands among Teardowns; the others are start commands
  at,      \* at[c]: where start or run command c is
  code,    \* code[c]: the exit status it has settled on, or None
  renders, \* renders[c]: its output can be rendered as it is asked to be
  unsaid,  \* history: start commands whose success could not be written
  frame    \* frame[w]: the kind of the frame that w has written, or "none"

runVars == <<runs, at, code, renders, unsaid, frame>>
commandVars == <<allVars, runVars>>

Stations == {"args", "fork", "wait", "launch", "window", "child", "teardown", "end"}
Frames == {"none", "success", "required_failure", "session_active", "daemon_error"}

RunTypeOK ==
  /\ CliTypeOK
  /\ runs \subseteq Teardowns
  /\ at \in [Teardowns -> Stations]
  /\ code \in [Teardowns -> {OK, SchemaError, 2, 3, Unexpected, Usage, 127, None} \cup ChildCodes]
  /\ renders \in [Teardowns -> BOOLEAN]
  /\ unsaid \subseteq Teardowns
  /\ frame \in [Workers -> Frames]

RunInit ==
  /\ CliInit
  /\ runs \in SUBSET Teardowns
  /\ at = [c \in Teardowns |-> "args"]
  /\ code = [c \in Teardowns |-> None]
  /\ renders = [c \in Teardowns |-> TRUE]
  /\ unsaid = {}
  /\ frame = [w \in Workers |-> "none"]

Proceed(c, next) == at' = [at EXCEPT ![c] = next]
Settle(c, status) == code' = [code EXCEPT ![c] = status]
Ended(c) == cpc[c] \in {"done", "gone"}

\* sys.exit, or an exception that nobody catches, outside the try of run.
Exit(c, status) ==
  /\ Proceed(c, "end")
  /\ Settle(c, status)
  /\ CGoto(c, "gone")
  /\ UNCHANGED <<target, forcing, report, reused, reaped, struck>>

\* The same after a message, whose reader may be gone or its disk full: then
\* the write raises where nothing catches it.
ExitSaying(c, status) == \E s \in {status, Traceback} : Exit(c, s)

-----------------------------------------------------------------------------
(* Up to the daemon *)

\* Can the answer be printed or passed on?  run always renders variables, start
\* with --output env.  A schema from stdin may have any number of nodes.
Renders(c, f) ==
  LET rendered == RenderEnv(<<FlagNode(f)>>) # {}
  IN IF c \in runs THEN {rendered}
     ELSE IF f.connection = <<>> THEN BOOLEAN
     ELSE {TRUE, rendered}

\* The input is turned into a schema, or the command ends without a daemon.
Judge(c) ==
  /\ at[c] = "args"
  /\ \E f \in Inputs :
       LET status == IF c \in runs THEN RunCode(f) ELSE StartCode(f)
       IN IF status = OK
            THEN /\ renders' \in {[renders EXCEPT ![c] = r] : r \in Renders(c, f)}
                 /\ Proceed(c, "fork")
                 /\ UNCHANGED <<code, cliVars>>
            ELSE ExitSaying(c, status) /\ UNCHANGED renders
  /\ UNCHANGED <<vars, runs, unsaid, frame>>

\* spawn_daemon: the log file, the pipe or the fork itself may fail, which
\* only start catches, and says.
Fork(c) ==
  /\ at[c] = "fork"
  /\ \/ Spawn(ChildOf[c]) /\ Proceed(c, "wait") /\ UNCHANGED <<code, cliVars>>
     \/ ExitSaying(c, IF c \in runs THEN Traceback ELSE Unexpected) /\ UNCHANGED vars
  /\ UNCHANGED <<runs, renders, unsaid, frame>>

\* The end of _read_ipc_response: a frame, or end of file without one.
Answered(w) == frame[w] # "none" \/ pc[w] = "exited"

StatusOf(kind) ==
  CASE kind = "success" -> OK
    [] kind = "required_failure" -> 2
    [] kind = "session_active" -> 3
    [] OTHER -> 4

\* Mutant: the command gives up on a worker that is slow to report.
ReceiveImpatient(c) ==
  /\ at[c] = "wait"
  /\ Exit(c, IF Answered(ChildOf[c]) THEN StatusOf(frame[ChildOf[c]]) ELSE 4)
  /\ UNCHANGED <<vars, runs, renders, unsaid, frame>>

\* The kind decides.  An error of render_env ends start with its last guard
\* and run before its try, the daemon left behind.  So does a start that cannot
\* write its answer: the guard writes another, which may raise again.  run writes
\* nothing of a success.
Receive(c) ==
  LET kind == frame[ChildOf[c]]
  IN /\ at[c] = "wait"
     /\ Answered(ChildOf[c])
     /\ \/ /\ c \in runs
           /\ IF kind # "success" THEN ExitSaying(c, StatusOf(kind))
              ELSE IF renders[c] THEN Proceed(c, "launch") /\ UNCHANGED <<code, cliVars>>
              ELSE Exit(c, Traceback)
           /\ UNCHANGED unsaid
        \/ /\ c \notin runs
           /\ kind # "success" \/ renders[c]
           /\ Exit(c, StatusOf(kind))
           /\ UNCHANGED unsaid
        \/ /\ c \notin runs
           /\ ExitSaying(c, Unexpected)
           /\ unsaid' = IF kind = "success" /\ renders[c] THEN unsaid \cup {c} ELSE unsaid
     /\ UNCHANGED <<vars, runs, renders, frame>>

-----------------------------------------------------------------------------
(* The try of run, and its finally *)

\* Popen, which first polls the children that spawn_daemon has dropped; an
\* OSError is status 127, once it has been written to stderr.
Launch(c) ==
  /\ at[c] = "launch"
  /\ reaped' = reaped \cup {w \in {ChildOf[c]} : pc[w] = "exited"}
  /\ \/ Proceed(c, "window") /\ UNCHANGED code
     \/ Proceed(c, "teardown") /\ \E status \in {127, Traceback} : Settle(c, status)
  /\ UNCHANGED <<vars, cpc, target, forcing, report, reused, struck, runs, renders, unsaid,
                 frame>>

InstallForwarding(c) ==
  /\ at[c] = "window"
  /\ Proceed(c, "child")
  /\ UNCHANGED <<allVars, code, runs, renders, unsaid, frame>>

\* SIGINT between the start of the try and the handlers: KeyboardInterrupt
\* runs the finally and ends with a traceback.  With the handlers in, SIGINT
\* and SIGTERM go to the child and change nothing here.
Interrupt(c) ==
  /\ at[c] \in {"launch", "window"}
  /\ ChildOf[c] \in Abandoned
  /\ Proceed(c, "teardown")
  /\ Settle(c, Traceback)
  /\ UNCHANGED <<allVars, runs, renders, unsaid, frame>>

\* The child ends and proc.wait returns.
ChildEnds(c) ==
  /\ at[c] = "child"
  /\ \E status \in ChildCodes : Settle(c, status)
  /\ Proceed(c, "teardown")
  /\ UNCHANGED <<allVars, runs, renders, unsaid, frame>>

\* _teardown_run.  An answer that cannot be written replaces the exit status
\* of the child with a traceback.
Teardown(c) ==
  /\ at[c] = "teardown"
  /\ ReadIdentity(c) \/ CliStep(c)
  /\ code' = IF cpc'[c] = "gone" THEN [code EXCEPT ![c] = Traceback] ELSE code
  /\ UNCHANGED <<runs, at, renders, unsaid, frame>>

\* A signal whose default action ends the command: SIGKILL anywhere, SIGTERM
\* and SIGINT outside the stretches above.
CommandKilled(c) ==
  /\ ~Ended(c)
  /\ ChildOf[c] \in Abandoned
  /\ CGoto(c, "gone")
  /\ Proceed(c, "end")
  /\ CloseLockFd(c)
  /\ orphaned' = IF at[c] = "wait" THEN orphaned \cup {ChildOf[c]} ELSE orphaned
  /\ code' = [code EXCEPT ![c] = None]
  /\ UNCHANGED <<dataVars, pc, rc, materialized, announced, released, leftover, target,
                 forcing, report, reused, reaped, struck, runs, renders, unsaid, frame>>

-----------------------------------------------------------------------------
\* The frame that the state of w shows it has written.
Written(w) ==
  IF w \in announced THEN "success"
  ELSE IF rc[w] = "required" THEN "required_failure"
  ELSE IF rc[w] = "active" THEN "session_active"
  ELSE IF rc[w] = "error" \/ (rc[w] = "failed" /\ pc[w] = "exited") THEN "daemon_error"
  ELSE "none"

\* A step of worker w, with the frame it may write.
Work(w) ==
  /\ WorkerStep(w) \/ IdleStop(w) \/ Signal(w)
  /\ frame' = [frame EXCEPT ![w] = IF @ = "none" THEN Written(w)' ELSE @]
  /\ UNCHANGED <<cliVars, runs, at, code, renders, unsaid>>

\* What a command does by itself; the child takes its own time.
CommandStep(c) ==
  Judge(c) \/ Fork(c) \/ Receive(c) \/ Launch(c) \/ InstallForwarding(c) \/ Teardown(c)

Over ==
  /\ \A c \in Teardowns : Ended(c)
  /\ \A w \in Workers : ~Running(w)
  /\ UNCHANGED commandVars

RunNext ==
  \/ \E w \in Workers : Work(w) \/ (PidReuse(w) /\ UNCHANGED runVars)
  \/ \E c \in Teardowns :
       CommandStep(c) \/ Interrupt(c) \/ ChildEnds(c) \/ CommandKilled(c)
  \/ \E c \in Clis \ Teardowns : (ReadIdentity(c) \/ CliStep(c)) /\ UNCHANGED runVars
  \/ Over

RunSpec == RunInit /\ [][RunNext]_commandVars

\* The processes are scheduled.  The remote side, the child, the idle timer
\* and whoever sends signals owe nothing.
RunFairness ==
  /\ \A c \in Teardowns : WF_commandVars(CommandStep(c))
  /\ \A w \in Workers : WF_commandVars(pc[w] \notin {"starting", "stopping"} /\ Work(w))

RunFairSpec == RunSpec /\ RunFairness

-----------------------------------------------------------------------------
(* Properties *)

Alone(w) == \A v \in Workers \ {w} : pc[v] = "idle"

\* What a worker has left to do once it has given up the name of the lock.
LeavingPcs == {"close", "wipe", "wiperm"}

\* "always tears the tunnel down": once run is through its teardown, and nobody
\* else has used the directory, its daemon has ended or has only its own
\* cleanup to finish, and no credential is left, though the child may not have
\* been launched, SIGINT may have come first, and the daemon may have stopped by
\* itself, been stopped, killed or hung at any point.  (A run that cannot write
\* the teardown's answer never gets through it: tunnel-data may stay.)
RunTearsDown ==
  \A c \in runs :
    cpc[c] = "done" /\ Alone(ChildOf[c]) =>
      /\ slot # "dir" /\ Empty
      /\ Running(ChildOf[c]) => pc[ChildOf[c]] \in LeavingPcs

\* A start or run that reports failure before a child is launched leaves no
\* daemon: the worker never came up, is gone or is on its way out by itself,
\* whether the input, the fork, the worker or its answer is at fault.  There are
\* two exceptions, where the daemon is up and goes on: an output that cannot be
\* rendered, and a start that cannot write its answer (cli.py:217-220).
FailureLeavesNoDaemon ==
  \A c \in Teardowns :
    at[c] = "end" /\ code[c] \notin {OK, None} /\ renders[c] /\ c \notin unsaid
      => pc[ChildOf[c]] \in LeavingPcs \cup {"idle", "unlink", "exited"}

\* The teardown of run comes to an end and the daemon to its own, even if its
\* transports hang, and although the dead daemon stays a zombie that kill(pid, 0)
\* finds (cli.py:407) until run itself has ended.  Only a run that is killed
\* may leave it; one that cannot write its answer has dealt with it before.
TeardownEnds ==
  \A c \in Teardowns :
    at[c] = "teardown" ~>
      \/ cpc[c] = "gone" /\ code[c] = None
      \/ Ended(c) /\ (Alone(ChildOf[c]) => ~Running(ChildOf[c]))

-----------------------------------------------------------------------------
(* What the repository says and the code does not keep *)

\* "foreground wrapper with guaranteed teardown" (README.md:175): a run that
\* ends by itself leaves no daemon in service.
RunAlwaysTearsDown ==
  \A c \in runs :
    Ended(c) /\ code[c] # None => pc[ChildOf[c]] # "serving"
=============================================================================
