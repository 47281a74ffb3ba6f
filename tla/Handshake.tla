------------------------------ MODULE Handshake ------------------------------
(***************************************************************************)
(* spawn_daemon and the worker it starts, over their two pipes: the schema *)
(* goes down the worker's stdin, one IPC message comes back.  Both pipes   *)
(* are bounded, the schema and two of the messages can be larger than a    *)
(* pipe, and either process can be killed between any two system calls.    *)
(* Contents are counted in chunks of what one read or write moves.         *)
(***************************************************************************)
EXTENDS Naturals

CONSTANTS
  PipeCap,     \* chunks a pipe holds
  SchemaBound, \* bound: chunks of the largest serialized schema
  SchemaMax,   \* _SCHEMA_MAX_BYTES in chunks
  Size,        \* Size[k]: chunks of a message of kind k
  None         \* no message, or no answer yet

Kinds == {"success", "required_failure", "daemon_error", "session_active"}

\* The messages that _write_message sends under a guard for OSError.
Guarded == {"daemon_error", "session_active"}

\* The guarded messages hold an error's name and a path and fit in a pipe.
ASSUME HandshakeAssumption ==
  /\ PipeCap \in Nat \ {0} /\ SchemaBound \in Nat /\ SchemaMax \in Nat
  /\ Size \in [Kinds -> Nat \ {0}]
  /\ \A k \in Guarded : Size[k] <= PipeCap
  /\ None \notin Kinds \cup {"no_verdict"}

VARIABLES
  schema,   \* chunks of the serialized schema
  ppc,      \* where spawn_daemon is
  ownEnd,   \* the parent still has its copy of the IPC write end
  unsent,   \* schema chunks the parent has still to write
  stdin,    \* schema chunks in the pipe
  feeding,  \* the parent has the schema pipe open
  got,      \* message chunks the parent has read
  answer,   \* the kind spawn_daemon returns, "no_verdict" for DaemonError, or None
  wpc,      \* where the worker is
  received, \* schema chunks the worker has read
  message,  \* the kind of the message it sends, or None
  sent,     \* chunks of it written
  ipc,      \* message chunks in the pipe
  ipcOpen,  \* the worker has the IPC write end open
  held      \* the worker holds the session lock and its tunnel-data

parentVars == <<schema, ppc, ownEnd, unsent, feeding, got, answer>>
workerVars == <<wpc, received, message, sent, ipcOpen, held>>
vars == <<parentVars, workerVars, stdin, ipc>>

TypeOK ==
  /\ ppc \in {"fork", "write", "read", "done", "dead"}
  /\ wpc \in {"unborn", "create", "identity", "read", "manager", "report",
              "serving", "cleanup", "gone"}
  /\ ownEnd \in BOOLEAN /\ feeding \in BOOLEAN /\ ipcOpen \in BOOLEAN /\ held \in BOOLEAN
  /\ schema \in 1..SchemaBound /\ unsent \in 0..schema /\ received \in 0..schema
  /\ stdin \in 0..PipeCap /\ ipc \in 0..PipeCap
  /\ answer \in Kinds \cup {"no_verdict", None}
  /\ message \in Kinds \cup {None}
  /\ IF message = None THEN sent = 0 ELSE sent \in 0..Size[message]
  /\ got + ipc = sent \/ ppc \in {"done", "dead"}

\* os.pipe, with a schema of any size.
Init ==
  /\ schema \in 1..SchemaBound /\ unsent = schema
  /\ ppc = "fork" /\ ownEnd = TRUE /\ feeding = TRUE
  /\ got = 0 /\ answer = None
  /\ wpc = "unborn" /\ received = 0 /\ message = None /\ sent = 0
  /\ ipcOpen = FALSE /\ held = FALSE
  /\ stdin = 0 /\ ipc = 0

-----------------------------------------------------------------------------
(* The parent: spawn_daemon and _read_ipc_response *)

\* Mutant: the parent does not close its copy of the write end.
ForkKeepingEnd ==
  /\ ppc = "fork"
  /\ ppc' = "write" /\ wpc' = "create" /\ ipcOpen' = TRUE
  /\ UNCHANGED <<schema, ownEnd, unsent, feeding, got, answer, received, message, sent, held, stdin, ipc>>

\* Popen, then os.close of the parent's write end.
Fork ==
  /\ ppc = "fork"
  /\ ppc' = "write" /\ ownEnd' = FALSE
  /\ wpc' = "create" /\ ipcOpen' = TRUE
  /\ UNCHANGED <<schema, unsent, feeding, got, answer, received, message, sent, held, stdin, ipc>>

\* Popen raises, which the caller sees instead of a message.
ForkFails ==
  /\ ppc = "fork"
  /\ ppc' = "done" /\ ownEnd' = FALSE /\ feeding' = FALSE /\ answer' = "no_verdict"
  /\ UNCHANGED <<schema, unsent, got, workerVars, stdin, ipc>>

WriteSchema ==
  /\ ppc = "write" /\ unsent > 0 /\ wpc # "gone" /\ stdin < PipeCap
  /\ unsent' = unsent - 1 /\ stdin' = stdin + 1
  /\ UNCHANGED <<schema, ppc, ownEnd, feeding, got, answer, workerVars, ipc>>

\* The schema is written, or the worker is gone and the write fails with
\* EPIPE: in both cases the message is read next.
EndSchema ==
  /\ ppc = "write"
  /\ unsent = 0 \/ wpc = "gone"
  /\ ppc' = "read" /\ feeding' = FALSE
  /\ UNCHANGED <<schema, ownEnd, unsent, got, answer, workerVars, stdin, ipc>>

ReadChunk ==
  /\ ppc = "read" /\ ipc > 0
  /\ ipc' = ipc - 1 /\ got' = got + 1
  /\ UNCHANGED <<schema, ppc, ownEnd, unsent, feeding, answer, workerVars, stdin>>

EndOfMessage == ppc = "read" /\ ipc = 0 /\ ~ipcOpen /\ ~ownEnd

\* Mutant: the kind is taken from the first chunk.
ReadEndEager ==
  /\ EndOfMessage
  /\ ppc' = "done"
  /\ answer' = IF got > 0 THEN message ELSE "no_verdict"
  /\ UNCHANGED <<schema, ownEnd, unsent, feeding, got, workerVars, stdin, ipc>>

\* EOF: a whole message is JSON with a known kind; nothing, or a part of a
\* message, raises DaemonError.
ReadEnd ==
  /\ EndOfMessage
  /\ ppc' = "done"
  /\ answer' = IF message # None /\ got = Size[message] THEN message ELSE "no_verdict"
  /\ UNCHANGED <<schema, ownEnd, unsent, feeding, got, workerVars, stdin, ipc>>

ParentKilled ==
  /\ ppc \in {"write", "read"}
  /\ ppc' = "dead" /\ feeding' = FALSE
  /\ UNCHANGED <<schema, ownEnd, unsent, got, answer, workerVars, stdin, ipc>>

-----------------------------------------------------------------------------
(* The worker: main and _run *)

Reader == ppc \in {"fork", "write", "read"}

Report(kind) == wpc' = "report" /\ message' = kind

\* SessionDir.create: a session, SessionActive, or another error.
Create ==
  /\ wpc = "create"
  /\ \/ wpc' = "identity" /\ held' = TRUE /\ UNCHANGED message
     \/ \E kind \in Guarded : Report(kind) /\ UNCHANGED held
  /\ UNCHANGED <<parentVars, received, sent, ipcOpen, stdin, ipc>>

\* write_identity; when it fails, cleanup comes before the report.
WriteIdentity ==
  /\ wpc = "identity"
  /\ \/ wpc' = "read" /\ UNCHANGED <<message, held>>
     \/ Report("daemon_error") /\ held' = FALSE
  /\ UNCHANGED <<parentVars, received, sent, ipcOpen, stdin, ipc>>

ReadSchema ==
  /\ wpc = "read" /\ stdin > 0
  /\ stdin' = stdin - 1 /\ received' = received + 1
  /\ UNCHANGED <<parentVars, wpc, message, sent, ipcOpen, held, ipc>>

\* Mutant: a schema that stops early is taken for a whole one.
SchemaReadAnyway ==
  /\ wpc = "read" /\ stdin = 0 /\ ~feeding
  /\ wpc' = "manager"
  /\ UNCHANGED <<parentVars, received, message, sent, ipcOpen, held, stdin, ipc>>

\* EOF on stdin.  A part of the JSON does not parse, and a schema over the
\* limit is refused.
SchemaRead ==
  /\ wpc = "read" /\ stdin = 0 /\ ~feeding
  /\ IF received = schema /\ schema <= SchemaMax
       THEN wpc' = "manager" /\ UNCHANGED message
       ELSE Report("daemon_error")
  /\ UNCHANGED <<parentVars, received, sent, ipcOpen, held, stdin, ipc>>

\* start_all_and_build_output, and stop_all unless it succeeded.
RunManager ==
  /\ wpc = "manager"
  /\ \E kind \in {"success", "required_failure", "daemon_error"} : Report(kind)
  /\ UNCHANGED <<parentVars, received, sent, ipcOpen, held, stdin, ipc>>

\* Mutant: a short write is taken for a whole one.
WriteMessageOnce ==
  /\ wpc = "report" /\ sent < Size[message] /\ Reader /\ ipc < PipeCap
  /\ sent' = Size[message] /\ ipc' = ipc + 1
  /\ UNCHANGED <<parentVars, wpc, received, message, ipcOpen, held, stdin>>

\* _write_message, one os.write.
WriteMessage ==
  /\ wpc = "report" /\ sent < Size[message] /\ Reader /\ ipc < PipeCap
  /\ sent' = sent + 1 /\ ipc' = ipc + 1
  /\ UNCHANGED <<parentVars, wpc, received, message, ipcOpen, held, stdin>>

\* The message is written, or its write failed under the guard: os.close,
\* and on with the session or its end.
Reported ==
  /\ wpc = "report"
  /\ sent = Size[message] \/ (~Reader /\ message \in Guarded)
  /\ wpc' = IF message = "success" THEN "serving" ELSE IF held THEN "cleanup" ELSE "gone"
  /\ ipcOpen' = FALSE
  /\ UNCHANGED <<parentVars, received, message, sent, held, stdin, ipc>>

\* The process ends here, and the kernel closes what it has open.
Gone ==
  /\ wpc' = "gone" /\ ipcOpen' = FALSE /\ held' = FALSE
  /\ UNCHANGED <<parentVars, received, message, sent, stdin, ipc>>

\* The success and required_failure messages have no guard.
ReportBroken ==
  /\ wpc = "report" /\ sent < Size[message] /\ ~Reader /\ message \notin Guarded
  /\ Gone

ServeEnds ==
  /\ wpc = "serving"
  /\ wpc' = "cleanup"
  /\ UNCHANGED <<parentVars, received, message, sent, ipcOpen, held, stdin, ipc>>

\* Mutant: only a session that was served is cleaned up.
CleanupLater ==
  /\ wpc = "cleanup"
  /\ message = "success"
  /\ Gone

\* session.cleanup and os._exit.
Cleanup == wpc = "cleanup" /\ Gone

WorkerKilled == wpc \notin {"unborn", "gone"} /\ Gone

-----------------------------------------------------------------------------
ParentStep == Fork \/ ForkFails \/ WriteSchema \/ EndSchema \/ ReadChunk \/ ReadEnd

\* The worker's steps that wait for nobody outside the two processes.
WorkerStep ==
  \/ Create \/ WriteIdentity \/ ReadSchema \/ SchemaRead
  \/ WriteMessage \/ Reported \/ ReportBroken \/ Cleanup

Over == ppc \in {"done", "dead"} /\ wpc \in {"unborn", "gone"} /\ UNCHANGED vars

Next ==
  \/ ParentStep \/ ParentKilled
  \/ WorkerStep \/ RunManager \/ ServeEnds \/ WorkerKilled
  \/ Over

Spec == Init /\ [][Next]_vars

\* Both processes are scheduled.  Nothing makes the remote side answer, the
\* session end or a kill happen.
FairSpec == Spec /\ WF_vars(ParentStep) /\ WF_vars(WorkerStep)

-----------------------------------------------------------------------------
(* Properties *)

\* A worker never acts on a part of a schema, though its parent may be killed
\* while writing (daemon.py:65): it opens tunnels, and reports on them, only
\* with the whole schema in hand and within the size limit.
WholeSchema ==
  wpc = "manager" \/ message \in {"success", "required_failure"} =>
    received = schema /\ schema <= SchemaMax

Contract == INSTANCE HandshakeContract WITH
  verdict <- IF message # None /\ sent = Size[message] THEN message ELSE None,
  worker <- IF wpc \in {"unborn", "gone"} THEN wpc ELSE "running"

\* The pipes implement the contract: a message cut short by the worker's death
\* is never taken for a verdict, and a verdict is never taken back or lost.
MeetsHandshake == Contract!Spec

\* Parent and worker never wait for each other, though the schema and the
\* message may each be larger than its pipe and the parent reads nothing before
\* it has written everything: spawn_daemon returns, or dies, or the worker waits
\* for a remote side that does not answer.
AnswerComes == <>(ppc \in {"done", "dead"}) \/ <>[](wpc = "manager")

\* The message of a failed start precedes session.cleanup, so a retry may still
\* meet the lock; but once the caller knows of the failure the lock is given up
\* without anybody's help.
RetryAdmitted == answer \in Kinds \ {"success"} ~> ~held
=============================================================================
