# tunstrap: a TLA+ verification project

`tunstrap` (package `src/tunstrap`) opens SSH local forwards described by a JSON
schema, fetches files and kubeconfigs through them, and keeps the tunnels up in
a background daemon until it is stopped, told to stop by a signal, or idle. This
directory models it, from the parsing of the flags to the exit status, with its
concurrent core at the grain of system calls and awaits, model-checks it with
TLC, and proves its safety properties with TLAPS for every value of the constants.

## 1. The system

| Component | State it keeps | Operations |
|---|---|---|
| Session lock and identity (`identity.py`) | `session.lock` with a pid in it, its `flock` | acquire, release, `verify_session`, `_check_lock` (probe) |
| Session directory (`session.py`) | `tunnel-data/`: `daemon.pid`, materialized kubeconfigs | create, reclaim, write_identity, materialize, cleanup, read_identity, cleanup_path |
| Worker (`_worker.py`) | signal handlers, `stop_event`, exit status | main, `_run`, the reports to the parent, `_idle_watchdog` |
| Start and run commands (`cli.py`, `daemon.py`) | two pipes to the worker, run's child process | start, run, `spawn_daemon` |
| Stop, status, teardown of run (`cli.py`) | the pid read, a grace deadline | stop, status, `_kill_with_identity`, `_teardown_run` |
| Tunnel manager (`manager.py`) | `_runtimes` | `_start_one` per node, gather, build the output, `stop_all` |
| SSH transport (`ssh.py`), fetcher (`fetcher.py`), kube targets (`kube.py`) | connections, listeners | open, forward, fetch, patch a kubeconfig, close |
| Idle tracking (`activity.py`) | count of open connections, time of the last event | connection_made, connection_lost, is_idle |
| Schemas (`schemas.py`), CLI input (`cli_input.py`), environment rendering (`envrender.py`), errors (`exceptions.py`) | none | validation, parsing, rendering, exit codes |

How they interact. `start` and `run` fork a worker (`spawn_daemon`), write it
the schema on one pipe and read one frame on another. The worker takes
`session.lock`, makes `tunnel-data`, starts the manager, reports, installs its
signal handlers and serves. `stop`, `status` and the end of `run` know the
worker only through the directory: they read `daemon.pid`, verify the pid by
probing the flock, signal it, wait out a grace period, and remove `tunnel-data`
themselves. There is no common supervisor, so every pair of those processes can
interleave at every system call. A connection that is lost tells nobody: the
manager keeps it until the daemon is stopped. Inside the worker one event loop runs a
coroutine per node, the watchdog, and the hooks of every tunnelled connection.

What is hard:

* two starts, or a start and the cleanup of the daemon before it, on one
  directory; a lock that is a name as well as an inode;
* a daemon killed between any two system calls, or one of whose calls fails, and
  the next start that finds what it left;
* a stop that acts on a pid it read earlier, while the daemon ends by itself,
  hangs, or has its pid given to somebody else;
* two processes that each write to and read from the other through bounded
  pipes, and a schema or a frame cut short by a death;
* a foreground command whose child, signals, rendering and teardown can each go
  wrong while its daemon is up, down to printing the answer;
* one node of several failing, or raising, while others are half-way, and a
  teardown that runs while coroutines of a failed gather still go on, all over
  connections that can be lost at any time;
* hooks called twice or in the wrong order, clocks, a loop that is late;
* names and addresses that collide or split differently after a conversion.

What makes the parts correct: one daemon per directory, which the lock names;
`tunnel-data` belongs to the daemon in session and nothing of a dead one is
served; what ends cleanly leaves nothing; a stop ends the daemon and nobody
else; a start that failed leaves no daemon, and the caller is told what the
worker decided or that it decided nothing; what is reported as open is open, and
is closed again; a patched kubeconfig leads through the forward with TLS
verification intact; the idle stop comes neither early nor late. `PROJECT.json` lists the hazards one by one, each at the
line where it bites.

## 2. The modules

| Module | Models | Extends |
|---|---|---|
| `SessionFS` | the kernel objects behind one `--session-dir`: name, inodes, flocks, descriptors, `tunnel-data` | |
| `SessionWorker` | worker processes from `SessionDir.create` to exit, and signals | `SessionFS` |
| `SessionCli` | `stop`, `status` and run's teardown against those workers, reuse of pids | `SessionWorker` |
| `RunCommand` | `start` and `run` from input to exit status, over those workers and that teardown | `SessionCli`, `EnvRender` |
| `Handshake` | `spawn_daemon` and the worker over their two pipes | |
| `HandshakeContract` | what `spawn_daemon` promises, abstractly; `Handshake` implements it | |
| `CliInput` | parsers and validators of the input, exit codes of bad input (pure) | |
| `EnvRender` | environment keys, shell quoting, names of files (pure) | `CliInput` |
| `TunnelManager` | the node coroutines, gather, output, `stop_all`, session cleanup | |
| `StartContract` | what a start promises, abstractly; `TunnelManager` implements it | |
| `SshTransport` | opening and closing the listeners of a node (pure) | |
| `Fetcher` | the files of a node over one SFTP channel (pure) | |
| `KubeTargets` | parse, forward, probe, patch: the loop over kube targets (pure) | `Fetcher` |
| `IdleWatchdog` | trackers, their aggregate, the watchdog, connections, time | |
| `MCSessionWorker`, `MCSessionCli`, `MCRunCommand`, `MCHandshake`, `MCTunnelManager` | TLC instances | |
| `SessionWorkerProofs`, `IdleWatchdogProofs` | TLAPS proofs | the module of that name |
| `SessionCliProofs` | TLAPS proofs | `SessionCli`, `SessionWorkerProofs` |
| `RunCommandProofs` | TLAPS proofs | `RunCommand`, `SessionCliProofs` |
| `HandshakeProofs` | TLAPS proofs | `MCHandshake`, `TextProofs` |
| `TunnelManagerProofs` | TLAPS proofs | `MCTunnelManager`, `FoldProofs` |
| `TextProofs` | TLAPS proofs about texts | `EnvRender`, `FoldProofs` |
| `FoldProofs` | TLAPS proofs about induction, folds, positions | |

Operators whose comment begins with "Mutant" are variants of the definition that
follows them, each with one plausible bug. They are not part of any
specification; `PROJECT.json` pairs each with the property that detects it.

### SessionFS and SessionWorker

A worker's `pc` names the next system call, so each of these is a step of its
own: `os.open`, `flock`, `ftruncate`, the write of the pid, `fsync`, the test of the
slot, the two halves of `rmtree`, `mkdir`, the write of `daemon.pid`, the
materialization, the report, the handlers, the unlink, the close, the two halves
of the final `rmtree`. `lockFile` is the inode the *name* leads to and
`flocked`/`recorded` belong to *inodes*, because `release_session_lock` unlinks
before it closes. Everything the manager does between the identity file and the
report is a choice of outcome here (`Materialize`, `ReportDaemonError`,
`ReportRequiredFailure`, `ReportSuccess`).

The worker's exit statuses are `ok` (0), `required` (2), `active` (3), `error`
(4, with cleanup) and `failed` (4, reported last: a refusal or a failing call of
`create` or `write_identity`); `killed` and `terminated` are deaths by signal, `crashed` an uncaught
`BrokenPipeError`. SIGTERM runs the handler only from `serving` on; before that
its default action ends the process. Once the handlers are in they stay in, so
a SIGTERM during the teardown (`rc = "ok"`) changes nothing.

`slot = "unsafe"` stands for a symlink, a plain file, or a directory of another
owner. `secrets` is the set of workers whose kubeconfigs are in `tunnel-data`.
`released` is a history variable: some worker has called `release_session_lock`.

Any call on the directory may fail in a worker of `Faulty`. Inside
`acquire_session_lock` (`FailAcquire`: open, `flock`, `ftruncate`, write, `fsync`)
that is outside the `try` of `create`, so nobody unlinks `session.lock`; after it,
`create` releases the lock (`AbortCreate`); in `write_identity`, the worker cleans
up; the unlink's own error is ignored (`UnlinkLock`). `leftover` is a history
variable: the name `session.lock` is there because one of these calls failed.

### SessionCli

`exists`, `isfile`, `open`, `probe`, `readpid`/`unprobe` are the calls of
`verify_session` and `_check_lock`; `term`, `grace`, `kill` those of
`_kill_with_identity`; `wipe`, `wiperm` the two halves of `cleanup_path`. The
probe really takes the flock, as in the code. `forcing` tells the second
verification (before SIGKILL) from the first. `Unheard` is an answer that cannot
be written: the exception skips the wipe. A command starts at `read`, at any
time, and a teardown starts after its own worker's success frame. A daemon that
`run` forked and has not reaped is still found by `kill(pid, 0)` (`Unreaped`).

### RunCommand

`at` follows a start or run command through `args` (the input is judged, with the
operators of `CliInput`), `fork`, `wait` (`_read_ipc_response`), and for run
`launch`, `window` (child started, handlers not yet in), `child`, `teardown`.
From `teardown` on the command is the teardown of `SessionCli`, step by step.
Which commands are runs is chosen in the initial state. `frame` is the worker's
frame as its parent will read it; that it arrives whole or not at all is what
`Handshake` shows, so a worker that ended without one means `DaemonError`.
`Launch` reaps a daemon that has already ended, because `Popen` polls the
children that were dropped unreaped; later deaths leave a zombie until run ends.
`renders` says whether `render_env` will accept the output; for a start from
flags it is computed from the flags. `ExitSaying` is an exit with a message whose
write may fail, so that a traceback ends the command instead. A start that
cannot write its success (`cli.py:217-220`) has its guard write another message
(`cli.py:237-246`), which may fail too; `unsaid` remembers those starts.

### Handshake and HandshakeContract

Schema and frames are counted in chunks of what one `read` or `write` moves; a
pipe holds `PipeCap` of them. The parent's own copy of the write end (`ownEnd`)
is modelled because EOF depends on it. `Guarded` are the frames sent under an
`except OSError`; the other two end the worker when the parent is gone
(`ReportBroken`). Either process can be killed between any two calls.

`MeetsHandshake` is the refinement: the abstract verdict is the kind of a frame
that is written completely, the abstract worker is running from fork to exit. It
says that `spawn_daemon` returns the worker's verdict if there is one, and
reports that there is none only of a worker that is gone.

### CliInput and EnvRender

Text is a sequence over an alphabet with one member per class of characters that
the code tells apart, and a parser that may raise returns a set of at most one
result. `EndpointsRight`, `NamesRight`, `EnvRight`, `ExportsRight` and
`FilesRight` are stated against reference definitions: printing and parsing an
address, joining a name and a value, pairwise distinct sanitised names, and a
small POSIX shell that reads quoted words.

### TunnelManager and StartContract

A step is what runs between two awaits of a coroutine. `Raise` is an exception
outside `_NODE_STARTUP_ERRORS`, which makes gather return while other coroutines
go on; they are cancelled only when `_run` has returned (`CancelRest`), so they
may act during the teardown and after `session.cleanup`. `Finish` includes the
materialization and the append to `_runtimes`. Listeners end with the connection
and are not counted apart. `LoseConnection` ends an open connection at any time
(the peer disconnects, or no longer answers the keepalive of `ssh.py:43`);
nothing in the worker reacts, and the coroutine meets it at its next use of the
connection, if there is one. `lost` remembers those nodes. Materialization after the cleanup finds no directory
and raises, hence `Finish`'s guard.

`MeetsContract` is a refinement: `StartContract` with the same `Nodes`,
`Required`, `result`, `connections` and `warnings`.

### SshTransport, Fetcher and KubeTargets

What a node does between two awaits of `TunnelManager` in more detail: folds over
its targets, files and kube targets, with an outcome for each remote call. The
folds keep the order and the early exits of the loops, so they say which
listeners are left, which results are there and which failures were counted when
one call in the middle fails. A kubeconfig is a record with three lists of named
bodies, a certificate its two lists of names.

### IdleWatchdog

Time is counted in quarters of a second, the grain of
`max(1, timeout / 4)`. `age` is `seconds_since_activity`, `quiet` the time since
a client really came or went, `slept` the watchdog's sleep, `up` the time since
ready; they saturate at `Cap`, above which no guard distinguishes them, so
behaviours have no horizon. `Lag` bounds how late the loop resumes a sleeper.
Connections through kube targets are `KubeConns`: `run_kube_targets` passes no
`tracker_factory`, so nothing counts them.

## 3. The runs

| Run | Question | Instance |
|---|---|---|
| `worker_safety` | do racing, dying and failing workers keep the lock, the data and the directory right? | 3 workers, 3 inodes, all signalled, abandoned and faulty; 3.5 M states |
| `cli_safety` | does stop end the right daemon, and nobody else, and leave nothing? | 2 workers, all faulty, a stop; 2.5 M states |
| `session_liveness` | does anybody wait for ever on anybody but the remote side? | 3 workers, 2 inodes, a stop, from two workers on their way; 0.46 M states |
| `command` | does a start or run, however it goes, leave what it says it leaves? | 1 start-or-run, its worker, a stop, a status; 1.6 M states |
| `handshake` | do the pipes deliver, block nobody, and are input and output converted right? | pipes of 2 chunks, schemas up to 5, frames up to 4; 1.4 k states, and all texts up to 3 (5 for quoting) |
| `manager_safety` | are connections owned, reports true, files gone, the contract kept, and forwards, files and kubeconfigs handled right? | 3 nodes, 2 kube targets; 129 k states, and 0-4 forwards, 2 files, 2 kube targets |
| `idle` | is the count exact, the stop never early, never late, and sure to come? | 2 tracked and 1 untracked connection; 17 k states |
| `worker_exclusion`, `worker_data_race`, `run_leak`, `manager_optional_kube`, `idle_kube` | violations: see section 6 | small |

The properties of pure operators are invariants that say something in one initial
state of their run only; TLC evaluates them there over all the inputs named.

What the properties say:

* `RecordedPidIsHolder`: from the write of its pid to its close a worker holds
  the flock of an inode with its pid in it. `acquire_session_lock` truncates
  only after it has won, and this is why that matters.
* `ExclusionUntilRelease`, `OwnDataUntilRelease`: with any number of starts and
  kills, until the first release at most one worker is past the flock and a
  worker in session has exactly the data it made. The restriction to "until a
  release" is needed: after one, both fail (section 6).
* `CleanAtQuiescence`: workers that ended by their own code leave no `tunnel-data`
  and no credential, whatever races their cleanups ran and whatever call failed,
  and no lock file unless a failed call has left it (`leftover`; section 6). It
  holds after releases too. Its exceptions (`Abrupt`) are deaths by signal and
  the unguarded write of a report.
* `UnsafeSlotRefused`: the refusal of an unsafe slot, as an action property.
* `NoDaemonMissed`: "dead", "foreign" and "unverifiable" are said only of a
  daemon that is gone, in spite of starts and probes that hold or take the
  flock (until a release).
* `StopLeavesNothing`, `RunTearsDown`: after a reported stop, and after the
  teardown of run, neither a daemon in service nor a credential is left, although
  SIGTERM may hit before the handlers, SIGKILL may cut the cleanup short and
  the daemon may be ending by itself. Both hold only as long as no other worker
  has used the directory, and say so.
* `BystandersSpared`: a command alone with its daemon never signals a process
  that got the daemon's pid, before the command or during the grace period. The
  second verification before SIGKILL is what makes it true.
* `OnlyRemoteWaits`, `CommandEnds`: no worker waits for another, and a command
  comes to its end, whatever workers and probes do.
* `StopEndsDaemon`: a stop that has matched its daemon ends it, although its
  transports hang, unless it is *disowned* during the grace period. Of two daemons
  on one directory (section 6) the one on the old inode unlinks the name of the
  other when it stops; the second verification then finds no `session.lock`, or a
  third daemon's, and says "identity changed" of a daemon that hangs. Three
  workers are needed for that, and the run has them.
* `FailureLeavesNoDaemon`: a start or run that exits with an error, at whatever
  stage, leaves no worker that serves or will serve. It rests on the commands
  waiting for EOF. It has two exceptions, where the daemon is up and stays up
  (section 6): an output that cannot be rendered, and a start that cannot write
  its success.
* `TeardownEnds`: run's teardown ends, and its daemon with it, though the daemon
  hangs or is a zombie that `kill(pid, 0)` goes on finding, unless run is killed;
  a run that cannot write the teardown's answer has dealt with the daemon before.
* `WholeSchema`: a worker opens tunnels only with the whole schema, though its
  parent may die while writing it.
* `MeetsHandshake`, `AnswerComes`, `RetryAdmitted`: the caller gets
  the verdict or learns that there is none; neither side waits for the other;
  once a failure is known, the lock that a retry needs is given up unaided.
* `InputParsing`, `EnvRendering`, `FileNaming`: what is written is what is
  dialled and no flag is lost; rendering fails exactly on colliding names, loses
  no variable, and values survive the shell; kubeconfigs of different targets have
  different files.
* `ForwardsOpening`, `FileFetching`: all forwards or none, in spite of errors
  while closing; every file has one result, whole and within the cap, and the
  required failures are counted once.
* `KubePatching`, `KubeTls`, `KubeAccounting`: the patched file reads back as the
  same context behind the forward and nothing else in it changed; verification
  is given up only where allowed and necessary; each target ends in an output
  with a listener or in a warning without one.
* `ConnectionsOwned`: each open connection has its own coroutine still going, or
  is among the runtimes that a `stop_all` to come will find, or is being closed.
  An exception that is no node's failure is the only thing that loses
  connections, and `LostTrack` says which: those of coroutines that raised it or
  were cancelled, and those appended after `stop_all` took the list.
* `NothingLeftOpen`: after the other two answers, none is open at the cleanup.
* `OutputIsTrue`: while the worker serves, the nodes it announced are those the
  manager holds, each connected or lost by itself (`lost`), with their required
  kube targets and files; no other node has a connection.
* `NoFileAfterCleanup`, `MeetsContract`: coroutines left over by an exception
  write nothing once the session is cleaned up; one answer, which accounts for
  every node.
* `CountIsOpen`, `NeverStopsBusy`, `StopsInTime`, `AbandonedStops`: the idle
  stop is exact in both directions, to within a poll and the lag.

### Bounds, and why they are enough

* Workers: two are enough for most races; three are needed for two daemons in
  service (one that releases, one on the old inode, one on the new). One inode
  per worker is enough, since a worker creates at most one and an unlinked inode
  without a descriptor can be used again.
* `session_liveness` needs those three workers and a stop, which is too much for
  a run of a few minutes from `Init`. It starts further on (`LiveInit`), in
  states that `CliSpec` reaches: w1 has come and gone, w2 has opened the lock file
  and is about to lock it, w3 and the stop are still to begin. w1 either failed
  before it opened anything, or served and released the lock between the open
  and the flock of w2, which is where two daemons begin; w1 then has no step
  left. Two inodes are enough for the two that remain. Outside signals, lost
  parents and calls that fail later on are left to the safety runs.
* Each command runs once. In `cli_safety` every worker can be signalled from
  outside, lose its parent and have its pid reused. `RunTearsDown` and
  `TeardownEnds` speak of directories that no other worker has used, so `command`
  has one worker, and three commands whose probes meet on its lock. With one
  worker exit status 3 is not reached: it comes from a second daemon on the
  directory, whose effect on workers is in `worker_safety`; two commands with two
  workers are beyond a run of a few minutes.
* `command` has one input for each way of judging it: accepted by both commands
  or by one, colliding names, a bad endpoint, a bad option, a schema on stdin.
* Handshake: a schema and two frames larger than a pipe, others smaller, a schema
  over the size limit. One chunk more or less changes nothing but the number of
  times a full or empty pipe is met. `MaxPort` is 770 so that the digits 0 and 7
  give ports at, below and above it; `MaxName` and `MaxEntries` are cut to match
  the texts.
* Reuse of a pid is excluded between a command's check and its next use of it
  (`PidReuse`): no user-space program can close that window, and properties
  about it would be false of any.
* Manager: a required node with a required and an optional kube target, an
  optional node with files to fetch and a kube target, and a plain required one.
  The remaining shapes are sub-instances. `Cap` is 2, with sizes and stat results
  on both sides of it.
* Idle: `idle` has a timeout of two seconds, where the poll interval is at its
  floor, and a lag of one quarter; `idle_kube` has one of five, above it. The
  theorems cover every timeout and lag.
* Symmetry is used in safety runs only, on workers and inodes where the
  constants treat them alike.

### Fairness

`Fairness` and `CliFairness` are weak fairness of each process's local steps:
the kernel schedules a runnable process. A worker waiting for the remote side
("starting", where `fetch_files` awaits SFTP replies without a timeout, and
"stopping", where `close_transport` awaits the peer) is exempt, so
`StopEndsDaemon` is shown for daemons that hang. Nothing makes signals, idle
stops, deaths of parents or new commands happen. `RunFairness` adds the commands'
own steps, the printing of its answer included; run's child may run for ever. `Handshake` is fair to parent and worker
except where the worker waits for its manager or serves. In `IdleWatchdog` time passes
and a sleeper whose time is over is resumed.

## 4. The proofs

Every invariant, every action property and both refinements that a passing run
checks are also theorems, for every value of the constants. Each inductive
invariant below was also checked with TLC, as an invariant of the run on its
component's instance. The proofs of one component use those of the one under it:
`RunCommandProofs` extends `SessionCliProofs`, which extends
`SessionWorkerProofs`; `HandshakeProofs` and `TunnelManagerProofs` use
`TextProofs` and `FoldProofs` for the pure functions.

### SessionWorkerProofs

For any sets of workers, processes and inodes; `FSAssumption` (`None` is none of
them) and `WorkerAssumption` (workers are processes).

* `TypeCorrect`: `Spec => []TypeOK`;
* `HolderRecorded`: `Spec => []RecordedPidIsHolder`;
* `Exclusion`: `Spec => []ExclusionUntilRelease`;
* `Ownership`: `Spec => []OwnDataUntilRelease`;
* `UnsafeRefused`: `Spec => UnsafeSlotRefused`;
* `CleanDirectory`: `Spec => []CleanAtQuiescence`.

The argument. `RecordedPidIsHolder` becomes inductive with `DescriptorInv` (a
worker that is about to lock has its inode open). Exclusion needs more: two
workers hold different inodes only if the name was unlinked in between, so
`ReleaseInv` says that until a release nobody is past the unlink and every open
descriptor is on the inode the name leads to; then two holders have the same
inode, which has one holder. Ownership rests on exclusion: only the lock holder
touches `tunnel-data` before a release, and `SlotInv` says what it finds at each
point of `create` (nothing after the `rmdir`, an empty directory after the
`mkdir`). `UnsafeInv` says that no worker is past the check over an unsafe slot.

`CleanAtQuiescence` speaks of the moment when all have ended, so its invariant
has to say who will do the removing: `DutyInv`. As long as nobody died abruptly,
whatever is in the directory has a worker that has still to remove it, or is a
`session.lock` left over by a failed call. `UnlinkedInv` says that
a worker about to close its descriptor is off the name, unless its unlink has
failed; `FailedInv` says where a worker whose call has failed can be. The duty
changes hands: a worker that loses the flock leaves the name to its holder, and
one whose `rmdir` finds the directory in use leaves it to the owner of what it
found there.

### SessionCliProofs

For any number of `stop` and `status` commands and run teardowns as well;
`CliAssumption`.

* `CliTypeCorrect`: `CliSpec => []CliTypeOK`;
* `NoneMissed`: `CliSpec => []NoDaemonMissed`;
* `NothingLeft`: `CliSpec => []StopLeavesNothing`;
* `Spared`: `CliSpec => []BystandersSpared`.

The argument. A probe takes the flock too, so what the worker proofs say of
locks is proved again with the probes in the picture (`ProbeInv`: a command has
the lock open while it probes, and has it locked only if it found it free). From
that, until a release the lock names a live daemon (`LiveDaemonFound`): the name
leads to the inode that it has locked and that records its pid, so a command that
does not find it there has read about a dead one (`DeadInv`). `StoppedInv` takes
"stopped" and "forced" through the wipe. For the signals, `StrayInv` says that a
command whose target's pid belongs to somebody else has passed the verification
only because the directory is crowded: another worker, or another command's
probe, has the lock in the dead daemon's place.

### RunCommandProofs

For any number of `start` and `run` commands, on any inputs; `RunAssumption`.

* `RunTypeCorrect`: `RunSpec => []RunTypeOK`;
* `NoDaemonAfterFailure`: `RunSpec => []FailureLeavesNoDaemon`;
* `RunTornDown`: `RunSpec => []RunTearsDown`;
* `CommandsTogether`: the three properties of `SessionCliProofs` hold among start
  and run commands too. `RunSpec` does not imply `CliSpec` (it adds variables and
  restricts who forks a worker); the proof shows that each of its steps keeps
  `CliInv`.

The argument. `OutcomeInv` and `StationInv` tie where a command is to what its
worker has decided on: a failure frame, or end-of-file without a frame, comes
from a worker that has begun its cleanup or whose call has failed (`FailedInv`
again). `RunTearsDown` speaks of a worker that
is alone in its directory: `AloneInv` says that then only its own release counts
and its data is there until it leaves, `WipeInv` that a command removes
`tunnel-data` only when that worker leaves, and `TornInv` what the removal has
left half-way and after it.

### HandshakeProofs

For pipes, schemas and messages of every size; `HandshakeAssumption`.

* `TypeCorrect`: `Spec => []TypeOK`;
* `SchemaWhole`: `Spec => []WholeSchema`;
* `Refinement`: `Spec => MeetsHandshake`, the step simulation of `HandshakeContract`;
* `InputParsed`, `EnvRendered`, `FilesNamed`: `InputParsing`, `EnvRendering` and
  `FileNaming`, from `TextProofs`.

The argument. `SchemaInv` is a conservation law: what the worker has received,
what is in the pipe and what is unsent add up to the schema, so end-of-file after
a whole schema and after a part of one can be told apart. For the contract, a
verdict is the message of a worker once all of it is in the pipe (`Committed`);
`CloseInv` says that a live worker does not close its end on a reading parent
before that.

### TextProofs and FoldProofs

`EndpointsDialled`, `NamesKept`, `EnvKept`, `ExportsKept` and `FilesApart` state
the reference definitions behind `InputParsing`, `EnvRendering` and `FileNaming`
for texts of any length over any alphabet, and names in any number. They rest on lemmas about
positions (the first and the last separator, and what is on either side of it),
on counting the keys that `render_env` puts, and on a reading of what
`format_exports` writes character by character by the shell. A file name is taken
apart at its first dash, since a node without a dash ends there.

Those need induction over data. The library's induction theorems have an operator
as parameter, which the provers cannot instantiate; `FoldProofs` goes round them.
`Climb` is induction over a *set* that is closed under successor, from the least
counterexample that the well-foundedness of `<` gives. `FoldExists` and
`FoldRuns` then show that the function behind `FoldLeft` exists when the step is
a function, and that its value is the last of a run of states, one for each
element. The proofs apply these to the step they have and induct along the run.

### IdleWatchdogProofs

For every timeout, lag and set of connections; `IdleAssumption`.

* `TypeCorrect`: `Spec => []TypeOK`;
* `CountExact`: `Spec => []CountIsOpen`. The invariant behind it ties the open
  connections to the trackers: a connection is open exactly when its tracker is
  "opened", so a repeated hook finds a tracker that ignores it and the clamp at
  zero never acts;
* `NeverEarly`: `Spec => NeverStopsBusy`, with `age = quiet` in addition: the
  code's timestamp is the time of the last real event;
* `InTime`: `Spec => []StopsInTime`. A serving daemon's sleep `slept` began with
  a poll that found `age < Timeout` or with readiness, so
  `age < Timeout + slept` or `up <= slept` or a connection is open, and `slept`
  is at most `Poll + Lag`.

### TunnelManagerProofs

For every schema (any nodes, required or not, with any kube targets);
`ManagerAssumption`.

* `TypeCorrect`: `Spec => []TypeOK`;
* `Owned`: `Spec => []ConnectionsOwned`;
* `AllClosed`: `Spec => []NothingLeftOpen`;
* `TrueOutput`: `Spec => []OutputIsTrue`;
* `NoLateFile`: `Spec => []NoFileAfterCleanup`;
* `Refinement`: `Spec => MeetsContract`, the step simulation of `StartContract`.

The argument. Every answer but an exception comes after all coroutines have
returned (`GatherInv`), so the runtimes that `stop_all` copies are all there
will be (`StoppedInv`); a returned coroutine has its connection in the runtimes
or closed (`NodeInv`), so closing the runtimes closes everything. After an
exception some coroutine stays "raised", which is what `ConnectionsOwned` needs for
`LostTrack`. A connection that is lost only leaves `conn`, and is remembered in
`lost`. `PhaseInv`
ties the answer to the phase, which also gives the contract its "once". `KubeInv`
and `FileInv` follow the kube targets from pending to output to file. After an
exception the other coroutines may go on; `NoLateFile` then rests on the
directory being gone (`FileInv`, second half).

What a node does on its way, as pure functions:

* `ForwardsOpened`: `open_local_forwards`, for any number of targets and any
  outcome of each. `ForwardInv` is kept by each turn of the loop;
* `FilesAccounted`: `fetch_files`, for lists of any length (`Accounted`), and from
  it `FilesFetched`, the reference definition that TLC checks;
* `LoopKept`: `run_kube_targets`, for any number of targets (`LoopInv`), and from it
  `TargetsAccounted`;
* `PatchesKept`, `VerificationKept`: `parse_kubeconfig`, `_resolve_tls` and
  `patch_view`, for any document, certificate and policy. The view that is read
  names the first context, cluster and user of their names (`ViewsTo`), the patch
  replaces one cluster in place (`PatchedAt`), so reading the result finds the
  same three again (`Rewritten`);
* `ForwardsAlwaysOpened`, `FilesAlwaysFetched`, `TargetsAlwaysAccounted`,
  `PatchesAlwaysKept`, `VerificationAlwaysKept`: the run's properties
  `ForwardsOpening`, `FileFetching`, `KubeAccounting`, `KubePatching` and `KubeTls`.

`FetcherAssumption` (the cap is a number, `Absent` is none) and `KubeAssumption`
(a missing key is no value of another kind, and bytes that are no mapping are no
document) say that model values which stand for different Python values are
different: `None` is no string and no integer, and `yaml.safe_load` of such bytes
is no `dict`.

### Only model-checked

The liveness properties `OnlyRemoteWaits`, `StopEndsDaemon`, `CommandEnds`,
`TeardownEnds`, `AnswerComes`, `RetryAdmitted` and `AbandonedStops`: they need
fairness and `ENABLED`, which are outside the prover's reach. That
things happen is shown by TLC alone; that nothing wrong happens is proved. The
five violations of section 6 are counterexamples that TLC finds.

## 5. Not modelled

* A generated session directory (no `--session-dir`) is private to its daemon:
  it is the instance with one worker, except that the directory itself is
  removed as well.
* Wording, logging, the contents of frames beyond their kind, base64 and hashes,
  `_scrub`.
* SIGINT to the worker, handled like SIGTERM once the handlers are in.
* Key loading, agents and authentication are inside the outcome of
  `open_connection`; the TLS probe's socket and YAML text inside those of a kube
  target. YAML aliases, by which two clusters of a document could share one body,
  are left out, and so are warnings that skip nothing.
* Of `int()`, signs, surrounding blanks and other scripts' digits. The limits of
  255 for hosts and 4096 for paths, and `remote_targets` given as dicts.
* A schema that is valid in the parent is valid in the worker (`SSH_AUTH_SOCK` is
  inherited); the refusal by the size limit is modelled.
* Short writes of `os.write` to a full disk; a write that raises is modelled.
* Failing calls of the commands on the directory other than those the code turns
  into an answer: a `PermissionError` of `kill(pid, 0)` at `cli.py:407` or of
  `os.kill`, an error of `flock` in a probe, ends the command with a traceback.
* The final `rmtree` has `ignore_errors=True`; what it may remove is taken to be
  removed, unless another process changes the directory meanwhile.
* A reader that keeps `start`'s or `stop`'s stdout open and lets it fill up blocks
  the command; the fairness assumes that there is none.
* `read_identity` follows a symlink or a foreign directory at `tunnel-data`, which
  `_reclaim_data_slot` would refuse; for the model such a slot has no readable
  `daemon.pid`.
* What becomes of the listeners and clients of an SSH connection that is lost.

## 6. Where code and words differ

Each of the first five is a run that TLC must find violated.

1. `worker_exclusion`: `release_session_lock` unlinks, then closes. A start that
   opened the old inode wins its flock after the close, another creates a new
   file; two daemons serve one session.
2. `worker_data_race`: `SessionDir.cleanup` releases the lock and then removes
   `tunnel-data`, which may be the next daemon's.
3. `run_leak`: `run` renders its environment before the `try` whose `finally`
   tears down. A forward and a kube target of one name both put
   `TUNSTRAP_<NAME>_ENDPOINT`; `render_env` raises and the daemon goes on serving,
   though the repository's `README.md:175` promises "guaranteed teardown".
4. `manager_optional_kube`: an SFTP error, a refused forward or a failed TLS
   probe of an optional kube target fails the node.
5. `idle_kube`: connections through kube targets do not keep the daemon alive.

Seen while modelling, without a run of their own:

* `verify_session` takes a held flock as proof that the recorded pid is alive. A
  starter that holds the lock and has not yet truncated it, or another command's
  probe, holds it over a dead daemon's pid; if that pid is in use again, `stop`
  signals its new owner (`BystandersSpared` excludes a second worker);
* the success and required-failure frames are written without a guard; with the
  parent gone the worker dies before its cleanup and leaves its kubeconfigs
  (`ReportLost`; it is why `CleanAtQuiescence` excludes `crashed`), while the
  repository's `README.md:400` names only `kill -9`;
* `start --output env` with an output that cannot be rendered exits with 4 and
  leaves its daemon (`FailureLeavesNoDaemon` excludes it);
* `start` whose stdout is closed or full exits with 4 or a traceback while its
  daemon serves (`FailureLeavesNoDaemon` excludes it); `stop`, and the teardown of
  run, whose stdout is end before they remove `tunnel-data` (`Unheard`);
* `acquire_session_lock` that raises after its `open` (a `flock` error other than
  `BlockingIOError`, a full disk in `ftruncate`, write or `fsync`) does so before the
  `try` of `SessionDir.create`: the worker exits with 4 and `session.lock` stays,
  and so it does when the unlink of `release_session_lock` fails. The next start
  takes it over (`leftover` in `CleanAtQuiescence`);
* with two daemons on one directory, a stop gives up on one that hangs when the
  other has unlinked `session.lock` during the grace period: "identity changed",
  no SIGKILL, and the daemon goes on (`Disowned` in `StopEndsDaemon`);
* nothing watches the SSH connections once a node is up (`ssh.py:43` asks for
  keepalive only): one that is lost before the report is reported as connected,
  and the daemon serves without it until it is stopped (`lost` in `OutputIsTrue`);
* an exception that is no node's failure (`materialize` on a full disk) leaves the
  connections of raised and cancelled coroutines, and of nodes that come up after
  `stop_all` took its list, to the end of the process (`LostTrack`);
* a probe of `status` or `stop` holds a dead daemon's lock for a moment, and a
  start in that moment fails with `session_active`;
* `stop` removes `tunnel-data` also when it found its daemon dead, which may be
  the data of a daemon started since (`StopLeavesNothing` excludes it);
* the idle clock starts with the manager, not when the daemon is ready, so a
  slow start can be followed by a stop at the first poll (the `up` disjunct of
  `StopsInTime`);
* `daemon.shutdown_grace_seconds` is accepted and documented and never used;
* run's unreaped child is found by `kill(pid, 0)` for the whole grace period, so
  a run whose daemon stops at once on SIGTERM still waits the period out;
* an IPv6 address without brackets is split at its last colon by `cli_input`
  (`u@::1` is host `:`, port 1) and refused by `schemas`; `u@[]` has an empty
  host and is accepted;
* the `$` of the key pattern accepts a newline at the end of a name;
* a node `a-b` with target `c` and a node `a` with target `b-c` materialize the
  same file;
* a kubeconfig that brings `insecure-skip-tls-verify` along keeps it beside the
  `tls-server-name` that is set (`KubeTls` has the disjunct).

## 7. Plan

Done: all the modules of section 2, the runs of section 3 and the proofs of
section 4. Left, in the order of what it would say:

1. The part of liveness that needs no fairness: that every step of a command and
   of a worker outside its waits lowers a rank (`CommandEnds`, `StopEndsDaemon`),
   so that only the scheduler and the remote side can hold it up.
2. Making the long leaves of `RunCommandProofs` and `TunnelManagerProofs` shorter,
   where a lemma per handler would read better than a list of definitions.
3. Short writes of `os.write` (section 5), if the code comes to loop over them,
   and what the commands do when their own calls on the directory fail.
4. `session_liveness` from `Init`, with signals, for a machine that has the time.
