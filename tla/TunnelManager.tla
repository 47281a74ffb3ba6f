---------------------------- MODULE TunnelManager ----------------------------
(***************************************************************************)
(* TunnelManager inside the worker's event loop: the _start_one coroutines *)
(* of all nodes run concurrently under one asyncio.gather, each opening a  *)
(* connection, its forwards, its fetched files and its kube targets; the   *)
(* manager builds the output or tears down; _run serves, stops and cleans  *)
(* the session up.  A step is what runs between two awaits.                *)
(*                                                                         *)
(* The remote side is a choice: a call succeeds, fails with one of the     *)
(* errors of _NODE_STARTUP_ERRORS, or raises something else.  Listeners    *)
(* belong to the connection they are opened on and end with it.            *)
(***************************************************************************)
EXTENDS FiniteSets

CONSTANTS
  Nodes,         \* the nodes of the schema
  Required,      \* those with required=True
  Fetching,      \* those with fetch_files
  Kube,          \* Kube[n]: the names of n's kube targets
  RequiredKube,  \* the kube targets with required=True
  Materializing, \* daemon.materialize
  Other          \* a cause of failure that is no kube target

ASSUME ManagerAssumption ==
  /\ Required \subseteq Nodes
  /\ Fetching \subseteq Nodes
  /\ Kube = [n \in Nodes |-> Kube[n]]
  /\ \A n \in Nodes : Other \notin Kube[n]
  /\ Materializing \in BOOLEAN

VARIABLES
  at,          \* at[n]: where n's coroutine is
  conn,        \* the nodes with an open SSH connection
  lost,        \* history: nodes whose open connection ended by itself
  pending,     \* pending[n]: kube targets of n not yet processed
  kubeOut,     \* kubeOut[n]: kube targets of n with an output and a forward
  blame,       \* blame[n]: what made n fail, or the empty set
  runtimes,    \* TunnelManager._runtimes
  closing,     \* the runtimes a stop_all in progress still has to close
  phase,       \* where _run is
  result,      \* what start_all_and_build_output returned or raised
  connections, \* OutputSchema.connections
  warnings,    \* the nodes with a warning that they were skipped
  dataDir,     \* tunnel-data is there
  files        \* the materialized kubeconfigs, <<node, target>>

nodeVars == <<at, conn, lost, pending, kubeOut, blame, files>>
outVars  == <<result, connections, warnings>>
vars == <<nodeVars, outVars, runtimes, closing, phase, dataDir>>

KubeNames == UNION {Kube[n] : n \in Nodes}

Stages == {"connect", "forward", "fetch", "kube"}
Ends   == {"done", "raised", "cancelled"}
Phases == {"gather", "stop_required", "stop_exception", "serving", "stop_served",
           "cleanup", "returning", "ended"}

TypeOK ==
  /\ at \in [Nodes -> Stages \cup Ends \cup {"closing"}]
  /\ conn \subseteq Nodes
  /\ lost \subseteq Nodes
  /\ pending \in [Nodes -> SUBSET KubeNames]
  /\ kubeOut \in [Nodes -> SUBSET KubeNames]
  /\ blame \in [Nodes -> SUBSET (KubeNames \cup {Other})]
  /\ runtimes \subseteq Nodes
  /\ closing \subseteq Nodes
  /\ phase \in Phases
  /\ result \in {"none", "output", "error_output", "exception"}
  /\ connections \subseteq Nodes
  /\ warnings \subseteq Nodes
  /\ dataDir \in BOOLEAN
  /\ files \subseteq Nodes \X KubeNames

Init ==
  /\ at = [n \in Nodes |-> "connect"]
  /\ conn = {}
  /\ lost = {}
  /\ pending = Kube
  /\ kubeOut = [n \in Nodes |-> {}]
  /\ blame = [n \in Nodes |-> {}]
  /\ runtimes = {}
  /\ closing = {}
  /\ phase = "gather"
  /\ result = "none"
  /\ connections = {}
  /\ warnings = {}
  /\ dataDir = TRUE
  /\ files = {}

Move(n, stage) == at' = [at EXCEPT ![n] = stage]
Blame(n, cause) == blame' = [blame EXCEPT ![n] = @ \cup {cause}]

\* The loop still runs the coroutine: until asyncio.run cancels what is left.
Alive(n) == at[n] \notin Ends /\ phase # "ended"

-----------------------------------------------------------------------------
(* _start_one *)

\* open_connection succeeds ...
Connect(n) ==
  /\ Alive(n) /\ at[n] = "connect"
  /\ conn' = conn \cup {n}
  /\ Move(n, "forward")
  /\ UNCHANGED <<lost, pending, kubeOut, blame, files, outVars, runtimes, closing, phase, dataDir>>

\* ... or fails: the node ends with an error and without a connection.
ConnectFails(n) ==
  /\ Alive(n) /\ at[n] = "connect"
  /\ Move(n, "done")
  /\ Blame(n, Other)
  /\ UNCHANGED <<conn, lost, pending, kubeOut, files, outVars, runtimes, closing, phase, dataDir>>

\* open_local_forwards, local listeners that need no answer from the peer; then
\* fetch_files if there are any.
OpenForwards(n) ==
  /\ Alive(n) /\ at[n] = "forward"
  /\ Move(n, IF n \in Fetching THEN "fetch" ELSE "kube")
  /\ UNCHANGED <<conn, lost, pending, kubeOut, blame, files, outVars, runtimes, closing, phase, dataDir>>

\* fetch_files without a required failure: files that are not required may
\* all have failed.
Fetch(n) ==
  /\ Alive(n) /\ at[n] = "fetch"
  /\ Move(n, "kube")
  /\ UNCHANGED <<conn, lost, pending, kubeOut, blame, files, outVars, runtimes, closing, phase, dataDir>>

\* Mutant: the failing node returns without close_transport.
FailWithoutClose(n) ==
  /\ Alive(n) /\ at[n] \in {"forward", "fetch"}
  /\ Move(n, "done")
  /\ Blame(n, Other)
  /\ UNCHANGED <<conn, lost, pending, kubeOut, files, outVars, runtimes, closing, phase, dataDir>>

\* A forward that does not listen, a required file that is not read, or an
\* SSH error in either: the node closes its transport and ends.
ForwardOrFetchFails(n) ==
  /\ Alive(n) /\ at[n] \in {"forward", "fetch"}
  /\ Move(n, "closing")
  /\ Blame(n, Other)
  /\ UNCHANGED <<conn, lost, pending, kubeOut, files, outVars, runtimes, closing, phase, dataDir>>

\* run_kube_targets, one target: fetched over the connection, parsed, forwarded
\* and given a TLS name ...
KubeTarget(n, k) ==
  /\ Alive(n) /\ at[n] = "kube" /\ k \in pending[n] /\ n \in conn
  /\ pending' = [pending EXCEPT ![n] = @ \ {k}]
  /\ kubeOut' = [kubeOut EXCEPT ![n] = @ \cup {k}]
  /\ UNCHANGED <<at, conn, lost, blame, files, outVars, runtimes, closing, phase, dataDir>>

\* ... or a timeout, an unusable kubeconfig or no TLS name: a warning, and a
\* required failure if the target is required.  The loop goes on.
KubeTargetFails(n, k) ==
  /\ Alive(n) /\ at[n] = "kube" /\ k \in pending[n]
  /\ pending' = [pending EXCEPT ![n] = @ \ {k}]
  /\ IF k \in RequiredKube THEN Blame(n, k) ELSE UNCHANGED blame
  /\ UNCHANGED <<at, conn, lost, kubeOut, files, outVars, runtimes, closing, phase, dataDir>>

\* ... or an SFTPError, a refused forward or a failed TLS probe, which the loop
\* does not catch: run_kube_targets raises, and the node closes and ends.
KubeTargetRaises(n, k) ==
  /\ Alive(n) /\ at[n] = "kube" /\ k \in pending[n]
  /\ Move(n, "closing")
  /\ Blame(n, k)
  /\ UNCHANGED <<conn, lost, pending, kubeOut, files, outVars, runtimes, closing, phase, dataDir>>

\* Mutant: required kube failures are only warned about.
FinishAnyway(n) ==
  /\ Alive(n) /\ at[n] = "kube" /\ pending[n] = {}
  /\ files' = IF Materializing THEN files \cup ({n} \X kubeOut[n]) ELSE files
  /\ Move(n, "done")
  /\ runtimes' = runtimes \cup {n}
  /\ blame' = [blame EXCEPT ![n] = {}]
  /\ UNCHANGED <<conn, lost, pending, kubeOut, outVars, closing, phase, dataDir>>

\* Mutant: materialize makes the directory it writes in.
FinishMakingDir(n) ==
  /\ Alive(n) /\ at[n] = "kube" /\ pending[n] = {}
  /\ files' = IF Materializing THEN files \cup ({n} \X kubeOut[n]) ELSE files
  /\ IF blame[n] = {}
       THEN Move(n, "done") /\ runtimes' = runtimes \cup {n}
       ELSE Move(n, "closing") /\ UNCHANGED runtimes
  /\ UNCHANGED <<conn, lost, pending, kubeOut, blame, outVars, closing, phase, dataDir>>

\* Mutant: a kubeconfig is named after its target alone.
FinishFlat(n) ==
  /\ Alive(n) /\ at[n] = "kube" /\ pending[n] = {}
  /\ files' = IF Materializing THEN files \cup kubeOut[n] ELSE files
  /\ Move(n, "done")
  /\ UNCHANGED <<conn, lost, pending, kubeOut, blame, outVars, runtimes, closing, phase, dataDir>>

\* The end of _start_one: the outputs are materialized, and without a required
\* failure the runtime is appended; otherwise the node closes and ends.
Finish(n) ==
  /\ Alive(n) /\ at[n] = "kube" /\ pending[n] = {}
  /\ ~Materializing \/ kubeOut[n] = {} \/ dataDir
  /\ files' = IF Materializing THEN files \cup ({n} \X kubeOut[n]) ELSE files
  /\ IF blame[n] = {}
       THEN Move(n, "done") /\ runtimes' = runtimes \cup {n}
       ELSE Move(n, "closing") /\ UNCHANGED runtimes
  /\ UNCHANGED <<conn, lost, pending, kubeOut, blame, outVars, closing, phase, dataDir>>

\* close_transport after a failure; it never raises.
CloseFailed(n) ==
  /\ Alive(n) /\ at[n] = "closing"
  /\ conn' = conn \ {n}
  /\ Move(n, "done")
  /\ UNCHANGED <<lost, pending, kubeOut, blame, files, outVars, runtimes, closing, phase, dataDir>>

\* Anything outside _NODE_STARTUP_ERRORS, a failed materialize included,
\* leaves the coroutine with its connection as it is.
Raise(n) ==
  /\ Alive(n) /\ at[n] \in Stages
  /\ Move(n, "raised")
  /\ UNCHANGED <<conn, lost, pending, kubeOut, blame, files, outVars, runtimes, closing, phase, dataDir>>

\* The peer disconnects, or no longer answers keepalive: the connection ends,
\* and its listeners with it.  Nothing in the worker watches for that; the
\* coroutine meets it at its next use of the connection, if there is one.
LoseConnection(n) ==
  /\ phase # "ended"
  /\ n \in conn
  /\ conn' = conn \ {n}
  /\ lost' = lost \cup {n}
  /\ UNCHANGED <<at, pending, kubeOut, blame, files, outVars, runtimes, closing, phase, dataDir>>

-----------------------------------------------------------------------------
(* start_all_and_build_output and _run *)

\* Mutant: stop_all clears the list before it copies it.
BeginStopCleared(next) ==
  /\ phase' = next
  /\ closing' = {}
  /\ runtimes' = {}

\* stop_all takes the runtimes there are and clears the list.
BeginStop(next) ==
  /\ phase' = next
  /\ closing' = runtimes
  /\ runtimes' = {}

Succeeded == {n \in Nodes : at[n] = "done" /\ blame[n] = {}}

Gathered == \A n \in Nodes : at[n] = "done"

\* gather returns and a required node failed: stop_all, ErrorOutput.
RequiredFailed ==
  /\ phase = "gather" /\ Gathered
  /\ ~(Required \subseteq Succeeded)
  /\ BeginStop("stop_required")
  /\ UNCHANGED <<nodeVars, outVars, dataDir>>

\* Mutant: the output is built whatever failed.
BuildOutputAnyway ==
  /\ phase = "gather" /\ Gathered
  /\ phase' = "serving"
  /\ result' = "output"
  /\ connections' = Succeeded
  /\ warnings' = Nodes \ (Succeeded \cup Required)
  /\ UNCHANGED <<nodeVars, runtimes, closing, dataDir>>

\* gather returns: OutputSchema, and the worker serves.
BuildOutput ==
  /\ phase = "gather" /\ Gathered
  /\ Required \subseteq Succeeded
  /\ phase' = "serving"
  /\ result' = "output"
  /\ connections' = Succeeded
  /\ warnings' = Nodes \ (Succeeded \cup Required)
  /\ UNCHANGED <<nodeVars, runtimes, closing, dataDir>>

\* gather raises with the first exception; the other coroutines go on, and the
\* worker's guard calls stop_all.
GatherRaises ==
  /\ phase = "gather"
  /\ \E n \in Nodes : at[n] = "raised"
  /\ result' = "exception"
  /\ BeginStop("stop_exception")
  /\ UNCHANGED <<nodeVars, connections, warnings, dataDir>>

\* stop_event: the end of a served session.
Stop ==
  /\ phase = "serving"
  /\ BeginStop("stop_served")
  /\ UNCHANGED <<nodeVars, outVars, dataDir>>

\* stop_all awaits one close_transport after the other.
CloseRuntime(n) ==
  /\ n \in closing
  /\ closing' = closing \ {n}
  /\ conn' = conn \ {n}
  /\ UNCHANGED <<lost, at, pending, kubeOut, blame, files, outVars, runtimes, phase, dataDir>>

\* stop_all is over: the frame, if it is still to be written, and cleanup.
StopDone ==
  /\ phase \in {"stop_required", "stop_exception", "stop_served"}
  /\ closing = {}
  /\ phase' = "cleanup"
  /\ result' = IF phase = "stop_required" THEN "error_output" ELSE result
  /\ UNCHANGED <<nodeVars, connections, warnings, runtimes, closing, dataDir>>

\* session.cleanup.  _run returns, and coroutines that are ready may still run
\* in the loop's last round.
SessionCleanup ==
  /\ phase = "cleanup"
  /\ phase' = "returning"
  /\ dataDir' = FALSE
  /\ files' = {}
  /\ UNCHANGED <<at, conn, lost, pending, kubeOut, blame, outVars, runtimes, closing>>

\* asyncio.run cancels the coroutines that are left.
CancelRest ==
  /\ phase = "returning"
  /\ phase' = "ended"
  /\ at' = [n \in Nodes |-> IF at[n] \in Ends THEN at[n] ELSE "cancelled"]
  /\ UNCHANGED <<conn, lost, pending, kubeOut, blame, files, outVars, runtimes, closing, dataDir>>

\* os._exit.
Exited == phase = "ended" /\ UNCHANGED vars

-----------------------------------------------------------------------------
NodeStep(n) ==
  \/ Connect(n) \/ ConnectFails(n) \/ OpenForwards(n) \/ Fetch(n)
  \/ ForwardOrFetchFails(n) \/ Finish(n) \/ CloseFailed(n) \/ Raise(n)
  \/ LoseConnection(n)
  \/ \E k \in KubeNames : KubeTarget(n, k) \/ KubeTargetFails(n, k) \/ KubeTargetRaises(n, k)

Next ==
  \/ \E n \in Nodes : NodeStep(n) \/ CloseRuntime(n)
  \/ RequiredFailed \/ BuildOutput \/ GatherRaises \/ Stop
  \/ StopDone \/ SessionCleanup \/ CancelRest \/ Exited

Spec == Init /\ [][Next]_vars

-----------------------------------------------------------------------------
(* Properties *)

\* What an exception that is no node's failure leaves to the end of the process:
\* the connections of coroutines that raised it or were cancelled, and those of
\* nodes that came up after stop_all had taken the list (manager.py:200).
LostTrack(n) ==
  /\ \E m \in Nodes : at[m] = "raised"
  /\ \/ at[n] \in {"raised", "cancelled"}
     \/ n \in runtimes /\ result = "exception"

\* Whatever nodes fail at whatever await, somebody goes on to close each open
\* connection: its own coroutine, a stop_all still to come that will find it
\* among the runtimes, or one in progress.  Only an exception that is no node's
\* failure loses connections, and only those of LostTrack.
ConnectionsOwned ==
  \A n \in conn :
    \/ at[n] \in Stages \cup {"closing"}
    \/ n \in runtimes /\ phase \in {"gather", "serving"}
    \/ n \in closing
    \/ LostTrack(n)

\* A start that ends in ErrorOutput, and a session that was served and
\* stopped, leave no connection open when the session is cleaned up.
NothingLeftOpen ==
  phase \in {"cleanup", "returning", "ended"} /\ result \in {"output", "error_output"}
    => conn = {}

\* What the parent is told of a served session: the nodes in connections are
\* those that the manager holds, each has been connected and is unless its
\* connection ended by itself, which nobody notices, no required kube target of
\* theirs is missing, and every kube output has its file when files are asked
\* for.  No other node has a connection left.
OutputIsTrue ==
  phase = "serving" =>
    /\ runtimes = connections
    /\ conn \subseteq connections /\ connections \ conn \subseteq lost
    /\ \A n \in connections :
         /\ Kube[n] \cap RequiredKube \subseteq kubeOut[n]
         /\ Materializing => ({n} \X kubeOut[n]) \subseteq files

\* No kubeconfig is written after session.cleanup, although coroutines that a
\* failed gather left behind may still be running.
NoFileAfterCleanup ==
  phase \in {"returning", "ended"} => files = {}

Contract == INSTANCE StartContract WITH
  Nodes <- Nodes, Required <- Required,
  result <- result, connections <- connections, warnings <- warnings

\* Starting implements the contract: one answer, with every required node in
\* it and every node accounted for.
MeetsContract == Contract!Spec

-----------------------------------------------------------------------------
(* What the repository says and the code does not keep *)

\* "If False, this target's failure does not fail the node": no node fails
\* because of a kube target that is not required.
OptionalKubeHarmless ==
  \A n \in Nodes : blame[n] \subseteq RequiredKube \cup {Other}
=============================================================================
