------------------------- MODULE TunnelManagerProofs -------------------------
(***************************************************************************)
(* Proofs about TunnelManager for every schema: any nodes, any of them     *)
(* required, any kube targets; and about what a node does on its way, for  *)
(* any number of forwards, any files and any kubeconfigs.                  *)
(***************************************************************************)
EXTENDS MCTunnelManager, FoldProofs

-----------------------------------------------------------------------------
(* The invariant *)

\* The phases with a manager in service, and those after stop_all.
Serving  == {"serving", "stop_served"}
Cleaning == {"cleanup", "returning", "ended"}

\* What the phase says about the answer, and when stop_all can be at work.
PhaseInv ==
  /\ phase \in {"gather", "stop_required"} => result = "none"
  /\ phase \in Serving => result = "output"
  /\ phase = "stop_exception" => result = "exception"
  /\ phase \in {"gather", "serving"} \cup Cleaning => closing = {}
  /\ phase \in Cleaning => result # "none"
  /\ phase = "stop_required" => Required # {}
  /\ result = "none" => connections = {} /\ warnings = {}

\* An answer other than an exception, and the teardown before it, come after
\* every coroutine has returned, and the nodes served are those that came up; an
\* exception comes from a coroutine.
GatherInv ==
  /\ phase = "stop_required" \/ result \in {"output", "error_output"} => Gathered
  /\ phase = "serving" => connections = Succeeded
  /\ result = "exception" => \E n \in Nodes : at[n] = "raised"

\* After that, stop_all has found all the runtimes there will ever be.
StoppedInv ==
  phase \notin {"gather", "serving"} /\ result # "exception" => runtimes = {}

\* A coroutine is connected from its connect to its return, unless it has lost
\* the connection, and the failure of a node leaves none; as long as nothing is
\* being stopped, a node that came up is connected, or has lost its connection,
\* and among the runtimes, and no other is.
NodeInv ==
  \A n \in Nodes :
    /\ at[n] = "connect" => n \notin conn
    /\ at[n] \in {"forward", "fetch", "kube", "closing"} => n \in conn \cup lost
    /\ at[n] = "closing" => blame[n] # {}
    /\ n \in closing => at[n] = "done"
    /\ at[n] = "done" /\ blame[n] # {} => n \notin conn
    /\ n \in runtimes => n \in Succeeded
    /\ phase \in {"gather", "serving"} /\ n \in Succeeded
         => n \in conn \cup lost /\ n \in runtimes

\* Without a failure, every required kube target is pending or has an output,
\* and a node that came up has none pending.
KubeInv ==
  \A n \in Nodes :
    /\ blame[n] = {} => Kube[n] \cap RequiredKube \subseteq pending[n] \cup kubeOut[n]
    /\ n \in Succeeded => pending[n] = {}

\* Every output of a node that came up has its file until the cleanup, and
\* afterwards there is no directory to write one in.
FileInv ==
  /\ Materializing /\ phase \notin {"returning", "ended"}
       => \A n \in Succeeded : \A k \in kubeOut[n] : <<n, k>> \in files
  /\ phase \in {"returning", "ended"} => files = {} /\ ~dataDir

\* The inductive invariant.
IInv ==
  /\ TypeOK /\ PhaseInv /\ GatherInv /\ StoppedInv /\ NodeInv
  /\ ConnectionsOwned /\ KubeInv /\ FileInv

-----------------------------------------------------------------------------
(* Every step keeps it *)

\* The variables keep their types.
LEMMA TypeStep ==
  ASSUME TypeOK, [Next]_vars
  PROVE  TypeOK'
<1> USE ManagerAssumption DEF TypeOK, Stages, Ends, Phases, KubeNames,
                              Succeeded, nodeVars, outVars, vars
<1>1. ASSUME NEW n \in Nodes,
             \/ Connect(n) \/ ConnectFails(n) \/ OpenForwards(n)
             \/ Fetch(n) \/ ForwardOrFetchFails(n)
      PROVE  TypeOK'
  BY <1>1 DEF Connect, ConnectFails, OpenForwards, Fetch, ForwardOrFetchFails,
              Move, Blame
<1>2. ASSUME NEW n \in Nodes, NEW k \in KubeNames,
             KubeTarget(n, k) \/ KubeTargetFails(n, k) \/ KubeTargetRaises(n, k)
      PROVE  TypeOK'
  BY <1>2 DEF KubeTarget, KubeTargetFails, KubeTargetRaises, Move, Blame
<1>3. ASSUME NEW n \in Nodes, Finish(n)
      PROVE  TypeOK'
  BY <1>3 DEF Finish, Move
<1>4. ASSUME NEW n \in Nodes, CloseFailed(n) \/ Raise(n)
      PROVE  TypeOK'
  BY <1>4 DEF CloseFailed, Raise, Move
<1>5. ASSUME NEW n \in Nodes, CloseRuntime(n) \/ LoseConnection(n)
      PROVE  TypeOK'
  BY <1>5 DEF CloseRuntime, LoseConnection
<1>6. CASE RequiredFailed \/ Stop
  BY <1>6 DEF RequiredFailed, Stop, BeginStop
<1>7. CASE GatherRaises
  BY <1>7 DEF GatherRaises, BeginStop
<1>8. CASE BuildOutput
  BY <1>8 DEF BuildOutput
<1>9. CASE StopDone \/ SessionCleanup \/ CancelRest
  BY <1>9 DEF StopDone, SessionCleanup, CancelRest
<1>10. CASE UNCHANGED vars
  BY <1>10
<1> QED
  BY <1>1, <1>2, <1>3, <1>4, <1>5, <1>6, <1>7, <1>8, <1>9, <1>10
     DEF Next, NodeStep, Exited

\* start_all_and_build_output answers once, and at most one stop_all is at work.
LEMMA PhaseStep ==
  ASSUME IInv, [Next]_vars
  PROVE  PhaseInv'
<1> USE ManagerAssumption DEF IInv, TypeOK, PhaseInv, Serving, Cleaning,
                              Phases, nodeVars, outVars, vars
<1>1. ASSUME NEW n \in Nodes,
             \/ Connect(n) \/ ConnectFails(n) \/ OpenForwards(n)
             \/ Fetch(n) \/ ForwardOrFetchFails(n)
      PROVE  PhaseInv'
  BY <1>1 DEF Connect, ConnectFails, OpenForwards, Fetch, ForwardOrFetchFails,
              Move, Blame
<1>2. ASSUME NEW n \in Nodes, NEW k \in KubeNames,
             KubeTarget(n, k) \/ KubeTargetFails(n, k) \/ KubeTargetRaises(n, k)
      PROVE  PhaseInv'
  BY <1>2 DEF KubeTarget, KubeTargetFails, KubeTargetRaises, Move, Blame
<1>3. ASSUME NEW n \in Nodes, Finish(n)
      PROVE  PhaseInv'
  BY <1>3 DEF Finish, Move
<1>4. ASSUME NEW n \in Nodes, CloseFailed(n) \/ Raise(n)
      PROVE  PhaseInv'
  BY <1>4 DEF CloseFailed, Raise, Move
<1>5. ASSUME NEW n \in Nodes, CloseRuntime(n) \/ LoseConnection(n)
      PROVE  PhaseInv'
  BY <1>5 DEF CloseRuntime, LoseConnection
<1>6. CASE RequiredFailed \/ Stop
  BY <1>6 DEF RequiredFailed, Stop, BeginStop
<1>7. CASE GatherRaises
  BY <1>7 DEF GatherRaises, BeginStop
<1>8. CASE BuildOutput
  BY <1>8 DEF BuildOutput
<1>9. CASE StopDone \/ SessionCleanup \/ CancelRest
  BY <1>9 DEF StopDone, SessionCleanup, CancelRest
<1>10. CASE UNCHANGED vars
  BY <1>10
<1> QED
  BY <1>1, <1>2, <1>3, <1>4, <1>5, <1>6, <1>7, <1>8, <1>9, <1>10
     DEF Next, NodeStep, Exited

\* Returned coroutines stay returned, so that they add no runtime.
LEMMA GatherStep ==
  ASSUME IInv, [Next]_vars
  PROVE  GatherInv' /\ StoppedInv'
<1> USE ManagerAssumption DEF IInv, TypeOK, PhaseInv, GatherInv, StoppedInv,
                              Gathered, Succeeded, Serving, Cleaning, Alive, Stages,
                              Ends, Phases, nodeVars, outVars, vars
<1>1. ASSUME NEW n \in Nodes,
             \/ Connect(n) \/ ConnectFails(n) \/ OpenForwards(n)
             \/ Fetch(n) \/ ForwardOrFetchFails(n)
      PROVE  GatherInv' /\ StoppedInv'
  BY <1>1 DEF Connect, ConnectFails, OpenForwards, Fetch, ForwardOrFetchFails,
              Move, Blame
<1>2. ASSUME NEW n \in Nodes, NEW k \in KubeNames,
             KubeTarget(n, k) \/ KubeTargetFails(n, k) \/ KubeTargetRaises(n, k)
      PROVE  GatherInv' /\ StoppedInv'
  BY <1>2 DEF KubeTarget, KubeTargetFails, KubeTargetRaises, Move, Blame
<1>3. ASSUME NEW n \in Nodes, Finish(n)
      PROVE  GatherInv' /\ StoppedInv'
  BY <1>3 DEF Finish, Move
<1>4. ASSUME NEW n \in Nodes, CloseFailed(n) \/ Raise(n)
      PROVE  GatherInv' /\ StoppedInv'
  BY <1>4 DEF CloseFailed, Raise, Move
<1>5. ASSUME NEW n \in Nodes, CloseRuntime(n) \/ LoseConnection(n)
      PROVE  GatherInv' /\ StoppedInv'
  BY <1>5 DEF CloseRuntime, LoseConnection
<1>6. CASE RequiredFailed \/ Stop
  BY <1>6 DEF RequiredFailed, Stop, BeginStop
<1>7. CASE GatherRaises
  BY <1>7 DEF GatherRaises, BeginStop
<1>8. CASE BuildOutput
  BY <1>8 DEF BuildOutput
<1>9. CASE StopDone \/ SessionCleanup \/ CancelRest
  BY <1>9 DEF StopDone, SessionCleanup, CancelRest
<1>10. CASE UNCHANGED vars
  BY <1>10
<1> QED
  BY <1>1, <1>2, <1>3, <1>4, <1>5, <1>6, <1>7, <1>8, <1>9, <1>10
     DEF Next, NodeStep, Exited

\* Each node has the connection its coroutine's place says it has.
LEMMA NodeInvStep ==
  ASSUME IInv, [Next]_vars
  PROVE  NodeInv'
<1> USE ManagerAssumption DEF IInv, TypeOK, PhaseInv, GatherInv, NodeInv,
                              Gathered, Succeeded, Alive, Stages, Ends,
                              Serving, nodeVars, outVars, vars
<1>1. ASSUME NEW n \in Nodes,
             \/ Connect(n) \/ ConnectFails(n) \/ OpenForwards(n)
             \/ Fetch(n) \/ ForwardOrFetchFails(n)
      PROVE  NodeInv'
  BY <1>1 DEF Connect, ConnectFails, OpenForwards, Fetch, ForwardOrFetchFails,
              Move, Blame
<1>2. ASSUME NEW n \in Nodes, NEW k \in KubeNames,
             KubeTarget(n, k) \/ KubeTargetFails(n, k) \/ KubeTargetRaises(n, k)
      PROVE  NodeInv'
  BY <1>2 DEF KubeTarget, KubeTargetFails, KubeTargetRaises, Move, Blame
<1>3. ASSUME NEW n \in Nodes, Finish(n)
      PROVE  NodeInv'
  BY <1>3 DEF Finish, Move
<1>4. ASSUME NEW n \in Nodes, CloseFailed(n) \/ Raise(n)
      PROVE  NodeInv'
  BY <1>4 DEF CloseFailed, Raise, Move
<1>5. ASSUME NEW n \in Nodes, CloseRuntime(n) \/ LoseConnection(n)
      PROVE  NodeInv'
  BY <1>5 DEF CloseRuntime, LoseConnection
<1>6. CASE RequiredFailed \/ Stop
  BY <1>6 DEF RequiredFailed, Stop, BeginStop
<1>7. CASE GatherRaises
  BY <1>7 DEF GatherRaises, BeginStop
<1>8. CASE BuildOutput
  BY <1>8 DEF BuildOutput
<1>9. CASE StopDone \/ SessionCleanup \/ CancelRest
  BY <1>9 DEF StopDone, SessionCleanup, CancelRest
<1>10. CASE UNCHANGED vars
  BY <1>10
<1> QED
  BY <1>1, <1>2, <1>3, <1>4, <1>5, <1>6, <1>7, <1>8, <1>9, <1>10
     DEF Next, NodeStep, Exited

\* No step drops the last owner of an open connection.
LEMMA OwnedStep ==
  ASSUME IInv, [Next]_vars
  PROVE  ConnectionsOwned'
<1> USE ManagerAssumption DEF IInv, TypeOK, PhaseInv, NodeInv,
                              ConnectionsOwned, LostTrack, Succeeded, Alive, Stages,
                              Ends, GatherInv, Gathered, Cleaning, Phases, nodeVars,
                              outVars, vars
<1>1. ASSUME NEW n \in Nodes,
             \/ Connect(n) \/ ConnectFails(n) \/ OpenForwards(n)
             \/ Fetch(n) \/ ForwardOrFetchFails(n)
      PROVE  ConnectionsOwned'
  BY <1>1 DEF Connect, ConnectFails, OpenForwards, Fetch, ForwardOrFetchFails,
              Move, Blame
<1>2. ASSUME NEW n \in Nodes, NEW k \in KubeNames,
             KubeTarget(n, k) \/ KubeTargetFails(n, k) \/ KubeTargetRaises(n, k)
      PROVE  ConnectionsOwned'
  BY <1>2 DEF KubeTarget, KubeTargetFails, KubeTargetRaises, Move, Blame
<1>3. ASSUME NEW n \in Nodes, Finish(n)
      PROVE  ConnectionsOwned'
  \* With a coroutine still running, there is no answer yet but an exception.
  <2>1. phase \in {"gather", "serving"} \/ result = "exception"
    BY <1>3 DEF Finish, Serving
  <2>2. ASSUME NEW m \in Nodes, m # n PROVE LostTrack(m) => LostTrack(m)'
    BY <1>3 DEF Finish, Move
  <2>3. result = "exception" => \E m \in Nodes : at'[m] = "raised"
    BY <1>3 DEF Finish, Move
  <2> QED
    BY <1>3, <2>1, <2>2, <2>3 DEF Finish, Move
<1>4. ASSUME NEW n \in Nodes, CloseFailed(n) \/ Raise(n)
      PROVE  ConnectionsOwned'
  BY <1>4 DEF CloseFailed, Raise, Move
<1>5. ASSUME NEW n \in Nodes, CloseRuntime(n) \/ LoseConnection(n)
      PROVE  ConnectionsOwned'
  BY <1>5 DEF CloseRuntime, LoseConnection
<1>6. CASE RequiredFailed \/ Stop
  BY <1>6 DEF RequiredFailed, Stop, BeginStop
<1>7. CASE GatherRaises
  BY <1>7 DEF GatherRaises, BeginStop
<1>8. CASE BuildOutput
  BY <1>8 DEF BuildOutput
<1>9. CASE StopDone \/ SessionCleanup \/ CancelRest
  BY <1>9 DEF StopDone, SessionCleanup, CancelRest
<1>10. CASE UNCHANGED vars
  BY <1>10
<1> QED
  BY <1>1, <1>2, <1>3, <1>4, <1>5, <1>6, <1>7, <1>8, <1>9, <1>10
     DEF Next, NodeStep, Exited

\* A kube target that is neither pending nor output is blamed if required.
LEMMA KubeInvStep ==
  ASSUME IInv, [Next]_vars
  PROVE  KubeInv'
<1> USE ManagerAssumption DEF IInv, TypeOK, NodeInv, KubeInv, Succeeded, Alive,
                              Stages, Ends, nodeVars, outVars, vars
<1>1. ASSUME NEW n \in Nodes,
             \/ Connect(n) \/ ConnectFails(n) \/ OpenForwards(n)
             \/ Fetch(n) \/ ForwardOrFetchFails(n)
      PROVE  KubeInv'
  BY <1>1 DEF Connect, ConnectFails, OpenForwards, Fetch, ForwardOrFetchFails,
              Move, Blame
<1>2. ASSUME NEW n \in Nodes, NEW k \in KubeNames,
             KubeTarget(n, k) \/ KubeTargetFails(n, k) \/ KubeTargetRaises(n, k)
      PROVE  KubeInv'
  BY <1>2 DEF KubeTarget, KubeTargetFails, KubeTargetRaises, Move, Blame
<1>3. ASSUME NEW n \in Nodes, Finish(n)
      PROVE  KubeInv'
  BY <1>3 DEF Finish, Move
<1>4. ASSUME NEW n \in Nodes, CloseFailed(n) \/ Raise(n)
      PROVE  KubeInv'
  BY <1>4 DEF CloseFailed, Raise, Move
<1>5. ASSUME NEW n \in Nodes, CloseRuntime(n) \/ LoseConnection(n)
      PROVE  KubeInv'
  BY <1>5 DEF CloseRuntime, LoseConnection
<1>6. CASE RequiredFailed \/ Stop
  BY <1>6 DEF RequiredFailed, Stop, BeginStop
<1>7. CASE GatherRaises
  BY <1>7 DEF GatherRaises, BeginStop
<1>8. CASE BuildOutput
  BY <1>8 DEF BuildOutput
<1>9. CASE StopDone \/ SessionCleanup \/ CancelRest
  BY <1>9 DEF StopDone, SessionCleanup, CancelRest
<1>10. CASE UNCHANGED vars
  BY <1>10
<1> QED
  BY <1>1, <1>2, <1>3, <1>4, <1>5, <1>6, <1>7, <1>8, <1>9, <1>10
     DEF Next, NodeStep, Exited

\* The files of the nodes that came up are written, and later removed, for good.
LEMMA FileStep ==
  ASSUME IInv, [Next]_vars
  PROVE  FileInv'
<1> USE ManagerAssumption DEF IInv, TypeOK, PhaseInv, NodeInv, KubeInv,
                              FileInv, Succeeded, Alive, Stages, Ends, Phases,
                              nodeVars, outVars, vars
<1>1. ASSUME NEW n \in Nodes,
             \/ Connect(n) \/ ConnectFails(n) \/ OpenForwards(n)
             \/ Fetch(n) \/ ForwardOrFetchFails(n)
      PROVE  FileInv'
  BY <1>1 DEF Connect, ConnectFails, OpenForwards, Fetch, ForwardOrFetchFails,
              Move, Blame
<1>2. ASSUME NEW n \in Nodes, NEW k \in KubeNames,
             KubeTarget(n, k) \/ KubeTargetFails(n, k) \/ KubeTargetRaises(n, k)
      PROVE  FileInv'
  BY <1>2 DEF KubeTarget, KubeTargetFails, KubeTargetRaises, Move, Blame
<1>3. ASSUME NEW n \in Nodes, Finish(n)
      PROVE  FileInv'
  BY <1>3 DEF Finish, Move
<1>4. ASSUME NEW n \in Nodes, CloseFailed(n) \/ Raise(n)
      PROVE  FileInv'
  BY <1>4 DEF CloseFailed, Raise, Move
<1>5. ASSUME NEW n \in Nodes, CloseRuntime(n) \/ LoseConnection(n)
      PROVE  FileInv'
  BY <1>5 DEF CloseRuntime, LoseConnection
<1>6. CASE RequiredFailed \/ Stop
  BY <1>6 DEF RequiredFailed, Stop, BeginStop
<1>7. CASE GatherRaises
  BY <1>7 DEF GatherRaises, BeginStop
<1>8. CASE BuildOutput
  BY <1>8 DEF BuildOutput
<1>9. CASE StopDone \/ SessionCleanup \/ CancelRest
  BY <1>9 DEF StopDone, SessionCleanup, CancelRest
<1>10. CASE UNCHANGED vars
  BY <1>10
<1> QED
  BY <1>1, <1>2, <1>3, <1>4, <1>5, <1>6, <1>7, <1>8, <1>9, <1>10
     DEF Next, NodeStep, Exited

\* The invariant holds at the start.
LEMMA IInvInit == Init => IInv
<1> SUFFICES ASSUME Init PROVE IInv
  OBVIOUS
<1>1. TypeOK
  <2>1. Kube \in [Nodes -> SUBSET KubeNames]
    BY ManagerAssumption DEF KubeNames
  <2> QED
    BY <2>1 DEF Init, TypeOK, Stages, Phases
<1> QED
  BY <1>1
     DEF Init, IInv, PhaseInv, GatherInv, StoppedInv, NodeInv, ConnectionsOwned,
         KubeInv, FileInv, Succeeded, Gathered, Serving, Cleaning

\* Every step keeps the invariant.
LEMMA IInvStep == IInv /\ [Next]_vars => IInv'
<1> SUFFICES ASSUME IInv, [Next]_vars PROVE IInv'
  OBVIOUS
<1>1. TypeOK'
  BY TypeStep DEF IInv
<1> QED
  BY <1>1, PhaseStep, GatherStep, NodeInvStep, OwnedStep, KubeInvStep, FileStep DEF IInv

\* The invariant holds throughout.
LEMMA InvariantHolds == Spec => []IInv
  BY IInvInit, IInvStep, PTL DEF Spec

-----------------------------------------------------------------------------
(* Results *)

\* Every variable keeps its type: nothing outside the schema's nodes and kube
\* targets is ever connected, reported on or written to a file.
THEOREM TypeCorrect == Spec => []TypeOK
<1>1. IInv => TypeOK
  BY DEF IInv
<1> QED
  BY <1>1, InvariantHolds, PTL

\* Whatever nodes fail, at whatever await, every open connection has somebody
\* who goes on to close it: a coroutine, a stop_all in progress, or one to come
\* with the node among its runtimes.  After an exception that is no node's
\* failure, the connections that have nobody are those of coroutines that
\* raised or were cancelled and of nodes that came up after stop_all's copy.
THEOREM Owned == Spec => []ConnectionsOwned
<1>1. IInv => ConnectionsOwned
  BY DEF IInv
<1> QED
  BY <1>1, InvariantHolds, PTL

\* A start refused for a required node, and a served session, leave no
\* connection open at the cleanup.
THEOREM AllClosed == Spec => []NothingLeftOpen
<1>1. IInv => NothingLeftOpen
  <2> SUFFICES ASSUME IInv, phase \in Cleaning, result \in {"output", "error_output"}
               PROVE  conn = {}
    BY DEF NothingLeftOpen, Cleaning
  <2>1. closing = {} /\ runtimes = {}
    BY DEF IInv, PhaseInv, StoppedInv, Cleaning
  <2>2. \A n \in Nodes : at[n] = "done"
    BY DEF IInv, GatherInv, Gathered
  <2> QED
    BY <2>1, <2>2 DEF IInv, TypeOK, ConnectionsOwned, LostTrack, Stages
<1> QED
  BY <1>1, InvariantHolds, PTL

\* What the parent is told of a served session: the manager holds exactly the
\* nodes in connections, one of them is without its connection only if that
\* ended by itself, no other has one, and no required kube target and no file
\* is missing.
THEOREM TrueOutput == Spec => []OutputIsTrue
<1>1. IInv => OutputIsTrue
  <2> SUFFICES ASSUME IInv, phase = "serving"
               PROVE  OutputIsTrue
    BY DEF OutputIsTrue
  <2>1. result = "output" /\ closing = {} /\ connections = Succeeded
    BY DEF IInv, PhaseInv, GatherInv, Serving
  <2>2. \A n \in Nodes : at[n] = "done"
    BY <2>1 DEF IInv, GatherInv, Gathered
  <2>3. runtimes = connections /\ conn \subseteq connections /\ connections \ conn \subseteq lost
    BY <2>1, <2>2 DEF IInv, TypeOK, NodeInv, Succeeded
  <2>4. \A n \in connections : Kube[n] \cap RequiredKube \subseteq kubeOut[n]
    BY <2>1 DEF IInv, KubeInv, Succeeded
  <2>5. Materializing => \A n \in connections : ({n} \X kubeOut[n]) \subseteq files
    BY <2>1 DEF IInv, FileInv
  <2> QED
    BY <2>3, <2>4, <2>5 DEF OutputIsTrue
<1> QED
  BY <1>1, InvariantHolds, PTL

\* No kubeconfig is written after session.cleanup, whatever coroutines a
\* failed gather left running.
THEOREM NoLateFile == Spec => []NoFileAfterCleanup
<1>1. IInv => NoFileAfterCleanup
  BY DEF IInv, FileInv, NoFileAfterCleanup
<1> QED
  BY <1>1, InvariantHolds, PTL

\* Starting the nodes concurrently, with every way to fail and to tear down,
\* implements the contract of a start.
THEOREM Refinement == Spec => MeetsContract
<1>1. Init => Contract!Init
  BY DEF Init, Contract!Init
<1>2. IInv /\ [Next]_vars => [Contract!Next]_<<result, connections, warnings>>
  <2> SUFFICES ASSUME IInv, [Next]_vars
               PROVE  [Contract!Next]_<<result, connections, warnings>>
    OBVIOUS
  <2> USE DEF Contract!Next, Contract!Deliver, Contract!Refuse, Contract!Fail
  <2>1. CASE BuildOutput
    <3>1. result = "none" /\ Succeeded \in SUBSET Nodes
      BY <2>1 DEF IInv, PhaseInv, BuildOutput, Succeeded
    <3>2. Contract!Deliver(Succeeded)
      BY <2>1 DEF BuildOutput
    <3> QED
      BY <3>1, <3>2
  <2>2. CASE StopDone
    BY <2>2 DEF IInv, PhaseInv, StopDone
  <2>3. CASE GatherRaises
    BY <2>3 DEF IInv, PhaseInv, GatherRaises
  <2>4. CASE UNCHANGED <<result, connections, warnings>>
    BY <2>4
  <2> QED
    BY <2>1, <2>2, <2>3, <2>4
       DEF Next, NodeStep, Connect, ConnectFails, OpenForwards, Fetch,
           ForwardOrFetchFails, KubeTarget, KubeTargetFails, KubeTargetRaises,
           Finish, CloseFailed, Raise, LoseConnection, CloseRuntime, RequiredFailed, BeginStop,
           Stop, SessionCleanup, CancelRest, Exited, outVars, vars
<1> QED
  BY <1>1, <1>2, InvariantHolds, PTL DEF Spec, MeetsContract, Contract!Spec

-----------------------------------------------------------------------------
(* open_local_forwards and close_transport *)

\* The state of open_local_forwards, and the one it begins with.
ForwardStates == [tried : Nat, listeners : Seq(Nat), ports : SUBSET Nat, failed : BOOLEAN]
Unopened == [tried |-> 0, listeners |-> <<>>, ports |-> {}, failed |-> FALSE]

\* open_local_forwards, one forward after the other.
LEMMA ForwardRuns ==
  ASSUME NEW n \in Nat, NEW Outcomes, NEW outcomes \in [1..n -> Outcomes]
  PROVE  \E r \in [0..n -> ForwardStates] :
           /\ r[0] = Unopened
           /\ \A k \in 1..n : r[k] = OpenForward(r[k - 1], outcomes[k])
           /\ FoldLeft(OpenForward, Unopened, outcomes) = r[n]
<1> DEFINE V == ForwardStates
           g == [p \in (1..n) \X V |-> OpenForward(p[2], outcomes[p[1]])]
           Fits(h) == h = [s \in SUBSET DOMAIN outcomes |->
                             IF s = {} THEN Unopened
                             ELSE OpenForward(h[s \ {Max(s)}], outcomes[Max(s)])]
           f == CHOOSE h : Fits(h)
<1>1. DOMAIN outcomes = 1..n
  OBVIOUS
<1>2. Unopened \in V
  BY DEF Unopened, ForwardStates
<1>3. ASSUME NEW st \in V, NEW o PROVE OpenForward(st, o) \in V
  <2>1. st.tried + 1 \in Nat /\ Append(st.listeners, st.tried + 1) \in Seq(Nat)
    BY DEF ForwardStates
  <2> QED
    BY <2>1 DEF OpenForward, ForwardStates
<1>4. g \in [(1..n) \X V -> V]
  BY <1>3
<1> HIDE DEF V, g
<1>5. PICK h : FoldsBy(h, V, Unopened, n, g)
  BY <1>2, <1>4, FoldExists
<1>6. ASSUME NEW s \in SUBSET (1..n), s # {}, NEW v \in V
      PROVE  g[<<Max(s), v>>] = OpenForward(v, outcomes[Max(s)])
  <2>1. s \in SUBSET Nat /\ \A i \in s : i <= n
    OBVIOUS
  <2>2. Max(s) \in 1..n
    BY <1>6, <2>1, MaxExists
  <2> QED
    BY <2>2 DEF g
<1>7. Fits(h)
  <2>1. h \in [SUBSET (1..n) -> V]
    BY <1>5 DEF FoldsBy
  <2>2. ASSUME NEW s \in SUBSET (1..n)
        PROVE  h[s] = IF s = {} THEN Unopened
                      ELSE OpenForward(h[s \ {Max(s)}], outcomes[Max(s)])
    BY <1>5, <1>6, <2>1 DEF FoldsBy
  <2> QED
    BY <1>1, <2>1, <2>2
<1>8. Fits(f)
  BY <1>7
<1>9. FoldLeft(OpenForward, Unopened, outcomes) = f[1..n]
  BY <1>1 DEF FoldLeft, MapThenFoldSet
<1> HIDE DEF f
<1>10. FoldsWithin(f, V, Unopened, n, g)
  BY <1>1, <1>6, <1>8 DEF FoldsWithin
<1>11. PICK r : RunsBy(r, V, Unopened, n, g, f[1..n])
  BY <1>2, <1>4, <1>10, FoldRuns
<1>12. r \in [0..n -> V] /\ r[0] = Unopened
  BY <1>11 DEF RunsBy
<1>13. ASSUME NEW k \in 1..n PROVE r[k] = OpenForward(r[k - 1], outcomes[k])
  <2>1. <<k, r[k - 1]>> \in (1..n) \X V
    BY <1>12
  <2>2. r[k] = g[<<k, r[k - 1]>>]
    BY <1>11 DEF RunsBy
  <2> QED
    BY <2>1, <2>2 DEF g
<1> QED
  BY <1>9, <1>11, <1>12, <1>13 DEF RunsBy, V

\* After k forwards without a failure there are k ports and k listeners.
ForwardInv(st, k, outcomes) ==
  /\ st.failed => \E i \in 1..k : outcomes[i] # "answers"
  /\ ~st.failed => /\ st.tried = k /\ st.ports = 1..k /\ Len(st.listeners) = k
                   /\ \A i \in 1..k : st.listeners[i] = i /\ outcomes[i] = "answers"

\* It holds after each.
LEMMA ForwardsSoFar ==
  ASSUME NEW n \in Nat, NEW outcomes \in [1..n -> {"answers", "refused", "deaf"}],
         NEW r \in [0..n -> ForwardStates], r[0] = Unopened,
         \A k \in 1..n : r[k] = OpenForward(r[k - 1], outcomes[k])
  PROVE  \A k \in 0..n : ForwardInv(r[k], k, outcomes)
<1> DEFINE S == {k \in 0..n : ForwardInv(r[k], k, outcomes)}
<1>1. 0 \in S
  BY DEF Unopened, ForwardInv
<1>2. ASSUME NEW k \in 1..n, k - 1 \in S PROVE k \in S
  <2> DEFINE st == r[k - 1]
             o == outcomes[k]
  <2>0. k \in Nat /\ k - 1 \in 0..n /\ (k - 1) + 1 = k /\ k \in 0..n
    OBVIOUS
  <2>1. st \in ForwardStates /\ ForwardInv(st, k - 1, outcomes)
    BY <1>2, <2>0
  <2> SUFFICES ForwardInv(r[k], k, outcomes)
    BY <2>0
  <2>2. r[k] = OpenForward(st, o)
    OBVIOUS
  <2>6. ASSUME ~st.failed
        PROVE  /\ r[k].tried = st.tried + 1
               /\ r[k].failed = (o # "answers")
               /\ o = "answers" => r[k].listeners = Append(st.listeners, st.tried + 1)
               /\ o = "answers" => r[k].ports = st.ports \cup {st.tried + 1}
    BY <2>2, <2>6 DEF OpenForward
  <2>3. CASE st.failed
    <3>1. r[k] = st
      BY <2>2, <2>3 DEF OpenForward
    <3>2. PICK i \in 1..(k - 1) : outcomes[i] # "answers"
      BY <2>1, <2>3 DEF ForwardInv
    <3>3. i \in 1..k
      BY <2>0
    <3> QED
      BY <2>3, <3>1, <3>2, <3>3 DEF ForwardInv
  <2>4. CASE ~st.failed /\ o # "answers"
    <3>1. r[k].failed
      BY <2>4, <2>6
    <3>2. k \in 1..k
      BY <2>0
    <3> QED
      BY <2>4, <3>1, <3>2 DEF ForwardInv
  <2>5. CASE ~st.failed /\ o = "answers"
    <3>1. /\ r[k].tried = st.tried + 1 /\ ~r[k].failed
          /\ r[k].listeners = Append(st.listeners, st.tried + 1)
          /\ r[k].ports = st.ports \cup {st.tried + 1}
      BY <2>5, <2>6
    <3>2. /\ st.tried = k - 1 /\ st.ports = 1..(k - 1) /\ Len(st.listeners) = k - 1
          /\ \A i \in 1..(k - 1) : st.listeners[i] = i /\ outcomes[i] = "answers"
      BY <2>1, <2>5 DEF ForwardInv
    <3>3. st.listeners \in Seq(Nat)
      BY <2>1 DEF ForwardStates
    <3> HIDE DEF st
    <3>4. r[k].tried = k /\ r[k].ports = 1..k
      BY <2>0, <3>1, <3>2
    <3> DEFINE l == st.listeners
               m == r[k].listeners
    <3>5. Len(m) = k /\ \A i \in 1..k : m[i] = i
      <4>1. m = Append(l, k) /\ l \in Seq(Nat) /\ Len(l) = k - 1
        BY <2>0, <3>1, <3>2, <3>3
      <4>2. \A i \in 1..(k - 1) : l[i] = i
        BY <3>2
      <4> HIDE DEF l, m
      <4>3. Len(m) = (k - 1) + 1 /\ m[(k - 1) + 1] = k /\ \A i \in 1..(k - 1) : m[i] = l[i]
        BY <2>0, <4>1, AppendProperties
      <4>4. \A i \in 1..k : i \in 1..(k - 1) \/ i = (k - 1) + 1
        BY <2>0
      <4>5. (k - 1) + 1 = k
        BY <2>0
      <4> QED
        BY <4>2, <4>3, <4>4, <4>5
    <3>6. \A i \in 1..k : outcomes[i] = "answers"
      BY <2>0, <2>5, <3>2
    <3> QED
      BY <3>1, <3>4, <3>5, <3>6 DEF ForwardInv
  <2> QED
    BY <2>3, <2>4, <2>5
<1> HIDE DEF S
<1>3. \A k \in 0..n : k \in S
  BY <1>1, <1>2, Climb
<1> QED
  BY <1>3 DEF S

\* Either every target has a port with a listener behind it, or the node is told
\* of a failure and nothing is left that close_transport could close.
THEOREM ForwardsOpened ==
  ASSUME NEW n \in Nat
  PROVE  ForwardsRight(n)
<1> SUFFICES ASSUME NEW outcomes \in [1..n -> {"answers", "refused", "deaf"}],
                    NEW close \in [1..n -> {"closes", "late", "stays"}]
             PROVE  LET got == OpenLocalForwards(outcomes, close)
                    IN /\ got.failed = \E i \in 1..n : outcomes[i] # "answers"
                       /\ ~got.failed => got.ports = 1..n /\ got.listening = 1..n
                       /\ got.failed => \A l \in got.listening : close[l] = "stays"
  BY DEF ForwardsRight
<1>1. PICK r \in [0..n -> ForwardStates] :
           /\ r[0] = Unopened
           /\ \A k \in 1..n : r[k] = OpenForward(r[k - 1], outcomes[k])
           /\ FoldLeft(OpenForward, Unopened, outcomes) = r[n]
  BY ForwardRuns
<1> DEFINE end == r[n]
           got == OpenLocalForwards(outcomes, close)
<1>2. /\ end.failed => \E i \in 1..n : outcomes[i] # "answers"
      /\ ~end.failed => /\ end.tried = n /\ end.ports = 1..n
                        /\ Len(end.listeners) = n
                        /\ \A i \in 1..n : end.listeners[i] = i /\ outcomes[i] = "answers"
  <2>1. \A k \in 0..n : ForwardInv(r[k], k, outcomes)
    BY <1>1, ForwardsSoFar
  <2>2. n \in 0..n
    OBVIOUS
  <2>3. ForwardInv(end, n, outcomes)
    BY <2>1, <2>2
  <2> QED
    BY <2>3 DEF ForwardInv
<1>3. end \in ForwardStates
  OBVIOUS
<1>4. got = IF end.failed
              THEN [ports |-> {}, listening |-> CloseTransport(end.listeners, close), failed |-> TRUE]
              ELSE [ports |-> end.ports, listening |-> ToSet(end.listeners), failed |-> FALSE]
  BY <1>1 DEF OpenLocalForwards, Unopened
<1>5. ~end.failed => ToSet(end.listeners) = 1..n
  <2> DEFINE l == end.listeners
  <2>1. l \in Seq(Nat)
    BY <1>3 DEF ForwardStates
  <2> HIDE DEF l
  <2>2. ASSUME Len(l) = n, \A i \in 1..n : l[i] = i PROVE ToSet(l) = 1..n
    <3>1. DOMAIN l = 1..n
      BY <2>1, <2>2
    <3> QED
      BY <2>2, <3>1 DEF ToSet
  <2> QED
    BY <1>2, <2>2 DEF l
<1>6. \A l \in CloseTransport(end.listeners, close) : close[l] = "stays"
  BY DEF CloseTransport
<1>7. end.failed \in BOOLEAN
  BY <1>3 DEF ForwardStates
<1> HIDE DEF end, got
<1> QED
  BY <1>2, <1>4, <1>5, <1>6, <1>7 DEF got

-----------------------------------------------------------------------------
(* fetch_files *)

\* What a file gets when the channel fails.
Lost == [error |-> "ChannelError"]

\* What a step of ChannelError does.
Refuse(state, spec) ==
  IF spec.name \in DOMAIN state.results THEN state ELSE Record(state, spec, Lost)

\* Specs of remote, what reading one can give, and the state of fetch_files.
Specs(Names, Files) == [name : Names, required : BOOLEAN, file : Files]
Results(Files) == {ReadCapped(f) : f \in Files} \cup {Lost}
FetchStates(Names, Files) ==
  [results : UNION {[D -> Results(Files)] : D \in SUBSET Names}, failures : Seq(Names)]

\* A fetched recorded leaves a state, ...
LEMMA RecordType ==
  ASSUME NEW Names, NEW Files, NEW st \in FetchStates(Names, Files),
         NEW spec \in Specs(Names, Files), NEW res \in Results(Files)
  PROVE  Record(st, spec, res) \in FetchStates(Names, Files)
<1>1. PICK D \in SUBSET Names : st.results \in [D -> Results(Files)]
  BY DEF FetchStates
<1>2. spec.name \in Names /\ st.failures \in Seq(Names)
  BY DEF FetchStates, Specs
<1> DEFINE new == [n \in DOMAIN st.results \cup {spec.name} |->
                     IF n = spec.name THEN res ELSE st.results[n]]
<1>3. new \in [D \cup {spec.name} -> Results(Files)] /\ D \cup {spec.name} \in SUBSET Names
  BY <1>1, <1>2
<1>4. new \in UNION {[E -> Results(Files)] : E \in SUBSET Names}
  <2> HIDE DEF new
  <2> QED
    BY <1>3
<1>5. Append(st.failures, spec.name) \in Seq(Names)
  BY <1>2
<1> HIDE DEF new
<1>6. Record(st, spec, res)
        = [results |-> new,
           failures |-> IF Failed(res) /\ spec.required THEN Append(st.failures, spec.name) ELSE st.failures]
  BY DEF Record, new
<1> QED
  BY <1>2, <1>4, <1>5, <1>6 DEF FetchStates

\* ... and so does each step of either loop.
LEMMA FetchTypes ==
  ASSUME NEW Names, NEW Files
  PROVE  /\ Nothing \in FetchStates(Names, Files)
         /\ \A st \in FetchStates(Names, Files), spec \in Specs(Names, Files) :
              /\ FetchFile(st, spec) \in FetchStates(Names, Files)
              /\ Refuse(st, spec) \in FetchStates(Names, Files)
<1>1. Nothing \in FetchStates(Names, Files)
  <2>1. <<>> \in [{} -> Results(Files)] /\ {} \in SUBSET Names /\ <<>> \in Seq(Names)
    OBVIOUS
  <2>2. <<>> \in UNION {[D -> Results(Files)] : D \in SUBSET Names}
    BY <2>1
  <2> QED
    BY <2>1, <2>2 DEF Nothing, FetchStates
<1>2. ASSUME NEW st \in FetchStates(Names, Files), NEW spec \in Specs(Names, Files)
      PROVE  /\ FetchFile(st, spec) \in FetchStates(Names, Files)
             /\ Refuse(st, spec) \in FetchStates(Names, Files)
  <2>1. ReadCapped(spec.file) \in Results(Files) /\ Lost \in Results(Files)
    BY DEF Specs, Results
  <2> QED
    BY <2>1, RecordType DEF FetchFile, Refuse
<1> QED
  BY <1>1, <1>2

\* fetch_files, one file after the other.
LEMMA FetchRuns ==
  ASSUME NEW Names, NEW Files, NEW specs \in Seq(Specs(Names, Files))
  PROVE  \E r \in [0..Len(specs) -> FetchStates(Names, Files)] :
           /\ r[0] = Nothing
           /\ \A k \in 1..Len(specs) : r[k] = FetchFile(r[k - 1], specs[k])
           /\ FoldLeft(FetchFile, Nothing, specs) = r[Len(specs)]
<1> DEFINE n == Len(specs)
           V == FetchStates(Names, Files)
           g == [p \in (1..n) \X V |-> FetchFile(p[2], specs[p[1]])]
           Fits(h) == h = [s \in SUBSET DOMAIN specs |->
                             IF s = {} THEN Nothing
                             ELSE FetchFile(h[s \ {Max(s)}], specs[Max(s)])]
           f == CHOOSE h : Fits(h)
<1>1. n \in Nat /\ DOMAIN specs = 1..n /\ \A i \in 1..n : specs[i] \in Specs(Names, Files)
  OBVIOUS
<1>2. Nothing \in V
  BY FetchTypes
<1>3. g \in [(1..n) \X V -> V]
  BY <1>1, FetchTypes
<1> HIDE DEF V, g, n
<1>4. PICK h : FoldsBy(h, V, Nothing, n, g)
  BY <1>1, <1>2, <1>3, FoldExists
<1>5. ASSUME NEW s \in SUBSET (1..n), s # {}, NEW v \in V
      PROVE  g[<<Max(s), v>>] = FetchFile(v, specs[Max(s)])
  <2>1. s \in SUBSET Nat /\ \A i \in s : i <= n
    BY <1>1
  <2>2. Max(s) \in 1..n
    BY <1>1, <1>5, <2>1, MaxExists
  <2> QED
    BY <2>2 DEF g
<1>6. Fits(h)
  <2>1. h \in [SUBSET (1..n) -> V]
    BY <1>4 DEF FoldsBy
  <2>2. ASSUME NEW s \in SUBSET (1..n)
        PROVE  h[s] = IF s = {} THEN Nothing ELSE FetchFile(h[s \ {Max(s)}], specs[Max(s)])
    BY <1>4, <1>5, <2>1 DEF FoldsBy
  <2> QED
    BY <1>1, <2>1, <2>2
<1>7. Fits(f)
  BY <1>6
<1>8. FoldLeft(FetchFile, Nothing, specs) = f[1..n]
  BY <1>1 DEF FoldLeft, MapThenFoldSet
<1> HIDE DEF f
<1>9. FoldsWithin(f, V, Nothing, n, g)
  BY <1>1, <1>5, <1>7 DEF FoldsWithin
<1>10. PICK r : RunsBy(r, V, Nothing, n, g, f[1..n])
  BY <1>1, <1>2, <1>3, <1>9, FoldRuns
<1>11. r \in [0..n -> V] /\ r[0] = Nothing
  BY <1>10 DEF RunsBy
<1>12. ASSUME NEW k \in 1..n PROVE r[k] = FetchFile(r[k - 1], specs[k])
  <2>1. <<k, r[k - 1]>> \in (1..n) \X V
    BY <1>1, <1>11
  <2>2. r[k] = g[<<k, r[k - 1]>>]
    BY <1>10 DEF RunsBy
  <2> QED
    BY <2>1, <2>2 DEF g
<1> QED
  BY <1>8, <1>10, <1>11, <1>12 DEF RunsBy, V, n
\* ChannelError, one file after the other.
LEMMA RefuseRuns ==
  ASSUME NEW Names, NEW Files, NEW specs \in Seq(Specs(Names, Files)),
         NEW base \in FetchStates(Names, Files)
  PROVE  \E r \in [0..Len(specs) -> FetchStates(Names, Files)] :
           /\ r[0] = base
           /\ \A k \in 1..Len(specs) : r[k] = Refuse(r[k - 1], specs[k])
           /\ ChannelError(base, specs) = r[Len(specs)]
<1> DEFINE n == Len(specs)
           V == FetchStates(Names, Files)
           g == [p \in (1..n) \X V |-> Refuse(p[2], specs[p[1]])]
           Fits(h) == h = [s \in SUBSET DOMAIN specs |->
                             IF s = {} THEN base
                             ELSE Refuse(h[s \ {Max(s)}], specs[Max(s)])]
           f == CHOOSE h : Fits(h)
<1>1. n \in Nat /\ DOMAIN specs = 1..n /\ \A i \in 1..n : specs[i] \in Specs(Names, Files)
  OBVIOUS
<1>2. base \in V
  OBVIOUS
<1>3. g \in [(1..n) \X V -> V]
  BY <1>1, FetchTypes
<1> HIDE DEF V, g, n
<1>4. PICK h : FoldsBy(h, V, base, n, g)
  BY <1>1, <1>2, <1>3, FoldExists
<1>5. ASSUME NEW s \in SUBSET (1..n), s # {}, NEW v \in V
      PROVE  g[<<Max(s), v>>] = Refuse(v, specs[Max(s)])
  <2>1. s \in SUBSET Nat /\ \A i \in s : i <= n
    BY <1>1
  <2>2. Max(s) \in 1..n
    BY <1>1, <1>5, <2>1, MaxExists
  <2> QED
    BY <2>2 DEF g
<1>6. Fits(h)
  <2>1. h \in [SUBSET (1..n) -> V]
    BY <1>4 DEF FoldsBy
  <2>2. ASSUME NEW s \in SUBSET (1..n)
        PROVE  h[s] = IF s = {} THEN base ELSE Refuse(h[s \ {Max(s)}], specs[Max(s)])
    BY <1>4, <1>5, <2>1 DEF FoldsBy
  <2> QED
    BY <1>1, <2>1, <2>2
<1>7. Fits(f)
  BY <1>6
<1>8. ChannelError(base, specs) = f[1..n]
  BY <1>1 DEF ChannelError, FoldLeft, MapThenFoldSet, Refuse, Lost
<1> HIDE DEF f
<1>9. FoldsWithin(f, V, base, n, g)
  BY <1>1, <1>5, <1>7 DEF FoldsWithin
<1>10. PICK r : RunsBy(r, V, base, n, g, f[1..n])
  BY <1>1, <1>2, <1>3, <1>9, FoldRuns
<1>11. r \in [0..n -> V] /\ r[0] = base
  BY <1>10 DEF RunsBy
<1>12. ASSUME NEW k \in 1..n PROVE r[k] = Refuse(r[k - 1], specs[k])
  <2>1. <<k, r[k - 1]>> \in (1..n) \X V
    BY <1>1, <1>11
  <2>2. r[k] = g[<<k, r[k - 1]>>]
    BY <1>10 DEF RunsBy
  <2> QED
    BY <2>1, <2>2 DEF g
<1> QED
  BY <1>8, <1>10, <1>11, <1>12 DEF RunsBy, V, n

\* The state after k of the remote: every one has the fetched out says, and the
\* failures are the required ones among those that failed, each once.
Accounted(st, specs, k, out) ==
  /\ DOMAIN st.results = {specs[i].name : i \in 1..k}
  /\ \A i \in 1..k : st.results[specs[i].name] = out[i]
  /\ \A j, l \in DOMAIN st.failures : st.failures[j] = st.failures[l] => j = l
  /\ \A j \in DOMAIN st.failures : \E i \in 1..k :
       st.failures[j] = specs[i].name /\ Failed(out[i]) /\ specs[i].required
  /\ \A i \in 1..k : Failed(out[i]) /\ specs[i].required =>
       \E j \in DOMAIN st.failures : st.failures[j] = specs[i].name

\* The names of the remote are the keys of a dict.
Apiece(specs) == \A i, j \in 1..Len(specs) : specs[i].name = specs[j].name => i = j

\* Recording the fetched of the next file keeps that up.
LEMMA RecordAccounts ==
  ASSUME NEW Names, NEW Files, NEW specs \in Seq(Specs(Names, Files)), Apiece(specs),
         NEW k \in 1..Len(specs), NEW out, NEW st \in FetchStates(Names, Files),
         Accounted(st, specs, k - 1, out)
  PROVE  Accounted(Record(st, specs[k], out[k]), specs, k, out)
<1> DEFINE x == specs[k].name
           new == Record(st, specs[k], out[k])
           counts == Failed(out[k]) /\ specs[k].required
<1>1. k \in Nat \ {0} /\ Len(specs) \in Nat /\ \A i \in 1..k : i \in 1..(k - 1) \/ i = k
  OBVIOUS
<1>2. x \notin DOMAIN st.results /\ \A i \in 1..(k - 1) : specs[i].name # x
  <2>1. \A i \in 1..(k - 1) : i \in 1..Len(specs) /\ i # k
    BY <1>1
  <2> QED
    BY <2>1 DEF Accounted, Apiece
<1>3. /\ new.results = [n \in DOMAIN st.results \cup {x} |-> IF n = x THEN out[k] ELSE st.results[n]]
      /\ new.failures = IF counts THEN Append(st.failures, x) ELSE st.failures
  BY DEF Record
<1>4. st.failures \in Seq(Names) /\ x \in Names
  <2>1. specs[k] \in Specs(Names, Files)
    OBVIOUS
  <2> QED
    BY <2>1 DEF FetchStates, Specs
<1> HIDE DEF new, x
<1>5. DOMAIN new.results = {specs[i].name : i \in 1..k}
  <2>1. {specs[i].name : i \in 1..k} = {specs[i].name : i \in 1..(k - 1)} \cup {x}
    BY <1>1 DEF x
  <2> QED
    BY <1>3, <2>1 DEF Accounted
<1>6. \A i \in 1..k : new.results[specs[i].name] = out[i]
  <2> SUFFICES ASSUME NEW i \in 1..k PROVE new.results[specs[i].name] = out[i]
    OBVIOUS
  <2>1. CASE i = k
    BY <1>3, <2>1 DEF x
  <2>2. CASE i \in 1..(k - 1)
    <3>1. specs[i].name # x /\ specs[i].name \in DOMAIN st.results
      BY <1>2, <2>2 DEF Accounted
    <3> QED
      BY <1>3, <2>2, <3>1 DEF Accounted
  <2> QED
    BY <1>1, <2>1, <2>2
<1> DEFINE old == st.failures
           fs == new.failures
<1>7. /\ \A j, l \in DOMAIN old : old[j] = old[l] => j = l
      /\ \A j \in DOMAIN old : \E i \in 1..(k - 1) :
           old[j] = specs[i].name /\ Failed(out[i]) /\ specs[i].required
      /\ \A i \in 1..(k - 1) : Failed(out[i]) /\ specs[i].required =>
           \E j \in DOMAIN old : old[j] = specs[i].name
  BY DEF Accounted
<1>8. \A j \in DOMAIN old : old[j] # x
  BY <1>2, <1>7
<1>9. old \in Seq(Names) /\ DOMAIN old = 1..Len(old) /\ Len(old) \in Nat
  BY <1>4
<1>10. fs = IF counts THEN Append(old, x) ELSE old
  BY <1>3
<1>11. 1..(k - 1) \subseteq 1..k
  BY <1>1
<1>12. /\ \A j, l \in DOMAIN fs : fs[j] = fs[l] => j = l
       /\ \A j \in DOMAIN fs : \E i \in 1..k :
            fs[j] = specs[i].name /\ Failed(out[i]) /\ specs[i].required
       /\ \A i \in 1..k : Failed(out[i]) /\ specs[i].required =>
            \E j \in DOMAIN fs : fs[j] = specs[i].name
  <2> HIDE DEF old, fs
  <2>1. CASE ~counts
    <3>1. fs = old
      BY <1>10, <2>1
    <3> HIDE DEF counts
    <3>2. \A i \in 1..k : Failed(out[i]) /\ specs[i].required => i \in 1..(k - 1)
      BY <1>1, <2>1 DEF counts
    <3> QED
      BY <1>7, <1>11, <3>1, <3>2
  <2>2. CASE counts
    <3>1. /\ fs \in Seq(Names) /\ Len(fs) = Len(old) + 1
          /\ \A j \in 1..Len(old) : fs[j] = old[j]
          /\ fs[Len(old) + 1] = x
      BY <1>4, <1>9, <1>10, <2>2, AppendProperties
    <3>2. DOMAIN fs = 1..(Len(old) + 1) /\ Len(old) + 1 \in 1..(Len(old) + 1)
      BY <1>9, <3>1
    <3>3. \A j \in DOMAIN fs : j \in DOMAIN old \/ j = Len(old) + 1
      BY <1>9, <3>2
    <3>4. \A j \in DOMAIN old : j \in DOMAIN fs /\ fs[j] = old[j] /\ fs[j] # x
      BY <1>8, <1>9, <3>1, <3>2
    <3>5. \A j, l \in DOMAIN fs : fs[j] = fs[l] => j = l
      BY <1>7, <3>1, <3>3, <3>4
    <3>6. ASSUME NEW j \in DOMAIN fs
          PROVE  \E i \in 1..k : fs[j] = specs[i].name /\ Failed(out[i]) /\ specs[i].required
      <4>1. CASE j \in DOMAIN old
        BY <1>7, <1>11, <3>4, <4>1
      <4>2. CASE j = Len(old) + 1
        BY <1>1, <2>2, <3>1, <4>2 DEF x
      <4> QED
        BY <3>3, <4>1, <4>2
    <3>7. ASSUME NEW i \in 1..k, Failed(out[i]), specs[i].required
          PROVE  \E j \in DOMAIN fs : fs[j] = specs[i].name
      <4>1. CASE i = k
        BY <3>1, <3>2, <4>1 DEF x
      <4>2. CASE i \in 1..(k - 1)
        BY <1>7, <3>4, <3>7, <4>2
      <4> QED
        BY <1>1, <4>1, <4>2
    <3> QED
      BY <3>5, <3>6, <3>7
  <2> QED
    BY <2>1, <2>2
<1>13. Accounted(new, specs, k, out)
  BY <1>5, <1>6, <1>12 DEF Accounted
<1> QED
  BY <1>13 DEF new

\* The fetched of a file: what reading it gave, or that the channel was refused.
Outcome(specs, channel) ==
  [i \in 1..Len(specs) |-> IF channel = "refused" THEN Lost ELSE ReadCapped(specs[i].file)]

\* fetch_files accounts for every file of a list of any length, however the
\* channel ends.
THEOREM FilesAccounted ==
  ASSUME NEW Names, NEW Files, NEW specs \in Seq(Specs(Names, Files)), Apiece(specs),
         NEW channel
  PROVE  /\ FetchFiles(specs, channel) \in FetchStates(Names, Files)
         /\ Accounted(FetchFiles(specs, channel), specs, Len(specs), Outcome(specs, channel))
<1> DEFINE n == Len(specs)
           V == FetchStates(Names, Files)
           read == [i \in 1..Len(specs) |-> ReadCapped(specs[i].file)]
           unread == [i \in 1..Len(specs) |-> Lost]
<1>1. n \in Nat /\ \A i \in 1..n : specs[i] \in Specs(Names, Files)
  OBVIOUS
<1>2. \A out : Accounted(Nothing, specs, 0, out)
  BY DEF Accounted, Nothing
<1>3. PICK r \in [0..n -> V] :
           /\ r[0] = Nothing
           /\ \A k \in 1..n : r[k] = FetchFile(r[k - 1], specs[k])
           /\ FoldLeft(FetchFile, Nothing, specs) = r[n]
  BY FetchRuns
<1>4. Accounted(r[n], specs, n, read)
  <2> DEFINE S == {k \in 0..n : Accounted(r[k], specs, k, read)}
  <2>1. 0 \in S
    BY <1>1, <1>2, <1>3
  <2>2. ASSUME NEW k \in 1..n, k - 1 \in S PROVE k \in S
    <3>1. k - 1 \in 0..n /\ k \in 0..n /\ k \in 1..Len(specs)
      BY <1>1
    <3>2. r[k - 1] \in V /\ Accounted(r[k - 1], specs, k - 1, read)
      BY <1>3, <2>2, <3>1
    <3>3. read[k] = ReadCapped(specs[k].file)
      BY <3>1
    <3> HIDE DEF read
    <3>4. Accounted(Record(r[k - 1], specs[k], read[k]), specs, k, read)
      BY <3>1, <3>2, RecordAccounts
    <3>5. r[k] = Record(r[k - 1], specs[k], read[k])
      BY <1>3, <3>3 DEF FetchFile
    <3> QED
      BY <3>1, <3>4, <3>5
  <2> HIDE DEF S, n, read
  <2>3. \A k \in 0..n : k \in S
    BY <1>1, <2>1, <2>2, Climb
  <2> QED
    BY <1>1, <2>3 DEF S
<1>5. Nothing \in V
  BY FetchTypes
<1>6. CASE channel = "refused"
  <2>1. PICK q \in [0..n -> V] :
           /\ q[0] = Nothing
           /\ \A k \in 1..n : q[k] = Refuse(q[k - 1], specs[k])
           /\ ChannelError(Nothing, specs) = q[n]
    BY <1>5, RefuseRuns
  <2> DEFINE S == {k \in 0..n : Accounted(q[k], specs, k, unread)}
  <2>2. 0 \in S
    BY <1>1, <1>2, <2>1
  <2>3. ASSUME NEW k \in 1..n, k - 1 \in S PROVE k \in S
    <3>1. k - 1 \in 0..n /\ k \in 0..n /\ k \in 1..Len(specs)
      BY <1>1
    <3>2. q[k - 1] \in V /\ Accounted(q[k - 1], specs, k - 1, unread)
      BY <2>1, <2>3, <3>1
    <3>3. unread[k] = Lost
      BY <3>1
    <3> HIDE DEF unread
    <3>4. Accounted(Record(q[k - 1], specs[k], unread[k]), specs, k, unread)
      BY <3>1, <3>2, RecordAccounts
    <3>5. specs[k].name \notin DOMAIN q[k - 1].results
      <4>1. \A i \in 1..(k - 1) : i \in 1..Len(specs) /\ i # k
        BY <1>1
      <4> QED
        BY <3>1, <3>2, <4>1 DEF Accounted, Apiece
    <3>6. q[k] = Record(q[k - 1], specs[k], unread[k])
      BY <2>1, <3>3, <3>5 DEF Refuse
    <3> QED
      BY <3>1, <3>4, <3>6
  <2>4. Accounted(q[n], specs, n, unread)
    <3> HIDE DEF S, n, unread
    <3>1. \A k \in 0..n : k \in S
      BY <1>1, <2>2, <2>3, Climb
    <3> QED
      BY <1>1, <3>1 DEF S
  <2>5. Outcome(specs, channel) = unread
    BY <1>6 DEF Outcome
  <2>6. FetchFiles(specs, channel) = q[n] /\ q[n] \in V
    BY <1>1, <1>6, <2>1 DEF FetchFiles
  <2> QED
    BY <2>4, <2>5, <2>6
<1>7. CASE channel # "refused"
  <2>1. Outcome(specs, channel) = read
    BY <1>7 DEF Outcome
  <2>2. r[n] \in V
    BY <1>1, <1>3
  <2>3. CASE channel # "broken"
    <3>1. FetchFiles(specs, channel) = r[n]
      BY <1>3, <1>7, <2>3 DEF FetchFiles
    <3> QED
      BY <1>4, <2>1, <2>2, <3>1
  <2>4. CASE channel = "broken"
    <3>1. PICK q \in [0..n -> V] :
             /\ q[0] = r[n]
             /\ \A k \in 1..n : q[k] = Refuse(q[k - 1], specs[k])
             /\ ChannelError(r[n], specs) = q[n]
      BY <2>2, RefuseRuns
    <3> DEFINE S == {k \in 0..n : q[k] = r[n]}
    <3>2. 0 \in S
      BY <1>1, <3>1
    <3>3. ASSUME NEW k \in 1..n, k - 1 \in S PROVE k \in S
      <4>1. k \in 0..n /\ q[k - 1] = r[n]
        BY <1>1, <3>3
      <4>2. specs[k].name \in DOMAIN r[n].results
        BY <1>4 DEF Accounted
      <4> QED
        BY <3>1, <4>1, <4>2 DEF Refuse
    <3>4. q[n] = r[n]
      <4> HIDE DEF S, n
      <4>1. \A k \in 0..n : k \in S
        BY <1>1, <3>2, <3>3, Climb
      <4> QED
        BY <1>1, <4>1 DEF S
    <3>5. FetchFiles(specs, channel) = r[n]
      BY <1>3, <1>7, <2>4, <3>1, <3>4 DEF FetchFiles
    <3> QED
      BY <1>4, <2>1, <2>2, <3>5
  <2> QED
    BY <2>3, <2>4
<1> QED
  BY <1>6, <1>7

\* What is delivered is the whole file and within the cap.
LEMMA WholeWithinCap ==
  ASSUME NEW file, file.size \in Nat, file.stat \in Nat \cup {Absent}, ~Failed(ReadCapped(file))
  PROVE  ReadCapped(file).size = file.size /\ file.size <= Cap
<1>1. Cap \in Nat
  BY FetcherAssumption
<1>2. ASSUME NEW e PROVE Failed([error |-> e])
  BY DEF Failed
<1>3. file.fails = "nothing"
  BY <1>2 DEF ReadCapped
<1>4. ~(file.size > Cap)
  <2>1. ASSUME file.size > Cap PROVE FALSE
    <3>1. ReadCapped(file) = [error |-> "EFBIG"]
      BY <1>1, <1>3, <2>1 DEF ReadCapped
    <3> QED
      BY <1>2, <3>1
  <2> QED
    BY <2>1
<1>5. ReadCapped(file) = [size |-> file.size] \/ ReadCapped(file) = [error |-> "EFBIG"]
  BY <1>3, <1>4 DEF ReadCapped
<1>6. ReadCapped(file) = [size |-> file.size]
  BY <1>2, <1>5
<1> QED
  BY <1>1, <1>4, <1>6

\* A sequence without repetitions has a value at one position at most.
LEMMA OnceAtMost ==
  ASSUME NEW s, NEW x, \A j, l \in DOMAIN s : s[j] = s[l] => j = l
  PROVE  Cardinality({j \in DOMAIN s : s[j] = x}) = IF \E j \in DOMAIN s : s[j] = x THEN 1 ELSE 0
<1>1. CASE \E j \in DOMAIN s : s[j] = x
  <2>1. PICK j \in DOMAIN s : s[j] = x
    BY <1>1
  <2>2. {l \in DOMAIN s : s[l] = x} = {j}
    BY <2>1
  <2> QED
    BY <1>1, <2>2, FS_Singleton
<1>2. CASE ~\E j \in DOMAIN s : s[j] = x
  <2>1. {l \in DOMAIN s : s[l] = x} = {}
    BY <1>2
  <2> QED
    BY <1>2, <2>1, FS_EmptySet
<1> QED
  BY <1>1, <1>2

\* Every file has one fetched, what is delivered is whole and within the cap,
\* and a node is failed by exactly the required remote it did not get.
THEOREM FilesFetched ==
  ASSUME NEW Errors, NEW remote \in SUBSET [stat : Nat \cup {Absent}, size : Nat, fails : Errors]
  PROVE  FetchRight(remote)
<1> SUFFICES ASSUME NEW f \in remote, NEW g \in remote, NEW p \in BOOLEAN, NEW q \in BOOLEAN,
                    NEW channel \in {"open", "refused", "broken"}
             PROVE  LET specs == <<[name |-> "f", required |-> p, file |-> f],
                                   [name |-> "g", required |-> q, file |-> g]>>
                        got == FetchFiles(specs, channel)
                    IN /\ DOMAIN got.results = {"f", "g"}
                       /\ \A i \in DOMAIN specs :
                            LET fetched == got.results[specs[i].name]
                            IN /\ ~Failed(fetched) => fetched.size = specs[i].file.size /\ fetched.size <= Cap
                               /\ Cardinality({j \in DOMAIN got.failures : got.failures[j] = specs[i].name})
                                    = (IF Failed(fetched) /\ specs[i].required THEN 1 ELSE 0)
  BY Zenon DEF FetchRight
<1> DEFINE specs == <<[name |-> "f", required |-> p, file |-> f],
                      [name |-> "g", required |-> q, file |-> g]>>
           got == FetchFiles(specs, channel)
           out == Outcome(specs, channel)
<1>1. /\ specs \in Seq(Specs({"f", "g"}, remote)) /\ Len(specs) = 2 /\ DOMAIN specs = 1..2
      /\ specs[1].name = "f" /\ specs[2].name = "g"
      /\ \A i \in 1..2 : specs[i].file \in remote
  BY DEF Specs
<1> HIDE DEF specs
<1>2. Apiece(specs)
  BY <1>1 DEF Apiece
<1>3. Accounted(got, specs, 2, out)
  <2> DEFINE Names == {"f", "g"}
  <2>1. specs \in Seq(Specs(Names, remote))
    BY <1>1
  <2> HIDE DEF Names
  <2>2. Accounted(got, specs, Len(specs), out)
    BY <1>2, <2>1, FilesAccounted
  <2> QED
    BY <1>1, <2>2
<1> HIDE DEF got
<1>4. DOMAIN got.results = {"f", "g"}
  <2>1. {specs[i].name : i \in 1..2} = {"f", "g"}
    BY <1>1
  <2> QED
    BY <1>3, <2>1 DEF Accounted
<1>5. ASSUME NEW i \in 1..2
      PROVE  LET fetched == got.results[specs[i].name]
             IN /\ ~Failed(fetched) => fetched.size = specs[i].file.size /\ fetched.size <= Cap
                /\ Cardinality({j \in DOMAIN got.failures : got.failures[j] = specs[i].name})
                     = (IF Failed(fetched) /\ specs[i].required THEN 1 ELSE 0)
  <2> DEFINE fetched == got.results[specs[i].name]
             x == specs[i].name
             file == specs[i].file
  <2>1. fetched = out[i]
    BY <1>3 DEF Accounted
  <2>2. fetched = Lost \/ fetched = ReadCapped(file)
    BY <1>1, <2>1 DEF Outcome
  <2>3. Failed(Lost)
    BY DEF Failed, Lost
  <2>4. file.size \in Nat /\ file.stat \in Nat \cup {Absent}
    <3>1. file \in [stat : Nat \cup {Absent}, size : Nat, fails : Errors]
      BY <1>1
    <3> HIDE DEF file
    <3> QED
      BY <3>1
  <2> HIDE DEF fetched, file
  <2>5. ~Failed(fetched) => fetched.size = file.size /\ fetched.size <= Cap
    BY <2>2, <2>3, <2>4, WholeWithinCap
  <2>6. /\ \A j, l \in DOMAIN got.failures : got.failures[j] = got.failures[l] => j = l
        /\ (\E j \in DOMAIN got.failures : got.failures[j] = x)
             <=> Failed(fetched) /\ specs[i].required
    <3>1. ASSUME NEW j \in DOMAIN got.failures, got.failures[j] = x
          PROVE  Failed(fetched) /\ specs[i].required
      <4>1. PICK l \in 1..2 : got.failures[j] = specs[l].name /\ Failed(out[l]) /\ specs[l].required
        BY <1>3 DEF Accounted
      <4>2. l = i
        BY <1>1, <1>2, <3>1, <4>1 DEF Apiece
      <4> QED
        BY <2>1, <4>1, <4>2
    <3>2. Failed(fetched) /\ specs[i].required => \E j \in DOMAIN got.failures : got.failures[j] = x
      BY <1>3, <2>1 DEF Accounted
    <3>3. \A j, l \in DOMAIN got.failures : got.failures[j] = got.failures[l] => j = l
      BY <1>3 DEF Accounted
    <3> QED
      BY <3>1, <3>2, <3>3
  <2>7. Cardinality({j \in DOMAIN got.failures : got.failures[j] = x})
          = IF \E j \in DOMAIN got.failures : got.failures[j] = x THEN 1 ELSE 0
    BY <2>6, OnceAtMost
  <2>8. Cardinality({j \in DOMAIN got.failures : got.failures[j] = x})
          = IF Failed(fetched) /\ specs[i].required THEN 1 ELSE 0
    BY <2>6, <2>7, Zenon
  <2> QED
    BY <2>5, <2>8 DEF fetched, file
<1> QED
  BY <1>1, <1>4, <1>5, Zenon DEF got, specs

-----------------------------------------------------------------------------
(* run_kube_targets *)

\* The view of a target, the addresses in it, the answer of _resolve_tls and the
\* output with a port: what KubeStep computes on its way.
Viewed(t) == CHOOSE v \in ParseKubeconfig(t.doc) : TRUE
ServersOf(t) == SplitServer(ClusterOf(Viewed(t)).server)
TlsOf(t) == ResolveTls(t, (CHOOSE s \in ServersOf(t) : TRUE).host, t.cert)
OutputOf(t, port) == KubeOutput(t.doc, Viewed(t), port, TlsOf(t))

\* The state with the listener of the next forward, and with it closed again.
Opened(st) == [st EXCEPT !.ports = st.ports + 1, !.listening = @ \cup {st.ports + 1}]
Closed(st) == [st EXCEPT !.ports = st.ports + 1]
Up(st, t) == [Opened(st) EXCEPT !.outputs =
                [n \in DOMAIN @ \cup {t.name} |->
                   IF n = t.name THEN OutputOf(t, st.ports + 1) ELSE @[n]]]

\* The six ways a target can go.
LEMMA KubeWays ==
  ASSUME NEW st, NEW t
  PROVE  \/ st.raised /\ KubeStep(st, t) = st
         \/ ~st.raised /\ KubeStep(st, t) = Raised(st)
         \/ ~st.raised /\ KubeStep(st, t) = Skip(st, t)
         \/ ~st.raised /\ KubeStep(st, t) = Raised(Opened(st))
         \/ ~st.raised /\ KubeStep(st, t) = Skip(Closed(st), t)
         \/ /\ ~st.raised /\ KubeStep(st, t) = Up(st, t)
            /\ ParseKubeconfig(t.doc) # {} /\ ServersOf(t) # {}
            /\ TlsOf(t).name # Absent \/ TlsOf(t).insecure
            /\ ~(t.override = Absent /\ t.cert = Odd)
<1> DEFINE fwd == Forwarded(st, t, t.doc, Viewed(t), (CHOOSE s \in ServersOf(t) : TRUE).host)
<1>1. \/ st.raised /\ KubeStep(st, t) = st
      \/ ~st.raised /\ KubeStep(st, t) = Raised(st)
      \/ ~st.raised /\ KubeStep(st, t) = Skip(st, t)
      \/ ~st.raised /\ ParseKubeconfig(t.doc) # {} /\ ServersOf(t) # {} /\ KubeStep(st, t) = fwd
  BY Zenon DEF KubeStep, Viewed, ServersOf
<1>2. \/ fwd = Raised(Opened(st))
      \/ fwd = Skip(Closed(st), t)
      \/ /\ fwd = Up(st, t)
         /\ TlsOf(t).name # Absent \/ TlsOf(t).insecure
         /\ ~(t.override = Absent /\ t.cert = Odd)
  <2>1. CASE t.override = Absent /\ t.cert = Odd
    BY <2>1, Zenon DEF Forwarded, Opened
  <2>2. CASE ~(t.override = Absent /\ t.cert = Odd) /\ TlsOf(t).name = Absent /\ ~TlsOf(t).insecure
    BY <2>2, Zenon DEF Forwarded, Closed, TlsOf
  <2>3. CASE ~(t.override = Absent /\ t.cert = Odd) /\ ~(TlsOf(t).name = Absent /\ ~TlsOf(t).insecure)
    <3>1. fwd = Up(st, t)
      BY <2>3, Zenon DEF Forwarded, Opened, Up, OutputOf, TlsOf
    <3> QED
      BY <2>3, <3>1, Zenon
  <2> QED
    BY <2>1, <2>2, <2>3, Zenon
<1> HIDE DEF fwd
<1> QED
  BY <1>1, <1>2, Zenon

\* The outputs that the targets can have, the names of the first k, and the
\* state of run_kube_targets.
Outputs(targets) == {OutputOf(targets[i], p) : i \in 1..Len(targets), p \in Nat}
NamesOf(targets, k) == {targets[i].name : i \in 1..k}
KubeStates(targets) ==
  LET N == NamesOf(targets, Len(targets))
  IN [outputs : UNION {[D -> Outputs(targets)] : D \in SUBSET N}, failures : SUBSET N,
      skipped : SUBSET N, listening : SUBSET Nat, ports : Nat, raised : BOOLEAN]

\* A target leaves a state.
LEMMA KubeType ==
  ASSUME NEW T, NEW targets \in Seq(T), NEW st \in KubeStates(targets), NEW i \in 1..Len(targets)
  PROVE  KubeStep(st, targets[i]) \in KubeStates(targets)
<1> DEFINE N == NamesOf(targets, Len(targets))
           t == targets[i]
           F == UNION {[D -> Outputs(targets)] : D \in SUBSET N}
           V == [outputs : F, failures : SUBSET N, skipped : SUBSET N, listening : SUBSET Nat,
                 ports : Nat, raised : BOOLEAN]
<1>1. KubeStates(targets) = V
  BY DEF KubeStates
<1>2. t.name \in N
  BY DEF NamesOf
<1>3. \A p \in Nat : OutputOf(t, p) \in Outputs(targets)
  BY DEF Outputs
<1>4. st \in V
  BY <1>1
<1> HIDE DEF N, F, t
<1>5. ASSUME NEW x \in V
      PROVE  Raised(x) \in V /\ Skip(x, t) \in V /\ Opened(x) \in V /\ Closed(x) \in V
  <2>1. Raised(x) \in V
    BY DEF Raised
  <2>2. Skip(x, t) \in V
    <3>1. /\ x.skipped \cup {t.name} \in SUBSET N
          /\ (IF t.required THEN x.failures \cup {t.name} ELSE x.failures) \in SUBSET N
      BY <1>2
    <3> QED
      BY <3>1 DEF Skip
  <2>3. Closed(x) \in V
    BY DEF Closed
  <2>4. Opened(x) \in V
    <3>1. x.ports + 1 \in Nat /\ x.listening \cup {x.ports + 1} \in SUBSET Nat
      OBVIOUS
    <3> QED
      BY <3>1 DEF Opened
  <2> QED
    BY <2>1, <2>2, <2>3, <2>4
<1>6. Up(st, t) \in V
  <2> DEFINE p == st.ports + 1
             new == [n \in DOMAIN st.outputs \cup {t.name} |->
                       IF n = t.name THEN OutputOf(t, p) ELSE st.outputs[n]]
  <2>1. PICK D \in SUBSET N : st.outputs \in [D -> Outputs(targets)]
    BY <1>4 DEF F
  <2>2. OutputOf(t, p) \in Outputs(targets)
    BY <1>3, <1>4
  <2>3. new \in [D \cup {t.name} -> Outputs(targets)] /\ D \cup {t.name} \in SUBSET N
    BY <1>2, <2>1, <2>2
  <2>4. new \in F
    <3> HIDE DEF new
    <3> QED
      BY <2>3 DEF F
  <2>5. Opened(st).outputs = st.outputs
    BY <1>4 DEF Opened
  <2>6. Up(st, t) = [Opened(st) EXCEPT !.outputs = new]
    BY <2>5 DEF Up
  <2> HIDE DEF new
  <2> QED
    BY <1>4, <1>5, <2>4, <2>6
<1> HIDE DEF N, t, F, V
<1>7. KubeStep(st, t) \in {st, Raised(st), Skip(st, t), Raised(Opened(st)), Skip(Closed(st), t), Up(st, t)}
  BY KubeWays, Zenon
<1>8. KubeStep(st, t) \in V
  BY <1>4, <1>5, <1>6, <1>7, Zenon
<1> QED
  BY <1>1, <1>8, Zenon DEF t

\* run_kube_targets, one target after the other.
LEMMA KubeRuns ==
  ASSUME NEW T, NEW targets \in Seq(T)
  PROVE  \E r \in [0..Len(targets) -> KubeStates(targets)] :
           /\ r[0] = Untouched
           /\ \A k \in 1..Len(targets) : r[k] = KubeStep(r[k - 1], targets[k])
           /\ RunKubeTargets(targets) = r[Len(targets)]
<1> DEFINE n == Len(targets)
           V == KubeStates(targets)
           g == [p \in (1..n) \X V |-> KubeStep(p[2], targets[p[1]])]
           Fits(h) == h = [s \in SUBSET DOMAIN targets |->
                             IF s = {} THEN Untouched
                             ELSE KubeStep(h[s \ {Max(s)}], targets[Max(s)])]
           f == CHOOSE h : Fits(h)
<1>1. n \in Nat /\ DOMAIN targets = 1..n
  OBVIOUS
<1>2. Untouched \in V
  <2> DEFINE N == NamesOf(targets, n)
             F == UNION {[D -> Outputs(targets)] : D \in SUBSET N}
  <2>1. <<>> \in [{} -> Outputs(targets)] /\ {} \in SUBSET N
    OBVIOUS
  <2>2. <<>> \in F
    BY <2>1
  <2> HIDE DEF F, N
  <2> QED
    BY <2>2 DEF Untouched, KubeStates, F, N
<1>3. g \in [(1..n) \X V -> V]
  BY <1>1, KubeType
<1> HIDE DEF V, g, n
<1>4. PICK h : FoldsBy(h, V, Untouched, n, g)
  BY <1>1, <1>2, <1>3, FoldExists
<1>5. ASSUME NEW s \in SUBSET (1..n), s # {}, NEW v \in V
      PROVE  g[<<Max(s), v>>] = KubeStep(v, targets[Max(s)])
  <2>1. s \in SUBSET Nat /\ \A i \in s : i <= n
    BY <1>1
  <2>2. Max(s) \in 1..n
    BY <1>1, <1>5, <2>1, MaxExists
  <2> QED
    BY <2>2 DEF g
<1>6. Fits(h)
  <2>1. h \in [SUBSET (1..n) -> V]
    BY <1>4 DEF FoldsBy
  <2>2. ASSUME NEW s \in SUBSET (1..n)
        PROVE  h[s] = IF s = {} THEN Untouched ELSE KubeStep(h[s \ {Max(s)}], targets[Max(s)])
    BY <1>4, <1>5, <2>1 DEF FoldsBy
  <2> QED
    BY <1>1, <2>1, <2>2
<1>7. Fits(f)
  BY <1>6
<1>8. RunKubeTargets(targets) = f[1..n]
  BY <1>1 DEF RunKubeTargets, FoldLeft, MapThenFoldSet
<1> HIDE DEF f
<1>9. FoldsWithin(f, V, Untouched, n, g)
  BY <1>1, <1>5, <1>7 DEF FoldsWithin
<1>10. PICK r : RunsBy(r, V, Untouched, n, g, f[1..n])
  BY <1>1, <1>2, <1>3, <1>9, FoldRuns
<1>11. r \in [0..n -> V] /\ r[0] = Untouched
  BY <1>10 DEF RunsBy
<1>12. ASSUME NEW k \in 1..n PROVE r[k] = KubeStep(r[k - 1], targets[k])
  <2>1. <<k, r[k - 1]>> \in (1..n) \X V
    BY <1>1, <1>11
  <2>2. r[k] = g[<<k, r[k - 1]>>]
    BY <1>10 DEF RunsBy
  <2> QED
    BY <2>1, <2>2 DEF g
<1> QED
  BY <1>8, <1>10, <1>11, <1>12 DEF RunsBy, V, n

\* The state after k targets.
LoopInv(st, targets, k) ==
  LET up == DOMAIN st.outputs
  IN /\ up \subseteq NamesOf(targets, k) /\ st.skipped \subseteq NamesOf(targets, k)
     /\ up \cap st.skipped = {}
     /\ st.failures = {targets[i].name : i \in {j \in 1..k : targets[j].required}} \cap st.skipped
     /\ \A n \in up : st.outputs[n].port <= st.ports
     /\ \A m, n \in up : st.outputs[m].port = st.outputs[n].port => m = n
     /\ ~st.raised => /\ up \cup st.skipped = NamesOf(targets, k)
                      /\ st.listening = {st.outputs[n].port : n \in up}

\* No two targets of a node have the same name: they are the keys of a dict.
ByName(targets) == \A i, j \in 1..Len(targets) : targets[i].name = targets[j].name => i = j

\* Whatever happens to a target, it is accounted for.
LEMMA LoopStep ==
  ASSUME NEW T, NEW targets \in Seq(T), ByName(targets), NEW k \in 1..Len(targets),
         NEW st \in KubeStates(targets), LoopInv(st, targets, k - 1)
  PROVE  LoopInv(KubeStep(st, targets[k]), targets, k)
<1> DEFINE t == targets[k]
           x == t.name
           N == NamesOf(targets, k - 1)
           M == NamesOf(targets, k)
           R == {targets[i].name : i \in {j \in 1..(k - 1) : targets[j].required}}
           Q == {targets[i].name : i \in {j \in 1..k : targets[j].required}}
           up == DOMAIN st.outputs
           new == KubeStep(st, t)
<1>1. k \in Nat \ {0} /\ Len(targets) \in Nat
  OBVIOUS
<1>2. \A i \in 1..k : i \in 1..(k - 1) \/ i = k
  BY <1>1
<1>3. M = N \cup {x} /\ x \notin N
  <2>1. \A i \in 1..(k - 1) : i \in 1..Len(targets) /\ i # k /\ i \in 1..k
    BY <1>1
  <2>2. k \in 1..k
    BY <1>1
  <2> QED
    BY <1>2, <2>1, <2>2 DEF NamesOf, ByName
<1>4. Q = IF t.required THEN R \cup {x} ELSE R
  <2>1. \A i \in 1..(k - 1) : i \in 1..k
    BY <1>1
  <2>2. k \in 1..k
    BY <1>1
  <2> QED
    BY <1>2, <2>1, <2>2
<1>5. x \notin R
  BY <1>3 DEF NamesOf
<1>6. /\ st.ports \in Nat /\ st.listening \in SUBSET Nat /\ st.raised \in BOOLEAN
      /\ \A n \in up : st.outputs[n].port \in Nat
  <2>1. st.ports \in Nat /\ st.listening \in SUBSET Nat /\ st.raised \in BOOLEAN
    BY DEF KubeStates
  <2>2. st.outputs \in UNION {[D -> Outputs(targets)] : D \in SUBSET NamesOf(targets, Len(targets))}
    BY DEF KubeStates
  <2>3. PICK D \in SUBSET NamesOf(targets, Len(targets)) : st.outputs \in [D -> Outputs(targets)]
    BY <2>2
  <2>4. ASSUME NEW n \in up PROVE st.outputs[n].port \in Nat
    <3>1. st.outputs[n] \in Outputs(targets)
      BY <2>3
    <3>2. PICK i \in 1..Len(targets), p \in Nat : st.outputs[n] = OutputOf(targets[i], p)
      BY <3>1 DEF Outputs
    <3> DEFINE o == OutputOf(targets[i], p)
    <3>3. o.port = p
      BY DEF OutputOf, KubeOutput
    <3> HIDE DEF o
    <3>4. st.outputs[n] = o
      BY <3>2 DEF o
    <3> QED
      BY <3>3, <3>4
  <2> QED
    BY <2>1, <2>4
<1>7. /\ up \subseteq N /\ st.skipped \subseteq N /\ up \cap st.skipped = {}
      /\ st.failures = R \cap st.skipped
      /\ \A n \in up : st.outputs[n].port <= st.ports
      /\ \A m, n \in up : st.outputs[m].port = st.outputs[n].port => m = n
      /\ ~st.raised => /\ up \cup st.skipped = N
                       /\ st.listening = {st.outputs[n].port : n \in up}
  BY DEF LoopInv
<1>8. ASSUME NEW e \in KubeStates(targets)
      PROVE  /\ Raised(e).raised /\ Raised(e).outputs = e.outputs /\ Raised(e).skipped = e.skipped
             /\ Raised(e).failures = e.failures /\ Raised(e).ports = e.ports
             /\ Skip(e, t).outputs = e.outputs /\ Skip(e, t).skipped = e.skipped \cup {x}
             /\ Skip(e, t).failures = (IF t.required THEN e.failures \cup {x} ELSE e.failures)
             /\ Skip(e, t).ports = e.ports /\ Skip(e, t).raised = e.raised
             /\ Skip(e, t).listening = e.listening
             /\ Opened(e).outputs = e.outputs /\ Opened(e).skipped = e.skipped
             /\ Opened(e).failures = e.failures /\ Opened(e).ports = e.ports + 1
             /\ Opened(e).raised = e.raised /\ Opened(e).listening = e.listening \cup {e.ports + 1}
             /\ Closed(e).outputs = e.outputs /\ Closed(e).skipped = e.skipped
             /\ Closed(e).failures = e.failures /\ Closed(e).ports = e.ports + 1
             /\ Closed(e).raised = e.raised /\ Closed(e).listening = e.listening
  BY DEF KubeStates, Raised, Skip, Opened, Closed
<1>9. Opened(st) \in KubeStates(targets) /\ Closed(st) \in KubeStates(targets)
  <2>1. st.ports + 1 \in Nat /\ st.listening \cup {st.ports + 1} \in SUBSET Nat
    BY <1>6
  <2> QED
    BY <2>1 DEF KubeStates, Opened, Closed
<1>10. LoopInv(new, targets, k) <=>
         /\ DOMAIN new.outputs \subseteq M /\ new.skipped \subseteq M
         /\ DOMAIN new.outputs \cap new.skipped = {}
         /\ new.failures = Q \cap new.skipped
         /\ \A n \in DOMAIN new.outputs : new.outputs[n].port <= new.ports
         /\ \A m, n \in DOMAIN new.outputs : new.outputs[m].port = new.outputs[n].port => m = n
         /\ ~new.raised => /\ DOMAIN new.outputs \cup new.skipped = M
                           /\ new.listening = {new.outputs[n].port : n \in DOMAIN new.outputs}
  BY DEF LoopInv
<1> HIDE DEF N, M, R, Q, up, t
<1> DEFINE outs == st.outputs
           same == new.outputs = outs
<1>11. ASSUME same, new.ports \in {st.ports, st.ports + 1}, new.raised,
              new.skipped = st.skipped, new.failures = st.failures
       PROVE  LoopInv(new, targets, k)
  <2> HIDE DEF new
  <2>1. \A n \in up : outs[n].port <= new.ports
    BY <1>6, <1>7, <1>11
  <2>2. st.failures = Q \cap st.skipped
    BY <1>3, <1>4, <1>7
  <2> QED
    BY <1>3, <1>7, <1>10, <1>11, <2>1, <2>2 DEF up
<1>12. ASSUME same, new.ports \in {st.ports, st.ports + 1}, ~st.raised,
              new.skipped = st.skipped \cup {x}, new.listening = st.listening,
              new.failures = (IF t.required THEN st.failures \cup {x} ELSE st.failures)
       PROVE  LoopInv(new, targets, k)
  <2> HIDE DEF new
  <2>1. \A n \in up : outs[n].port <= new.ports
    BY <1>6, <1>7, <1>12
  <2>2. new.failures = Q \cap new.skipped
    BY <1>3, <1>4, <1>5, <1>7, <1>12
  <2> QED
    BY <1>3, <1>7, <1>10, <1>12, <2>1, <2>2 DEF up
<1>13. ASSUME new = Up(st, t), ~st.raised PROVE LoopInv(new, targets, k)
  <2> DEFINE p == st.ports + 1
             o == OutputOf(t, p)
  <2>1. o.port = p
    BY DEF OutputOf, KubeOutput
  <2> HIDE DEF o
  <2>2. new.outputs = [n \in up \cup {x} |-> IF n = x THEN o ELSE outs[n]]
    <3> DEFINE q == Opened(st)
               all == [n \in up \cup {x} |-> IF n = x THEN o ELSE outs[n]]
    <3>1. q \in KubeStates(targets) /\ q.outputs = outs
      BY <1>8, <1>9
    <3>2. Up(st, t) = [q EXCEPT !.outputs = all]
      BY <3>1 DEF Up, up, o
    <3> HIDE DEF q, all
    <3>3. new = [q EXCEPT !.outputs = all]
      BY <1>13, <3>2
    <3>4. new.outputs = all
      BY <3>1, <3>3 DEF KubeStates
    <3> QED
      BY <3>4 DEF all
  <2>3. /\ new.skipped = st.skipped /\ new.failures = st.failures /\ new.raised = st.raised
        /\ new.ports = p /\ new.listening = st.listening \cup {p}
    <3> DEFINE q == Opened(st)
    <3>1. q \in KubeStates(targets)
      BY <1>9
    <3>2. /\ q.skipped = st.skipped /\ q.failures = st.failures /\ q.raised = st.raised
          /\ q.ports = p /\ q.listening = st.listening \cup {p}
      BY <1>8
    <3> HIDE DEF q
    <3>3. /\ new.skipped = q.skipped /\ new.failures = q.failures /\ new.raised = q.raised
          /\ new.ports = q.ports /\ new.listening = q.listening
      BY <1>13, <3>1 DEF Up, q, KubeStates
    <3> QED
      BY <3>2, <3>3
  <2> HIDE DEF new
  <2>4. x \notin up /\ x \notin st.skipped
    BY <1>3, <1>7
  <2>5. \A n \in up : new.outputs[n] = outs[n]
    BY <2>2, <2>4
  <2>6. new.outputs[x] = o /\ DOMAIN new.outputs = up \cup {x}
    BY <2>2
  <2>7. p \in Nat /\ \A n \in up : outs[n].port \in Nat /\ outs[n].port < p
    BY <1>6, <1>7
  <2> HIDE DEF p
  <2>8. \A n \in up \cup {x} : new.outputs[n].port <= p
    BY <2>1, <2>5, <2>6, <2>7
  <2>9. \A m, n \in up \cup {x} : new.outputs[m].port = new.outputs[n].port => m = n
    BY <1>7, <2>1, <2>5, <2>6, <2>7
  <2>10. new.failures = Q \cap new.skipped
    BY <1>3, <1>4, <1>7, <2>3, <2>4
  <2>11. new.listening = {new.outputs[n].port : n \in up \cup {x}}
    <3>1. st.listening = {outs[n].port : n \in up}
      BY <1>7, <1>13
    <3>2. {new.outputs[n].port : n \in up \cup {x}} = {new.outputs[n].port : n \in up} \cup {p}
      BY <2>1, <2>6
    <3>3. {new.outputs[n].port : n \in up} = {outs[n].port : n \in up}
      BY <2>5
    <3> QED
      BY <2>3, <3>1, <3>2, <3>3
  <2>12. (up \cup {x}) \cup new.skipped = M
    BY <1>3, <1>7, <1>13, <2>3
  <2> QED
    BY <1>3, <1>7, <1>10, <2>3, <2>4, <2>6, <2>8, <2>9, <2>10, <2>11, <2>12
<1>14. new = KubeStep(st, t)
  BY DEF t
<1> SUFFICES LoopInv(new, targets, k)
  BY DEF t
<1> HIDE DEF new
<1>15. CASE st.raised /\ new = st
  BY <1>11, <1>15
<1>16. CASE new = Raised(st)
  <2>1. /\ new.raised /\ same /\ new.skipped = st.skipped /\ new.failures = st.failures
        /\ new.ports = st.ports
    BY <1>8, <1>16
  <2> QED
    BY <1>11, <2>1
<1>17. CASE ~st.raised /\ new = Skip(st, t)
  <2>1. /\ same /\ new.skipped = st.skipped \cup {x} /\ new.ports = st.ports
        /\ new.failures = (IF t.required THEN st.failures \cup {x} ELSE st.failures)
        /\ new.listening = st.listening
    BY <1>8, <1>17
  <2> QED
    BY <1>12, <1>17, <2>1
<1>18. CASE new = Raised(Opened(st))
  <2> DEFINE q == Opened(st)
  <2>1. /\ q.outputs = outs /\ q.skipped = st.skipped /\ q.failures = st.failures
        /\ q.ports = st.ports + 1
    BY <1>8
  <2>2. q \in KubeStates(targets)
    BY <1>9
  <2> HIDE DEF q
  <2>3. /\ Raised(q).raised /\ Raised(q).outputs = q.outputs /\ Raised(q).skipped = q.skipped
        /\ Raised(q).failures = q.failures /\ Raised(q).ports = q.ports
    BY <1>8, <2>2
  <2>4. new = Raised(q)
    BY <1>18 DEF q
  <2> QED
    BY <1>11, <2>1, <2>3, <2>4
<1>19. CASE ~st.raised /\ new = Skip(Closed(st), t)
  <2> DEFINE q == Closed(st)
  <2>1. /\ q.outputs = outs /\ q.skipped = st.skipped /\ q.failures = st.failures
        /\ q.ports = st.ports + 1 /\ q.listening = st.listening
    BY <1>8
  <2>2. q \in KubeStates(targets)
    BY <1>9
  <2> HIDE DEF q
  <2>3. /\ Skip(q, t).outputs = q.outputs /\ Skip(q, t).skipped = q.skipped \cup {x}
        /\ Skip(q, t).failures = (IF t.required THEN q.failures \cup {x} ELSE q.failures)
        /\ Skip(q, t).ports = q.ports /\ Skip(q, t).listening = q.listening
    BY <1>8, <2>2
  <2>4. new = Skip(q, t)
    BY <1>19 DEF q
  <2> QED
    BY <1>12, <1>19, <2>1, <2>3, <2>4
<1> QED
  BY <1>13, <1>14, <1>15, <1>16, <1>17, <1>18, <1>19, KubeWays

\* However many targets a node has, run_kube_targets accounts for each: an output
\* with a port and a listener of its own, or a warning, and a failure if required.
THEOREM LoopKept ==
  ASSUME NEW T, NEW targets \in Seq(T), ByName(targets)
  PROVE  LoopInv(RunKubeTargets(targets), targets, Len(targets))
<1>1. PICK r \in [0..Len(targets) -> KubeStates(targets)] :
        /\ r[0] = Untouched
        /\ \A k \in 1..Len(targets) : r[k] = KubeStep(r[k - 1], targets[k])
        /\ RunKubeTargets(targets) = r[Len(targets)]
  BY KubeRuns
<1> DEFINE n == Len(targets)
           S == {k \in 0..n : LoopInv(r[k], targets, k)}
<1>2. n \in Nat
  OBVIOUS
<1>3. 0 \in S
  <2>1. NamesOf(targets, 0) = {} /\ {j \in 1..0 : targets[j].required} = {}
    BY DEF NamesOf
  <2>2. DOMAIN Untouched.outputs = {} /\ Untouched.skipped = {} /\ Untouched.failures = {}
        /\ Untouched.listening = {} /\ ~Untouched.raised
    BY DEF Untouched
  <2>3. LoopInv(Untouched, targets, 0)
    BY <2>1, <2>2 DEF LoopInv
  <2> QED
    BY <1>1, <1>2, <2>3
<1>4. ASSUME NEW k \in 1..n, k - 1 \in S PROVE k \in S
  <2>1. k - 1 \in 0..n /\ k \in 0..n
    BY <1>2
  <2>2. r[k - 1] \in KubeStates(targets) /\ LoopInv(r[k - 1], targets, k - 1)
    BY <1>1, <1>4, <2>1
  <2>3. LoopInv(KubeStep(r[k - 1], targets[k]), targets, k)
    BY <2>2, LoopStep
  <2> QED
    BY <1>1, <2>1, <2>3
<1> HIDE DEF S, n
<1>5. \A k \in 0..n : k \in S
  BY <1>2, <1>3, <1>4, Climb
<1> QED
  BY <1>1, <1>2, <1>5 DEF S, n

\* Any targets, whatever their documents, certificates and files are.
AnyCourse(Names, Docs, Kept, Own, Files) ==
  [name : Names, doc : Docs, cert : Kept, override : Own, fallback : BOOLEAN,
   required : BOOLEAN, refused : BOOLEAN, file : Files]

\* Whatever the two targets of a node are and whatever happens to them, each has
\* an output with a port and a listener of its own or is skipped, and the failures
\* are the required ones that are skipped.
THEOREM TargetsAccounted ==
  ASSUME NEW Names, NEW Docs, NEW Kept, NEW Own, NEW Files,
         NEW targets \in SUBSET AnyCourse(Names, Docs, Kept, Own, Files)
  PROVE  LoopRight(targets)
<1> SUFFICES ASSUME NEW s \in targets, NEW t \in targets
             PROVE  LET pair == <<[s EXCEPT !.name = "s"], [t EXCEPT !.name = "t"]>>
                        got == RunKubeTargets(pair)
                        up == DOMAIN got.outputs
                    IN /\ up \cap got.skipped = {}
                       /\ got.failures = {pair[i].name : i \in {j \in DOMAIN pair : pair[j].required}}
                                           \cap got.skipped
                       /\ Cardinality({got.outputs[n].port : n \in up}) = Cardinality(up)
                       /\ ~got.raised =>
                            /\ up \cup got.skipped = {"s", "t"}
                            /\ got.listening = {got.outputs[n].port : n \in up}
  BY DEF LoopRight
<1> DEFINE a == [s EXCEPT !.name = "s"]
           b == [t EXCEPT !.name = "t"]
           pair == <<a, b>>
           got == RunKubeTargets(pair)
           up == DOMAIN got.outputs
           ports == {got.outputs[n].port : n \in up}
<1>1. a.name = "s" /\ b.name = "t"
  BY DEF AnyCourse
<1> HIDE DEF a, b
<1>2. pair \in Seq({a, b}) /\ Len(pair) = 2 /\ pair[1] = a /\ pair[2] = b /\ DOMAIN pair = 1..2
  OBVIOUS
<1> HIDE DEF pair
<1>3. ByName(pair)
  <2>1. \A i \in 1..Len(pair) : i = 1 \/ i = 2
    BY <1>2
  <2> QED
    BY <1>1, <1>2, <2>1 DEF ByName
<1>4. NamesOf(pair, 2) = {"s", "t"}
  <2>1. 1 \in 1..2 /\ 2 \in 1..2 /\ \A i \in 1..2 : i = 1 \/ i = 2
    OBVIOUS
  <2> QED
    BY <1>1, <1>2, <2>1 DEF NamesOf
<1>5. LoopInv(got, pair, 2)
  BY <1>2, <1>3, LoopKept
<1> HIDE DEF got
<1>6. up \subseteq {"s", "t"} /\ \A m, n \in up : got.outputs[m].port = got.outputs[n].port => m = n
  BY <1>4, <1>5 DEF LoopInv
<1>7. Cardinality(ports) = Cardinality(up)
  <2> DEFINE f == [n \in up |-> got.outputs[n].port]
  <2>1. IsFiniteSet({"s", "t"})
    <3>1. IsFiniteSet({"s"} \cup {"t"})
      BY FS_Singleton, FS_AddElement
    <3>2. {"s", "t"} = {"s"} \cup {"t"}
      OBVIOUS
    <3> QED
      BY <3>1, <3>2
  <2>2. IsFiniteSet(up)
    BY <1>6, <2>1, FS_Subset
  <2>3. f \in Bijection(up, ports)
    <3>1. f \in [up -> ports] /\ \A q \in ports : \E n \in up : f[n] = q
      OBVIOUS
    <3>2. \A m, n \in up : f[m] = f[n] => m = n
      BY <1>6
    <3> HIDE DEF f, ports, up
    <3> QED
      BY <3>1, <3>2 DEF Bijection, Injection, Surjection, IsInjective
  <2> HIDE DEF f, ports, up
  <2>4. ExistsBijection(up, ports)
    BY <2>3 DEF ExistsBijection
  <2> QED
    BY <2>2, <2>4, FS_Bijection
<1>8. /\ up \cap got.skipped = {}
      /\ got.failures = {pair[i].name : i \in {j \in 1..2 : pair[j].required}} \cap got.skipped
      /\ ~got.raised => up \cup got.skipped = {"s", "t"} /\ got.listening = ports
  BY <1>4, <1>5 DEF LoopInv
<1>9. /\ up \cap got.skipped = {}
      /\ got.failures = {pair[i].name : i \in {j \in DOMAIN pair : pair[j].required}} \cap got.skipped
      /\ Cardinality({got.outputs[n].port : n \in up}) = Cardinality(up)
      /\ ~got.raised =>
           /\ up \cup got.skipped = {"s", "t"}
           /\ got.listening = {got.outputs[n].port : n \in up}
  BY <1>2, <1>7, <1>8
<1> QED
  BY <1>9 DEF got, pair, a, b

-----------------------------------------------------------------------------
(* parse_kubeconfig, _resolve_tls and patch_view *)

\* The place of the entry that _find_named finds, 0 if there is none.
First(items, name) == SelectInSeq(items, LAMBDA e : e.name = name)

\* _find_named finds nothing, or the body of one entry of that name.
LEMMA FirstIs ==
  ASSUME NEW E, NEW items \in Seq(E), NEW name
  PROVE  \/ /\ First(items, name) = 0 /\ FindNamed(items, name) = {}
            /\ \A i \in 1..Len(items) : items[i].name # name
         \/ /\ First(items, name) \in 1..Len(items)
            /\ items[First(items, name)].name = name
            /\ FindNamed(items, name) = {items[First(items, name)].body}
<1> DEFINE I == {i \in 1..Len(items) : items[i].name = name}
           f == First(items, name)
<1>1. f = IF I # {} THEN Min(I) ELSE 0
  BY DEF First, SelectInSeq
<1>2. FindNamed(items, name) = {items[i].body : i \in {f} \ {0}}
  BY DEF FindNamed, First
<1>3. I \in SUBSET Nat
  OBVIOUS
<1>4. I # {} => Min(I) \in I
  BY <1>3, MinExists
<1> HIDE DEF f
<1>5. CASE I = {}
  BY <1>1, <1>2, <1>5 DEF f
<1>6. CASE I # {}
  <2>1. f \in I
    BY <1>1, <1>4, <1>6
  <2>2. f \in 1..Len(items) /\ items[f].name = name /\ {f} \ {0} = {f}
    BY <2>1
  <2> QED
    BY <1>2, <2>2 DEF f
<1> QED
  BY <1>5, <1>6

\* The first entry of a name depends on the names alone.
LEMMA FirstByName ==
  ASSUME NEW E, NEW items \in Seq(E), NEW F, NEW others \in Seq(F), NEW name,
         Len(items) = Len(others), \A i \in 1..Len(items) : items[i].name = others[i].name
  PROVE  First(items, name) = First(others, name)
<1>1. {i \in 1..Len(items) : items[i].name = name} = {i \in 1..Len(others) : others[i].name = name}
  OBVIOUS
<1> QED
  BY <1>1 DEF First, SelectInSeq

\* A target alone has an output only if its document has a view and an address
\* and its certificate could be read and gave a name or needs none.
LEMMA OneTarget ==
  ASSUME NEW t, NEW n \in DOMAIN RunKubeTargets(<<t>>).outputs
  PROVE  /\ RunKubeTargets(<<t>>).outputs[n] = OutputOf(t, 1)
         /\ ParseKubeconfig(t.doc) # {} /\ ServersOf(t) # {}
         /\ TlsOf(t).name # Absent \/ TlsOf(t).insecure
         /\ ~(t.override = Absent /\ t.cert = Odd)
<1> DEFINE targets == <<t>>
           end == RunKubeTargets(targets)
<1>1. targets \in Seq({t}) /\ Len(targets) = 1 /\ targets[1] = t
  OBVIOUS
<1> HIDE DEF targets
<1>2. PICK r \in [0..Len(targets) -> KubeStates(targets)] :
        /\ r[0] = Untouched
        /\ \A k \in 1..Len(targets) : r[k] = KubeStep(r[k - 1], targets[k])
        /\ RunKubeTargets(targets) = r[Len(targets)]
  BY <1>1, KubeRuns
<1>3. end = KubeStep(Untouched, t)
  <2>1. 1 \in 1..Len(targets) /\ 1 - 1 = 0
    BY <1>1
  <2> QED
    BY <1>1, <1>2, <2>1
<1>4. n \in DOMAIN end.outputs
  BY DEF targets
<1> HIDE DEF end
<1>5. Untouched.outputs = <<>> /\ Untouched.ports = 0 /\ ~Untouched.raised
  BY DEF Untouched
<1>6. DOMAIN Untouched.outputs = {}
  BY <1>5
<1>7. /\ Raised(Untouched).outputs = <<>> /\ Skip(Untouched, t).outputs = <<>>
      /\ Raised(Opened(Untouched)).outputs = <<>> /\ Skip(Closed(Untouched), t).outputs = <<>>
  BY DEF Raised, Skip, Opened, Closed, Untouched
<1>8. /\ end = Up(Untouched, t)
      /\ ParseKubeconfig(t.doc) # {} /\ ServersOf(t) # {}
      /\ TlsOf(t).name # Absent \/ TlsOf(t).insecure
      /\ ~(t.override = Absent /\ t.cert = Odd)
  <2>1. DOMAIN end.outputs # {}
    BY <1>4
  <2>2. DOMAIN <<>> = {}
    OBVIOUS
  <2> QED
    BY <1>3, <1>5, <1>7, <2>1, <2>2, KubeWays
<1>9. end.outputs[n] = OutputOf(t, 1)
  <2> DEFINE o == OutputOf(t, 0 + 1)
             all == [m \in {} \cup {t.name} |-> IF m = t.name THEN o ELSE Untouched.outputs[m]]
  <2>1. Up(Untouched, t) = [Opened(Untouched) EXCEPT !.outputs = all]
    BY DEF Up, Untouched, Opened
  <2> HIDE DEF o, all
  <2>2. Up(Untouched, t).outputs = all
    BY <2>1 DEF Opened, Untouched
  <2>3. n \in DOMAIN all
    BY <1>4, <1>8, <2>2
  <2>4. all[n] = o
    BY <2>3 DEF all
  <2> QED
    BY <1>8, <2>2, <2>4 DEF o
<1> QED
  BY <1>8, <1>9 DEF targets, end

\* v is what parse_kubeconfig makes of the document.
ViewsTo(doc, v) ==
  /\ doc # Malformed /\ doc.current # Absent
  /\ v = [context |-> doc.current, cluster |-> v.cluster, user |-> v.user,
          body |-> FindNamed(doc.clusters, v.cluster), owner |-> FindNamed(doc.users, v.user)]
  /\ v.cluster # Absent /\ v.user # Absent
  /\ FindNamed(doc.contexts, doc.current) = {[cluster |-> v.cluster, user |-> v.user]}
  /\ v.owner # {} /\ Odd \notin {u.cert : u \in v.owner}
  /\ \E b \in v.body : b.server # Absent /\ b.ca # Odd

\* What can be parsed has such a view ...
LEMMA ViewFound ==
  ASSUME NEW Text, NEW Srv, NEW doc \in Documents(Text, Srv), ParseKubeconfig(doc) # {}
  PROVE  \E v : ViewsTo(doc, v) 
<1> DEFINE found == FindNamed(doc.contexts, doc.current)
           View(x) == [context |-> doc.current, cluster |-> x.cluster, user |-> x.user,
                       body |-> FindNamed(doc.clusters, x.cluster),
                       owner |-> FindNamed(doc.users, x.user)]
<1>1. PICK x \in found : 
        /\ x.cluster # Absent /\ x.user # Absent /\ doc # Malformed /\ doc.current # Absent
        /\ View(x).owner # {} /\ Odd \notin {u.cert : u \in View(x).owner}
        /\ \E b \in View(x).body : b.server # Absent /\ b.ca # Odd
  BY Zenon DEF ParseKubeconfig
<1>2. found = {x} /\ x \in [cluster : Text, user : Text]
  <2>1. doc.contexts \in Seq([name : Text, body : [cluster : Text, user : Text]])
    BY DEF Documents
  <2>2. PICK i \in 1..Len(doc.contexts) : found = {doc.contexts[i].body}
    <3> DEFINE f == First(doc.contexts, doc.current)
    <3>1. f \in 1..Len(doc.contexts) /\ found = {doc.contexts[f].body}
      BY <1>1, <2>1, FirstIs
    <3> HIDE DEF f, found
    <3> QED
      BY <3>1
  <2>3. doc.contexts[i] \in [name : Text, body : [cluster : Text, user : Text]]
    <3> DEFINE E == [name : Text, body : [cluster : Text, user : Text]]
    <3> HIDE DEF E
    <3> QED
      BY <2>1, <2>2, ElementOfSeq DEF E
  <2>4. doc.contexts[i].body \in [cluster : Text, user : Text]
    BY <2>3
  <2> HIDE DEF found
  <2> QED
    BY <1>1, <2>2, <2>4
<1>3. x = [cluster |-> x.cluster, user |-> x.user]
  BY <1>2
<1>4. /\ View(x).cluster = x.cluster /\ View(x).user = x.user
  OBVIOUS
<1>5. ViewsTo(doc, View(x))
  BY <1>1, <1>2, <1>3, <1>4 DEF ViewsTo
<1> HIDE DEF View
<1> QED
  BY <1>5

\* ... and no other.
LEMMA ViewOnly ==
  ASSUME NEW doc, NEW v, ViewsTo(doc, v)
  PROVE  ParseKubeconfig(doc) = {v}
<1> DEFINE x == [cluster |-> v.cluster, user |-> v.user]
           View(y) == [context |-> doc.current, cluster |-> y.cluster, user |-> y.user,
                       body |-> FindNamed(doc.clusters, y.cluster),
                       owner |-> FindNamed(doc.users, y.user)]
<1>1. x.cluster = v.cluster /\ x.user = v.user
  OBVIOUS
<1> HIDE DEF x
<1>2. View(x) = v
  BY <1>1 DEF ViewsTo
<1>3. {y \in FindNamed(doc.contexts, doc.current) : y.cluster # Absent /\ y.user # Absent} = {x}
  BY <1>1 DEF ViewsTo, x
<1>4. {View(y) : y \in {x}} = {v}
  BY <1>2
<1>5. {w \in {v} : /\ doc.current # Absent
                   /\ w.owner # {} /\ Odd \notin {u.cert : u \in w.owner}
                   /\ \E b \in w.body : b.server # Absent /\ b.ca # Odd} = {v}
  BY DEF ViewsTo
<1>6. doc # Malformed
  BY DEF ViewsTo
<1> QED
  BY <1>3, <1>4, <1>5, <1>6 DEF ParseKubeconfig

\* The document with another body in its cluster i.
PatchedAt(doc, new, i, port, tls, D) ==
  /\ new \in D
  /\ new.current = doc.current /\ new.contexts = doc.contexts /\ new.users = doc.users
  /\ new.clusters = [doc.clusters EXCEPT ![i] =
       [name |-> doc.clusters[i].name, body |-> PatchBody(doc.clusters[i].body, port, tls)]]

\* patch_view changes one body.
LEMMA PatchIs ==
  ASSUME NEW Text, Absent \in Text, NEW Srv, NEW doc \in Documents(Text, Srv), NEW view, NEW port,
         LocalServer(port) \in Srv, NEW tls, tls.name \in Text, tls.insecure \in BOOLEAN,
         First(doc.clusters, view.cluster) \in 1..Len(doc.clusters)
  PROVE  PatchedAt(doc, PatchView(doc, view, port, tls), First(doc.clusters, view.cluster),
                   port, tls, Documents(Text, Srv))
<1> DEFINE i == First(doc.clusters, view.cluster)
           c == doc.clusters[i]
           new == PatchView(doc, view, port, tls)
           B == [server : Srv, ca : Text, tls : Text, insecure : BOOLEAN]
           C == [name : Text, body : B]
           l == doc.clusters
           b == c.body
           p == PatchBody(b, port, tls)
           d == [name |-> c.name, body |-> p]
           m == [l EXCEPT ![i] = d]
<1>1. l \in Seq(C) /\ i \in 1..Len(l)
  BY DEF Documents
<1>2. c \in C
  <2> HIDE DEF C, i
  <2> QED
    BY <1>1, ElementOfSeq
<1>3. b \in B
  <2> HIDE DEF c, B
  <2> QED
    BY <1>2
<1>4. p \in B
  <2> HIDE DEF b
  <2> QED
    BY <1>3 DEF PatchBody
<1>5. d \in C /\ d = [c EXCEPT !.body = p]
  <2> HIDE DEF c, B, p
  <2> QED
    BY <1>2, <1>4
<1>6. m \in Seq(C)
  <2> HIDE DEF C, d, i, l
  <2> QED
    BY <1>1, <1>5
<1>7. new = [doc EXCEPT !.clusters[i].body = PatchBody(@, port, tls)]
  BY DEF PatchView, First
<1>8. new = [doc EXCEPT !.clusters = m]
  <2> HIDE DEF i, new
  <2>1. new = [doc EXCEPT !.clusters = [l EXCEPT ![i] = [c EXCEPT !.body = p]]]
    BY <1>7
  <2> HIDE DEF c, l, p, d
  <2> QED
    BY <1>5, <2>1
<1> HIDE DEF m
<1>9. /\ new \in Documents(Text, Srv) /\ new.clusters = m
      /\ new.current = doc.current /\ new.contexts = doc.contexts /\ new.users = doc.users
  BY <1>6, <1>8 DEF Documents
<1> QED
  BY <1>9 DEF PatchedAt, m

\* What the values of the model have to keep apart: a missing key is no value of
\* the wrong type and no address, and bytes that are no mapping are no document.
Distinct(Text, Srv) ==
  /\ Absent \in Text /\ Absent # Odd
  /\ Malformed \notin Documents(Text, Srv)
  /\ \A p \in Nat : LocalServer(p) \in Srv /\ LocalServer(p) # Absent

\* A target with any document, certificate, policy and file.
AnyTarget(Text, Srv, Files) ==
  AnyCourse(Text, Documents(Text, Srv) \cup {Malformed},
            {Malformed, Odd} \cup [dns : Seq(Text \ {Absent}), ip : Seq(Text \ {Absent})],
            Text, Files)

\* The names that a certificate carries.
CertNames(cert) == ToSet(SansFromCert(cert).dns) \cup ToSet(SansFromCert(cert).ip)

\* What _resolve_tls may answer, for a certificate that was read.
Resolves(t, tls, Text) ==
  /\ tls.name \in Text /\ tls.insecure \in BOOLEAN
  /\ tls.insecure => /\ tls.name = Absent /\ t.fallback /\ t.override = Absent
                     /\ CertNames(t.cert) = {}
  /\ tls.name \in IF t.override # Absent THEN {t.override}
                  ELSE IF CertNames(t.cert) # {} THEN CertNames(t.cert) ELSE {Absent}

\* _resolve_tls answers with the override, a name of the certificate, or nothing.
LEMMA TlsResolved ==
  ASSUME NEW Text, Absent \in Text, NEW Srv, NEW Files, NEW t \in AnyTarget(Text, Srv, Files),
         NEW host, ~(t.override = Absent /\ t.cert = Odd)
  PROVE  Resolves(t, ResolveTls(t, host, t.cert), Text)
<1> DEFINE tls == ResolveTls(t, host, t.cert)
<1>1. t.override \in Text /\ t.fallback \in BOOLEAN
  BY DEF AnyTarget, AnyCourse
<1>2. CASE t.override # Absent
  <2>1. tls = [name |-> t.override, insecure |-> FALSE]
    BY <1>2 DEF ResolveTls
  <2>2. tls.name = t.override /\ tls.insecure = FALSE
    BY <2>1
  <2> HIDE DEF tls
  <2>3. Resolves(t, tls, Text)
    BY <1>1, <1>2, <2>2 DEF Resolves
  <2> QED
    BY <2>3 DEF tls
<1>3. CASE t.override = Absent
  <2> DEFINE sans == SansFromCert(t.cert)
             X == Text \ {Absent}
             chosen == ChooseTlsServerName(host, sans)
             names == CertNames(t.cert)
  <2>1. t.cert \in {Malformed} \cup [dns : Seq(X), ip : Seq(X)]
    BY <1>3 DEF AnyTarget, AnyCourse
  <2>2. sans \in [dns : Seq(X), ip : Seq(X)]
    BY <2>1 DEF SansFromCert
  <2>3. names = ToSet(sans.dns) \cup ToSet(sans.ip)
    BY DEF CertNames
  <2> HIDE DEF sans, X
  <2> DEFINE d == sans.dns
             a == sans.ip
  <2>4. d \in Seq(X) /\ a \in Seq(X)
    BY <2>2
  <2>5. chosen = IF host \in names THEN host
                 ELSE IF d # <<>> THEN d[1] ELSE IF a # <<>> THEN a[1] ELSE Absent
    BY <2>3 DEF ChooseTlsServerName
  <2>6. names = ToSet(d) \cup ToSet(a)
    BY <2>3
  <2>7. tls = [name |-> chosen, insecure |-> chosen = Absent /\ t.fallback]
    BY <1>3 DEF ResolveTls, sans
  <2> HIDE DEF d, a, chosen, names, tls
  <2>8. ASSUME NEW s \in Seq(X)
        PROVE  /\ ToSet(s) \subseteq X
               /\ s # <<>> => s[1] \in ToSet(s)
               /\ s = <<>> => ToSet(s) = {}
    <3>1. s # <<>> => 1 \in DOMAIN s
      BY EmptySeq
    <3> QED
      BY <3>1 DEF ToSet
  <2>9. names \subseteq X /\ (names # {} => chosen \in names) /\ (names = {} => chosen = Absent)
    <3>1. ToSet(d) \subseteq X /\ (d # <<>> => d[1] \in ToSet(d)) /\ (d = <<>> => ToSet(d) = {})
      BY <2>4, <2>8
    <3>2. ToSet(a) \subseteq X /\ (a # <<>> => a[1] \in ToSet(a)) /\ (a = <<>> => ToSet(a) = {})
      BY <2>4, <2>8
    <3> QED
      BY <2>5, <2>6, <3>1, <3>2
  <2>10. tls.name = chosen /\ tls.insecure = (chosen = Absent /\ t.fallback)
    BY <2>7
  <2>11. chosen \in Text /\ (chosen = Absent => names = {})
    BY <2>9 DEF X
  <2>12. Resolves(t, tls, Text)
    BY <1>1, <1>3, <2>9, <2>10, <2>11 DEF Resolves, names
  <2> QED
    BY <2>12 DEF tls
<1> QED
  BY <1>2, <1>3

\* What the output of a target has in it: the cluster i that its context uses,
\* and the document before and after.
Rewritten(t, i, body, v, w, out, Text, Srv) ==
  /\ i \in 1..Len(t.doc.clusters) /\ body = t.doc.clusters[i].body
  /\ t.doc.clusters[i].name = v.cluster
  /\ ParseKubeconfig(t.doc) = {v} /\ v.body = {body}
  /\ ParseKubeconfig(out.content) = {w} /\ w.body = {PatchBody(body, out.port, TlsOf(t))}
  /\ w.context = v.context /\ w.cluster = v.cluster /\ w.user = v.user /\ w.owner = v.owner
  /\ body \in [server : Srv, ca : Text, tls : Text, insecure : BOOLEAN]
  /\ out = KubeOutput(t.doc, v, out.port, TlsOf(t))
  /\ out.content \in Documents(Text, Srv) /\ t.doc \in Documents(Text, Srv)
  /\ out.content.current = t.doc.current /\ out.content.contexts = t.doc.contexts
  /\ out.content.users = t.doc.users
  /\ out.content.clusters = [t.doc.clusters EXCEPT ![i] =
        [name |-> v.cluster, body |-> PatchBody(body, out.port, TlsOf(t))]]

\* Every output comes from such a rewriting.
LEMMA Rewrites ==
  ASSUME NEW Text, NEW Srv, Distinct(Text, Srv), NEW Files, NEW t \in AnyTarget(Text, Srv, Files),
         NEW n \in DOMAIN RunKubeTargets(<<t>>).outputs
  PROVE  \E i, body, v, w : Rewritten(t, i, body, v, w, RunKubeTargets(<<t>>).outputs[n], Text, Srv)
<1> DEFINE out == RunKubeTargets(<<t>>).outputs[n]
           doc == t.doc
           D == Documents(Text, Srv)
           B == [server : Srv, ca : Text, tls : Text, insecure : BOOLEAN]
           C == [name : Text, body : B]
           l == doc.clusters
           tls == TlsOf(t)
           v == Viewed(t)
           i == First(l, v.cluster)
           body == l[i].body
           new == PatchBody(body, 1, tls)
           w == [v EXCEPT !.body = {new}]
           content == PatchView(doc, v, 1, tls)
<1>1. /\ out = OutputOf(t, 1) /\ ParseKubeconfig(doc) # {}
      /\ ~(t.override = Absent /\ t.cert = Odd)
  BY OneTarget
<1>2. doc \in D
  <2>1. doc # Malformed
    BY <1>1 DEF ParseKubeconfig
  <2> QED
    BY <2>1 DEF AnyTarget, AnyCourse
<1>3. ViewsTo(doc, v) /\ ParseKubeconfig(doc) = {v}
  <2>1. PICK u : ViewsTo(doc, u)
    BY <1>1, <1>2, ViewFound
  <2>2. ParseKubeconfig(doc) = {u}
    BY <2>1, ViewOnly
  <2>3. v = u
    BY <2>2 DEF Viewed
  <2> QED
    BY <2>1, <2>2, <2>3
<1>4. Resolves(t, tls, Text)
  BY <1>1, TlsResolved DEF TlsOf, Distinct
<1>5. l \in Seq(C)
  BY <1>2 DEF Documents
<1> HIDE DEF out, doc, v, tls, content, D
<1>6. i \in 1..Len(l) /\ l[i].name = v.cluster /\ v.body = {body}
  <2>1. v.body = FindNamed(l, v.cluster) /\ v.body # {}
    BY <1>3 DEF ViewsTo
  <2> HIDE DEF l, C
  <2> QED
    BY <1>5, <2>1, FirstIs
<1>7. l[i] \in C
  <2> HIDE DEF l, i, C
  <2> QED
    BY <1>5, <1>6, ElementOfSeq
<1>8. body \in B
  <2> HIDE DEF l, i, B
  <2> QED
    BY <1>7
<1>9. /\ content \in D
      /\ content.current = doc.current /\ content.contexts = doc.contexts
      /\ content.users = doc.users
      /\ content.clusters = [l EXCEPT ![i] = [name |-> l[i].name, body |-> new]]
  <2>1. Absent \in Text /\ LocalServer(1) \in Srv /\ tls.name \in Text /\ tls.insecure \in BOOLEAN
    BY <1>4 DEF Distinct, Resolves
  <2>2. PatchedAt(doc, content, i, 1, tls, D)
    BY <1>2, <1>6, <2>1, PatchIs DEF content, D
  <2> QED
    BY <2>2 DEF PatchedAt
<1>10. /\ new.server = LocalServer(1) /\ new.ca = (IF tls.insecure THEN Absent ELSE body.ca)
  <2> HIDE DEF body
  <2> QED
    BY <1>8 DEF PatchBody
<1>11. FindNamed(content.clusters, v.cluster) = {new}
  <2> DEFINE m == content.clusters
             e == [name |-> l[i].name, body |-> new]
  <2>1. e.name = l[i].name /\ e.body = new
    OBVIOUS
  <2>2. m \in Seq(C)
    BY <1>9 DEF D, Documents
  <2>3. m = [l EXCEPT ![i] = e]
    BY <1>9
  <2> HIDE DEF l, e, m, C, i, new
  <2>4. Len(m) = Len(l) /\ \A j \in 1..Len(l) : m[j] = IF j = i THEN e ELSE l[j]
    BY <1>5, <1>6, <2>3
  <2>5. \A j \in 1..Len(l) : l[j].name = m[j].name
    BY <2>1, <2>4
  <2>6. First(l, v.cluster) = First(m, v.cluster)
    BY <1>5, <2>2, <2>4, <2>5, FirstByName
  <2>7. First(m, v.cluster) = i
    BY <2>6 DEF i
  <2>8. FindNamed(m, v.cluster) = {m[i].body} \/ i = 0
    BY <2>2, <2>7, FirstIs
  <2> QED
    BY <1>6, <2>1, <2>4, <2>8 DEF m
<1> HIDE DEF l, i, body, new
<1>12. ViewsTo(content, w)
  <2>1. content # Malformed
    BY <1>9 DEF Distinct, D
  <2>2. /\ v = [context |-> doc.current, cluster |-> v.cluster, user |-> v.user,
                body |-> v.body, owner |-> FindNamed(doc.users, v.user)]
        /\ v.owner = FindNamed(doc.users, v.user)
    BY <1>3 DEF ViewsTo
  <2>3. w = [context |-> doc.current, cluster |-> v.cluster, user |-> v.user,
             body |-> {new}, owner |-> FindNamed(doc.users, v.user)]
    BY <2>2
  <2> HIDE DEF w
  <2>4. w.cluster = v.cluster /\ w.user = v.user /\ w.body = {new} /\ w.owner = v.owner
    BY <2>2, <2>3
  <2>5. new.server # Absent /\ new.ca # Odd
    <3>1. LocalServer(1) # Absent /\ Absent # Odd
      BY DEF Distinct
    <3>2. body.ca # Odd
      BY <1>3, <1>6 DEF ViewsTo
    <3> QED
      BY <1>10, <3>1, <3>2
  <2>6. /\ doc.current # Absent /\ v.cluster # Absent /\ v.user # Absent
        /\ FindNamed(doc.contexts, doc.current) = {[cluster |-> v.cluster, user |-> v.user]}
        /\ v.owner # {} /\ Odd \notin {u.cert : u \in v.owner}
    BY <1>3 DEF ViewsTo
  <2>7. w = [context |-> content.current, cluster |-> w.cluster, user |-> w.user,
             body |-> FindNamed(content.clusters, w.cluster), owner |-> FindNamed(content.users, w.user)]
    BY <1>9, <1>11, <2>3, <2>4
  <2>8. \E b \in w.body : b.server # Absent /\ b.ca # Odd
    BY <2>4, <2>5
  <2>9. FindNamed(content.contexts, content.current) = {[cluster |-> w.cluster, user |-> w.user]}
    BY <1>9, <2>4, <2>6
  <2>10. content.current # Absent /\ w.cluster # Absent /\ w.user # Absent
    BY <1>9, <2>4, <2>6
  <2>11. w.owner # {} /\ Odd \notin {u.cert : u \in w.owner}
    BY <2>4, <2>6
  <2> QED
    BY <2>1, <2>7, <2>8, <2>9, <2>10, <2>11, Zenon DEF ViewsTo
<1>13. ParseKubeconfig(content) = {w}
  BY <1>12, ViewOnly
<1>14. out = KubeOutput(doc, v, 1, tls) /\ out.port = 1 /\ out.content = content
  <2>1. out = KubeOutput(doc, v, 1, tls)
    BY <1>1 DEF OutputOf, tls, v, doc
  <2> QED
    BY <2>1 DEF KubeOutput, content
<1>15. /\ w.body = {new} /\ w.context = v.context /\ w.cluster = v.cluster /\ w.user = v.user
       /\ w.owner = v.owner
  <2>1. v = [context |-> doc.current, cluster |-> v.cluster, user |-> v.user,
             body |-> FindNamed(doc.clusters, v.cluster), owner |-> FindNamed(doc.users, v.user)]
    BY <1>3 DEF ViewsTo
  <2> QED
    BY <2>1
<1> HIDE DEF w
<1>16. Rewritten(t, i, body, v, w, out, Text, Srv)
  BY <1>2, <1>3, <1>6, <1>8, <1>9, <1>13, <1>14, <1>15 DEF Rewritten, D, doc, l, body, new, tls
<1> QED
  BY <1>16 DEF out

\* For any document, patch_view leaves one that parse_kubeconfig reads as before,
\* but with the address of the forward, and that has what the fields beside it
\* say; at most one cluster differs, the one that the current context names.
THEOREM PatchesKept ==
  ASSUME NEW Text, NEW Srv, Distinct(Text, Srv), NEW Files,
         NEW targets \in SUBSET AnyTarget(Text, Srv, Files)
  PROVE  PatchRight(targets)
<1> SUFFICES ASSUME NEW t \in targets, NEW n \in DOMAIN RunKubeTargets(<<t>>).outputs
             PROVE  LET out == RunKubeTargets(<<t>>).outputs[n]
                        before == ParseKubeconfig(t.doc)
                        after == ParseKubeconfig(out.content)
                        used == {i \in DOMAIN t.doc.clusters : t.doc.clusters[i] # out.content.clusters[i]}
                    IN /\ Cardinality(after) = 1
                       /\ \A v \in before, w \in after :
                            /\ <<w.context, w.cluster, w.user, w.owner>> = <<v.context, v.cluster, v.user, v.owner>>
                            /\ <<out.context, out.cluster>> = <<v.context, v.cluster>>
                            /\ ClusterOf(w).server = LocalServer(out.port)
                            /\ StringField(ClusterOf(w).ca) = out.ca /\ ClusterOf(w).tls = out.tls
                       /\ Cardinality(used) <= 1 /\ \A i \in used : t.doc.clusters[i].name = out.cluster
                       /\ [out.content EXCEPT !.clusters = <<>>] = [t.doc EXCEPT !.clusters = <<>>]
  BY DEF PatchRight
<1> DEFINE out == RunKubeTargets(<<t>>).outputs[n]
           l == t.doc.clusters
           m == out.content.clusters
           used == {i \in DOMAIN l : l[i] # m[i]}
<1>1. PICK i, body, v, w : Rewritten(t, i, body, v, w, out, Text, Srv)
  BY Rewrites
<1>2. ~(t.override = Absent /\ t.cert = Odd)
  BY OneTarget
<1> HIDE DEF out
<1> DEFINE tls == TlsOf(t)
           new == PatchBody(body, out.port, tls)
<1>3. Resolves(t, tls, Text)
  BY <1>2, TlsResolved DEF TlsOf, Distinct
<1> HIDE DEF tls
<1>4. /\ new.server = LocalServer(out.port) /\ new.ca = (IF tls.insecure THEN Absent ELSE body.ca)
      /\ new.tls = tls.name /\ new.insecure = (body.insecure \/ tls.insecure)
  <2>1. body \in [server : Srv, ca : Text, tls : Text, insecure : BOOLEAN]
    BY <1>1 DEF Rewritten
  <2> QED
    BY <2>1 DEF PatchBody
<1>5. ClusterOf(w) = new /\ ClusterOf(v) = body
  <2>1. v.body = {body}
    BY <1>1 DEF Rewritten
  <2>2. w.body = {new}
    BY <1>1 DEF Rewritten, tls
  <2> QED
    BY <2>1, <2>2 DEF ClusterOf
<1> HIDE DEF new
<1>6. Cardinality(ParseKubeconfig(out.content)) = 1
  <2>1. ParseKubeconfig(out.content) = {w}
    BY <1>1 DEF Rewritten
  <2> QED
    BY <2>1, FS_Singleton
<1>7. /\ out.cluster = v.cluster /\ out.context = v.context
      /\ out.ca = (IF tls.insecure THEN "" ELSE StringField(ClusterOf(v).ca))
      /\ out.tls = (IF tls.insecure THEN Absent ELSE tls.name)
  <2> DEFINE o == KubeOutput(t.doc, v, out.port, tls)
  <2>1. out = o
    BY <1>1 DEF Rewritten, tls
  <2>2. /\ o.cluster = v.cluster /\ o.context = v.context
        /\ o.ca = (IF tls.insecure THEN "" ELSE StringField(ClusterOf(v).ca))
        /\ o.tls = (IF tls.insecure THEN Absent ELSE tls.name)
    BY DEF KubeOutput
  <2> HIDE DEF o
  <2> QED
    BY <2>1, <2>2
<1>9. Cardinality(used) <= 1 /\ \A j \in used : l[j].name = out.cluster
  <2> DEFINE e == [name |-> v.cluster, body |-> new]
  <2>1. m = [l EXCEPT ![i] = e] /\ l[i].name = v.cluster
    BY <1>1 DEF Rewritten, new, tls
  <2> HIDE DEF e, l, m
  <2>2. \A j \in DOMAIN l : j # i => l[j] = m[j]
    BY <2>1
  <2>3. used \subseteq {i}
    BY <2>2
  <2>4. IsFiniteSet({i}) /\ Cardinality({i}) = 1
    BY FS_Singleton
  <2>5. Cardinality(used) <= 1
    BY <2>3, <2>4, FS_Subset
  <2> QED
    BY <1>7, <2>1, <2>3, <2>5
<1>8. [out.content EXCEPT !.clusters = <<>>] = [t.doc EXCEPT !.clusters = <<>>]
  <2> DEFINE c == out.content
             d == t.doc
  <2>1. /\ c \in Documents(Text, Srv) /\ d \in Documents(Text, Srv)
        /\ c.current = d.current /\ c.contexts = d.contexts /\ c.users = d.users
    BY <1>1 DEF Rewritten
  <2> HIDE DEF c, d
  <2>2. [c EXCEPT !.clusters = <<>>] = [d EXCEPT !.clusters = <<>>]
    BY <2>1 DEF Documents
  <2> QED
    BY <2>2 DEF c, d
<1>10. StringField(ClusterOf(w).ca) = out.ca /\ ClusterOf(w).tls = out.tls
  <2>1. tls.insecure \in BOOLEAN /\ (tls.insecure => tls.name = Absent)
    BY <1>3 DEF Resolves
  <2> QED
    BY <1>4, <1>5, <1>7, <2>1 DEF StringField
<1>11. /\ ParseKubeconfig(t.doc) = {v} /\ ParseKubeconfig(out.content) = {w}
       /\ w.context = v.context /\ w.cluster = v.cluster /\ w.user = v.user /\ w.owner = v.owner
  BY <1>1 DEF Rewritten
<1>12. ClusterOf(w).server = LocalServer(out.port)
  BY <1>4, <1>5
<1>13. \A x \in ParseKubeconfig(t.doc), y \in ParseKubeconfig(out.content) : x = v /\ y = w
  BY <1>11
<1>14. \A x \in ParseKubeconfig(t.doc), y \in ParseKubeconfig(out.content) :
         /\ <<y.context, y.cluster, y.user, y.owner>> = <<x.context, x.cluster, x.user, x.owner>>
         /\ <<out.context, out.cluster>> = <<x.context, x.cluster>>
         /\ ClusterOf(y).server = LocalServer(out.port)
         /\ StringField(ClusterOf(y).ca) = out.ca /\ ClusterOf(y).tls = out.tls
  BY <1>7, <1>10, <1>11, <1>12, <1>13
<1> QED
  BY <1>6, <1>8, <1>9, <1>14, Zenon DEF out

\* For any document, certificate and policy, _resolve_tls and patch_view leave a
\* file that skips verification only if the remote file did, or if the target
\* allows it and the certificate has no name; otherwise the file demands a name
\* that the target or the certificate has.
THEOREM VerificationKept ==
  ASSUME NEW Text, NEW Srv, Distinct(Text, Srv), NEW Files,
         NEW targets \in SUBSET AnyTarget(Text, Srv, Files)
  PROVE  TlsRight(targets)
<1> SUFFICES ASSUME NEW t \in targets, NEW n \in DOMAIN RunKubeTargets(<<t>>).outputs
             PROVE  LET out == RunKubeTargets(<<t>>).outputs[n]
                        v == CHOOSE v \in ParseKubeconfig(t.doc) : TRUE
                        w == CHOOSE w \in ParseKubeconfig(out.content) : TRUE
                        sans == SansFromCert(t.cert)
                        names == ToSet(sans.dns) \cup ToSet(sans.ip)
                    IN /\ ClusterOf(w).insecure =>
                            \/ ClusterOf(v).insecure
                            \/ t.fallback /\ t.override = Absent /\ names = {}
                       /\ out.tls \in IF t.override # Absent THEN {t.override}
                                      ELSE IF names # {} THEN names ELSE {Absent}
                       /\ out.tls = Absent => ClusterOf(w).insecure /\ out.ca = ""
  BY DEF TlsRight
<1> DEFINE out == RunKubeTargets(<<t>>).outputs[n]
           x == CHOOSE v \in ParseKubeconfig(t.doc) : TRUE
           y == CHOOSE w \in ParseKubeconfig(out.content) : TRUE
           names == CertNames(t.cert)
           tls == TlsOf(t)
<1>1. PICK i, body, v, w : Rewritten(t, i, body, v, w, out, Text, Srv)
  BY Rewrites
<1>2. ~(t.override = Absent /\ t.cert = Odd) /\ (tls.name # Absent \/ tls.insecure)
  BY OneTarget
<1> HIDE DEF out
<1> DEFINE new == PatchBody(body, out.port, tls)
<1>3. Resolves(t, tls, Text)
  BY <1>2, TlsResolved DEF TlsOf, Distinct
<1> HIDE DEF tls
<1>4. x = v /\ y = w
  BY <1>1 DEF Rewritten
<1>5. new.insecure = (body.insecure \/ tls.insecure)
  <2>1. body \in [server : Srv, ca : Text, tls : Text, insecure : BOOLEAN]
    BY <1>1 DEF Rewritten
  <2> QED
    BY <2>1 DEF PatchBody
<1>6. ClusterOf(w) = new /\ ClusterOf(v) = body
  <2>1. v.body = {body} /\ w.body = {new}
    BY <1>1 DEF Rewritten, tls
  <2> QED
    BY <2>1 DEF ClusterOf
<1> HIDE DEF new, x, y
<1>7. /\ out.ca = (IF tls.insecure THEN "" ELSE StringField(ClusterOf(v).ca))
      /\ out.tls = (IF tls.insecure THEN Absent ELSE tls.name)
  <2> DEFINE o == KubeOutput(t.doc, v, out.port, tls)
  <2>1. out = o
    BY <1>1 DEF Rewritten, tls
  <2>2. /\ o.ca = (IF tls.insecure THEN "" ELSE StringField(ClusterOf(v).ca))
        /\ o.tls = (IF tls.insecure THEN Absent ELSE tls.name)
    BY DEF KubeOutput
  <2> HIDE DEF o
  <2> QED
    BY <2>1, <2>2
<1>8. /\ tls.insecure \in BOOLEAN
      /\ tls.insecure => tls.name = Absent /\ t.fallback /\ t.override = Absent /\ names = {}
      /\ tls.name \in IF t.override # Absent THEN {t.override}
                      ELSE IF names # {} THEN names ELSE {Absent}
  BY <1>3 DEF Resolves
<1>9. out.tls = tls.name
  BY <1>7, <1>8
<1> HIDE DEF names
<1>10. /\ ClusterOf(y).insecure =>
            \/ ClusterOf(x).insecure
            \/ t.fallback /\ t.override = Absent /\ names = {}
       /\ out.tls \in IF t.override # Absent THEN {t.override}
                      ELSE IF names # {} THEN names ELSE {Absent}
       /\ out.tls = Absent => ClusterOf(y).insecure /\ out.ca = ""
  <2>1. ClusterOf(y).insecure = (ClusterOf(x).insecure \/ tls.insecure)
    BY <1>4, <1>5, <1>6
  <2>2. out.tls = Absent => tls.insecure
    BY <1>2, <1>9
  <2>3. tls.insecure => out.ca = ""
    BY <1>7
  <2> QED
    BY <1>8, <1>9, <2>1, <2>2, <2>3
<1> QED
  BY <1>10, Zenon DEF out, x, y, names, CertNames

-----------------------------------------------------------------------------
(* The theorems that a run checks for some inputs *)

\* Every document of the instance is one, or no mapping at all.
LEMMA KubeconfigsTyped ==
  Kubeconfigs \subseteq Documents(Texts, Servers \cup LocalServers) \cup {Malformed}
<1> DEFINE S == Servers \cup LocalServers
           B == [server : S, ca : Texts, tls : Texts, insecure : BOOLEAN]
           C == [name : Texts, body : B]
           X == [cluster : Texts, user : Texts]
           D == Documents(Texts, S)
<1>1. /\ Absent \in Texts /\ Odd \in Texts /\ "x" \in Texts /\ "y" \in Texts /\ "c" \in Texts
      /\ "d" \in Texts /\ "u" \in Texts /\ "ca" \in Texts /\ "second" \in Texts
      /\ "cert" \in Texts /\ "old" \in Texts
  BY DEF Texts
<1>2. Good \in S /\ Servers \subseteq S
  BY DEF Servers
<1> HIDE DEF S
<1>3. Body \in B
  BY <1>1, <1>2 DEF Body
<1>4. Clusters \subseteq B
  <2> DEFINE Old(c, i) == [Body EXCEPT !.ca = c, !.tls = "old", !.insecure = i]
             At(s) == [Body EXCEPT !.server = s]
  <2>1. ASSUME NEW s \in Servers PROVE At(s) \in B
    BY <1>2, <1>3
  <2>2. ASSUME NEW c \in {Absent, Odd, "ca"}, NEW i \in BOOLEAN PROVE Old(c, i) \in B
    <3>1. c \in Texts
      BY <1>1
    <3> QED
      BY <1>1, <1>3, <3>1
  <2>3. Clusters = {Body} \cup {At(s) : s \in Servers}
                     \cup {Old(c, i) : c \in {Absent, Odd, "ca"}, i \in BOOLEAN}
    BY DEF Clusters
  <2> HIDE DEF B, Old, At
  <2> QED
    BY <1>3, <2>1, <2>2, <2>3
<1>5. ASSUME NEW a \in Texts, NEW b \in B PROVE Named(a, b) \in C
  BY DEF Named
<1>6. ASSUME NEW b \in B, NEW l \in ClusterLists(b) PROVE l \in Seq(C)
  <2> DEFINE one == Named("c", b)
             other == Named("d", [Body EXCEPT !.tls = "d"])
             second == Named("c", [Body EXCEPT !.ca = "second"])
  <2>1. [Body EXCEPT !.tls = "d"] \in B /\ [Body EXCEPT !.ca = "second"] \in B
    BY <1>1, <1>3
  <2>2. one \in C /\ other \in C /\ second \in C
    <3> HIDE DEF B, C
    <3> QED
      BY <1>1, <1>5, <2>1
  <2>3. l \in {<<one>>, <<other, one>>, <<one, second>>}
    BY <1>6 DEF ClusterLists
  <2> HIDE DEF one, other, second, C
  <2>4. <<one>> \in Seq(C) /\ <<other, one>> \in Seq(C) /\ <<one, second>> \in Seq(C)
    BY <2>2
  <2> QED
    BY <2>3, <2>4
<1> DEFINE ctx == Named("x", [cluster |-> "c", user |-> "u"])
           usr == Named("u", [cert |-> "cert"])
           cls == Named("c", Body)
           XN == [name : Texts, body : X]
           UN == [name : Texts, body : [cert : Texts]]
<1>7. ctx \in XN /\ usr \in UN /\ cls \in C
  BY <1>1, <1>3 DEF Named
<1>8. Kubeconfig = [current |-> "x", contexts |-> <<ctx>>, clusters |-> <<cls>>, users |-> <<usr>>]
  BY DEF Kubeconfig
<1>9. D = [current : Texts, contexts : Seq(XN), clusters : Seq(C), users : Seq(UN)]
  BY DEF Documents
<1>10. ASSUME NEW e \in XN, NEW f \in XN PROVE <<e>> \in Seq(XN) /\ <<e>> \o <<f>> \in Seq(XN)
  <2> HIDE DEF XN
  <2> QED
    OBVIOUS
<1>11. ASSUME NEW e \in UN PROVE <<e>> \in Seq(UN)
  <2> HIDE DEF UN
  <2> QED
    OBVIOUS
<1>12. <<>> \in Seq(UN) /\ <<cls>> \in Seq(C)
  <2> HIDE DEF UN, C, cls
  <2> QED
    BY <1>7
<1>13. <<ctx>> \in Seq(XN) /\ <<usr>> \in Seq(UN)
  BY <1>7, <1>10, <1>11
<1>14. ASSUME NEW l \in Seq(C) PROVE [Kubeconfig EXCEPT !.clusters = l] \in D
  <2> HIDE DEF C, XN, UN, ctx, usr, cls, D
  <2> QED
    BY <1>1, <1>8, <1>9, <1>13
<1>15. ASSUME NEW c \in {Absent, "y"} PROVE [Kubeconfig EXCEPT !.current = c] \in D
  <2> HIDE DEF C, XN, UN, ctx, usr, cls, D
  <2> QED
    BY <1>1, <1>8, <1>9, <1>12, <1>13
<1>16. ASSUME NEW l \in Seq(XN) PROVE [Kubeconfig EXCEPT !.contexts = l] \in D
  <2> HIDE DEF C, XN, UN, ctx, usr, cls, D
  <2> QED
    BY <1>1, <1>8, <1>9, <1>12, <1>13
<1>17. ASSUME NEW l \in Seq(UN) PROVE [Kubeconfig EXCEPT !.users = l] \in D
  <2> HIDE DEF C, XN, UN, ctx, usr, cls, D
  <2> QED
    BY <1>1, <1>8, <1>9, <1>12, <1>13
<1>18. [Kubeconfig EXCEPT !.contexts = <<Named("y", [cluster |-> "d", user |-> "u"])>> \o @] \in D
  <2> DEFINE e == Named("y", [cluster |-> "d", user |-> "u"])
  <2>1. e \in XN
    BY <1>1 DEF Named
  <2>2. Kubeconfig.contexts = <<ctx>>
    BY <1>8
  <2> HIDE DEF e, ctx, XN, D
  <2>3. <<e>> \o <<ctx>> \in Seq(XN)
    BY <1>7, <1>10, <2>1
  <2>4. [Kubeconfig EXCEPT !.contexts = <<e>> \o @] = [Kubeconfig EXCEPT !.contexts = <<e>> \o <<ctx>>]
    BY <2>2
  <2>5. [Kubeconfig EXCEPT !.contexts = <<e>> \o <<ctx>>] \in D
    BY <1>16, <2>3
  <2> QED
    BY <2>4, <2>5 DEF e
<1>19. [Kubeconfig EXCEPT !.contexts[1].body.user = Absent] \in D
  <2> DEFINE e == [ctx EXCEPT !.body.user = Absent]
  <2>1. e \in XN
    BY <1>1 DEF Named
  <2>2. [Kubeconfig EXCEPT !.contexts[1].body.user = Absent] = [Kubeconfig EXCEPT !.contexts = <<e>>]
    BY <1>8 DEF Named
  <2> HIDE DEF e, XN, D
  <2> QED
    BY <1>10, <1>16, <2>1, <2>2
<1>20. [Kubeconfig EXCEPT !.contexts[1].body.cluster = "d"] \in D
  <2> DEFINE e == [ctx EXCEPT !.body.cluster = "d"]
  <2>1. e \in XN
    BY <1>1 DEF Named
  <2>2. [Kubeconfig EXCEPT !.contexts[1].body.cluster = "d"] = [Kubeconfig EXCEPT !.contexts = <<e>>]
    BY <1>8 DEF Named
  <2> HIDE DEF e, XN, D
  <2> QED
    BY <1>10, <1>16, <2>1, <2>2
<1>21. ASSUME NEW c \in {Odd, Absent} PROVE [Kubeconfig EXCEPT !.users[1].body.cert = c] \in D
  <2> DEFINE e == [usr EXCEPT !.body.cert = c]
  <2>1. e \in UN
    BY <1>1 DEF Named
  <2>2. [Kubeconfig EXCEPT !.users[1].body.cert = c] = [Kubeconfig EXCEPT !.users = <<e>>]
    BY <1>8 DEF Named
  <2> HIDE DEF e, UN, D
  <2> QED
    BY <1>11, <1>17, <2>1, <2>2
<1>22. ASSUME NEW b \in Clusters, NEW l \in ClusterLists(b)
       PROVE  [Kubeconfig EXCEPT !.clusters = l] \in D
  <2> HIDE DEF D, B, C
  <2> QED
    BY <1>4, <1>6, <1>14
<1>23. [Kubeconfig EXCEPT !.users = <<>>] \in D
  <2> HIDE DEF D, UN
  <2> QED
    BY <1>12, <1>17
<1> HIDE DEF D
<1>24. ASSUME NEW d \in Kubeconfigs PROVE d \in D \cup {Malformed}
  <2> DEFINE y == [Kubeconfig EXCEPT !.contexts = <<Named("y", [cluster |-> "d", user |-> "u"])>> \o @]
             u == [Kubeconfig EXCEPT !.contexts[1].body.user = Absent]
             c == [Kubeconfig EXCEPT !.contexts[1].body.cluster = "d"]
             n == [Kubeconfig EXCEPT !.users = <<>>]
  <2>1. \/ \E b \in Clusters : \E l \in ClusterLists(b) : d = [Kubeconfig EXCEPT !.clusters = l]
        \/ \E x \in {Absent, "y"} : d = [Kubeconfig EXCEPT !.current = x]
        \/ \E x \in {Odd, Absent} : d = [Kubeconfig EXCEPT !.users[1].body.cert = x]
        \/ d \in {Malformed, y, u, c, n}
    BY DEF Kubeconfigs
  <2>2. y \in D /\ u \in D /\ c \in D /\ n \in D
    BY <1>18, <1>19, <1>20, <1>23
  <2> HIDE DEF y, u, c, n
  <2> QED
    BY <1>15, <1>21, <1>22, <2>1, <2>2
<1> QED
  BY <1>24 DEF D, S

\* The values of the instance are as far apart as the theorems demand.
LEMMA InstanceDistinct == Distinct(Texts, Servers \cup LocalServers)
<1>1. \A p \in Nat : LocalServer(p) \in LocalServers
  BY DEF LocalServer, LocalServers
<1> QED
  BY <1>1, KubeAssumption DEF Distinct, Texts

\* Its targets are among those that the theorems speak of.
LEMMA TargetsTyped ==
  Targets \subseteq AnyTarget(Texts, Servers \cup LocalServers,
                              {[stat |-> 1, size |-> 1, fails |-> "nothing"]})
<1> DEFINE D == Documents(Texts, Servers \cup LocalServers) \cup {Malformed}
           X == Texts \ {Absent}
           N == [dns : Seq(X), ip : Seq(X)]
           K == {Malformed, Odd} \cup N
           F == {[stat |-> 1, size |-> 1, fails |-> "nothing"]}
<1>1. "alt" \in X /\ "api" \in X /\ "10" \in X
  BY KubeAssumption DEF Texts
<1>2. Kubeconfigs \subseteq D
  BY KubeconfigsTyped
<1>3. Certs \subseteq K
  <2> HIDE DEF X
  <2>1. /\ <<>> \in Seq(X) /\ <<"alt", "api">> \in Seq(X) /\ <<"alt">> \in Seq(X) /\ <<"10">> \in Seq(X)
    BY <1>1
  <2>2. /\ [dns |-> <<>>, ip |-> <<>>] \in N /\ [dns |-> <<"alt", "api">>, ip |-> <<>>] \in N
        /\ [dns |-> <<"alt">>, ip |-> <<"10">>] \in N /\ [dns |-> <<>>, ip |-> <<"10">>] \in N
    BY <2>1
  <2> HIDE DEF N
  <2> QED
    BY <2>2 DEF Certs
<1>4. {Absent, "own"} \subseteq Texts /\ {"k"} \subseteq Texts
  BY DEF Texts
<1>5. Targets = [name : {"k"}, doc : Kubeconfigs, cert : Certs, override : {Absent, "own"},
                 fallback : BOOLEAN, required : {TRUE}, refused : {FALSE}, file : F]
  BY DEF Targets
<1>6. AnyTarget(Texts, Servers \cup LocalServers, F) = AnyCourse(Texts, D, K, Texts, F)
  BY DEF AnyTarget
<1> DEFINE Own == {Absent, "own"}
           Names == {"k"}
<1> HIDE DEF D, K, F, Own, Names
<1>7. ASSUME NEW t \in Targets PROVE t \in AnyCourse(Texts, D, K, Texts, F)
  BY <1>2, <1>3, <1>4, <1>5 DEF AnyCourse, Own, Names
<1> QED
  BY <1>6, <1>7 DEF F

\* open_local_forwards and close_transport do what ForwardsRight says for any
\* number of targets, those of the run among them.
THEOREM ForwardsAlwaysOpened == Spec => []ForwardsOpening
<1>1. ForwardsOpening
  <2>1. \A n \in 0..4 : n \in Nat
    OBVIOUS
  <2> QED
    BY <2>1, ForwardsOpened DEF ForwardsOpening
<1> QED
  BY <1>1, PTL

\* fetch_files reads what FetchRight says, whatever the sizes are around the cap.
THEOREM FilesAlwaysFetched == Spec => []FileFetching
<1> DEFINE E == {"nothing", "OSError", "SFTPError"}
           R == [stat : Nat \cup {Absent}, size : Nat, fails : E]
<1>1. RemoteFiles \subseteq R
  <2>1. \A k \in 0..(Cap + 1) : k \in Nat
    BY FetcherAssumption
  <2>2. \A k \in 0..(Cap + 2) : k \in Nat
    BY FetcherAssumption
  <2> QED
    BY <2>1, <2>2 DEF RemoteFiles
<1> HIDE DEF E
<1>2. FetchRight(RemoteFiles)
  BY <1>1, FilesFetched
<1>3. FileFetching
  BY <1>2 DEF FileFetching
<1> QED
  BY <1>3, PTL

\* run_kube_targets accounts for each target of a node: see LoopRight.
THEOREM TargetsAlwaysAccounted == Spec => []KubeAccounting
<1> DEFINE Docs == {Kubeconfig, Malformed, [Kubeconfig EXCEPT !.clusters[1].body.server.scheme = "http"]}
           Kept == {Malformed, Odd, [dns |-> <<"api">>, ip |-> <<>>]}
           Files == {[stat |-> 1, size |-> Cap, fails |-> "nothing"],
                     [stat |-> 1, size |-> Cap + 1, fails |-> "nothing"],
                     [stat |-> 1, size |-> 1, fails |-> "SFTPError"]}
<1>1. Courses = AnyCourse({"k"}, Docs, Kept, {Absent}, Files)
  BY DEF Courses, AnyCourse
<1> DEFINE Names == {"k"}
           Own == {Absent}
<1> HIDE DEF Docs, Kept, Files, Names, Own
<1>2. Courses \in SUBSET AnyCourse(Names, Docs, Kept, Own, Files)
  BY <1>1 DEF Names, Own
<1>3. LoopRight(Courses)
  BY <1>2, TargetsAccounted
<1>4. KubeAccounting
  BY <1>3 DEF KubeAccounting
<1> QED
  BY <1>4, PTL

\* A patched kubeconfig leads where its fields say: see PatchRight.
THEOREM PatchesAlwaysKept == Spec => []KubePatching
<1> DEFINE F == {[stat |-> 1, size |-> 1, fails |-> "nothing"]}
           A == AnyTarget(Texts, Servers \cup LocalServers, F)
<1>1. Targets \in SUBSET A
  BY TargetsTyped
<1> HIDE DEF F
<1>2. PatchRight(Targets)
  BY <1>1, InstanceDistinct, PatchesKept
<1>3. KubePatching
  BY <1>2 DEF KubePatching
<1> QED
  BY <1>3, PTL

\* A kubeconfig does not lose its TLS verification: see TlsRight.
THEOREM VerificationAlwaysKept == Spec => []KubeTls
<1> DEFINE F == {[stat |-> 1, size |-> 1, fails |-> "nothing"]}
           A == AnyTarget(Texts, Servers \cup LocalServers, F)
<1>1. Targets \in SUBSET A
  BY TargetsTyped
<1> HIDE DEF F
<1>2. TlsRight(Targets)
  BY <1>1, InstanceDistinct, VerificationKept
<1>3. KubeTls
  BY <1>2 DEF KubeTls
<1> QED
  BY <1>3, PTL
=============================================================================
