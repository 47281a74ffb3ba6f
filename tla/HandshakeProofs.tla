--------------------------- MODULE HandshakeProofs ---------------------------
(***************************************************************************)
(* Proofs about Handshake for pipes, schemas and messages of every size    *)
(* and for a kill of either process between any two system calls, and about*)
(* the text that goes in before it and comes out after it (TextProofs).    *)
(***************************************************************************)
EXTENDS MCHandshake, TextProofs

-----------------------------------------------------------------------------
(* The invariant *)

\* The schema is in three places, and nothing of it is lost or doubled.
SchemaInv == received + stdin + unsent = schema

\* While the parent lives it has no answer, and there is no worker before the
\* fork nor an unborn one after it.
ParentInv ==
  /\ got \in Nat
  /\ Reader => answer = None
  /\ ppc = "fork" => wpc = "unborn"
  /\ ppc \in {"write", "read"} => wpc # "unborn"

\* A worker has a message from the time it reports, and only one.
MessageInv ==
  /\ wpc \in {"unborn", "create", "identity", "read", "manager"} => message = None
  /\ wpc \in {"report", "serving", "cleanup"} => message # None

Committed == message # None /\ sent = Size[message]

\* A live worker closes its end under a reading parent only after the whole
\* message is in the pipe.
CloseInv == Reader /\ ~ipcOpen => wpc \in {"unborn", "gone"} \/ Committed

\* The inductive invariant.
IInv == TypeOK /\ SchemaInv /\ ParentInv /\ MessageInv /\ CloseInv /\ WholeSchema

-----------------------------------------------------------------------------
(* Every step keeps it *)

\* The invariant holds at the start.
LEMMA IInvInit == Init => IInv
<1> SUFFICES ASSUME Init PROVE IInv
  OBVIOUS
<1>1. TypeOK
  <2>1. schema \in 1..SchemaBound /\ unsent \in 0..schema /\ received \in 0..schema
    BY HandshakeAssumption DEF Init
  <2>2. ownEnd \in BOOLEAN /\ feeding \in BOOLEAN /\ ipcOpen \in BOOLEAN /\ held \in BOOLEAN
    BY DEF Init
  <2> QED
    BY <2>1, <2>2, HandshakeAssumption DEF Init, TypeOK
<1>2. SchemaInv /\ ParentInv
  BY DEF Init, SchemaInv, ParentInv
<1>3. MessageInv /\ CloseInv /\ WholeSchema
  BY HandshakeAssumption DEF Init, MessageInv, CloseInv, WholeSchema, Kinds
<1> QED
  BY <1>1, <1>2, <1>3 DEF IInv

\* The steps of spawn_daemon keep it.
LEMMA ParentKeeps ==
  ASSUME IInv, ParentStep \/ ParentKilled
  PROVE  IInv'
<1> USE HandshakeAssumption DEF IInv, TypeOK, SchemaInv, ParentInv, MessageInv,
        CloseInv, Committed, WholeSchema, Reader, workerVars
<1>1. CASE Fork
  BY <1>1 DEF Fork
<1>2. CASE ForkFails
  BY <1>2 DEF ForkFails
<1>3. CASE WriteSchema
  BY <1>3 DEF WriteSchema
<1>4. CASE EndSchema
  BY <1>4 DEF EndSchema
<1>5. CASE ReadChunk
  BY <1>5 DEF ReadChunk
<1>6. CASE ReadEnd
  BY <1>6 DEF ReadEnd, EndOfMessage
<1>7. CASE ParentKilled
  BY <1>7 DEF ParentKilled
<1> QED
  BY <1>1, <1>2, <1>3, <1>4, <1>5, <1>6, <1>7 DEF ParentStep

\* The steps of the worker keep it.
LEMMA WorkerKeeps ==
  ASSUME IInv, WorkerStep \/ RunManager \/ ServeEnds \/ WorkerKilled
  PROVE  IInv'
<1> USE HandshakeAssumption DEF IInv, TypeOK, SchemaInv, ParentInv, MessageInv,
        CloseInv, Committed, WholeSchema, Reader, Report, Gone, Guarded, Kinds, parentVars
<1>1. CASE Create
  <2>1. CASE wpc' = "identity" /\ held' = TRUE /\ UNCHANGED message
    BY <1>1, <2>1 DEF Create
  <2>2. ASSUME NEW kind \in Guarded, Report(kind), UNCHANGED held
        PROVE  IInv'
    BY <1>1, <2>2 DEF Create
  <2> QED
    BY <1>1, <2>1, <2>2 DEF Create
<1>2. CASE WriteIdentity
  <2>1. CASE wpc' = "read" /\ UNCHANGED <<message, held>>
    BY <1>2, <2>1 DEF WriteIdentity
  <2>2. CASE Report("daemon_error") /\ held' = FALSE
    <3>1. TypeOK'
      <4>1. held' \in BOOLEAN
        BY <2>2
      <4> QED
        BY <1>2, <4>1, <2>2 DEF WriteIdentity
    <3>2. SchemaInv' /\ ParentInv' /\ MessageInv' /\ CloseInv' /\ WholeSchema'
      BY <1>2, <2>2 DEF WriteIdentity
    <3> QED
      BY <3>1, <3>2
  <2> QED
    BY <1>2, <2>1, <2>2 DEF WriteIdentity
<1>3. CASE ReadSchema
  BY <1>3 DEF ReadSchema
<1>4. CASE SchemaRead
  BY <1>4 DEF SchemaRead
<1>5. CASE RunManager
  BY <1>5 DEF RunManager
<1>6. CASE WriteMessage
  BY <1>6 DEF WriteMessage
<1>7. CASE Reported
  BY <1>7 DEF Reported
<1>8. CASE ReportBroken \/ Cleanup \/ WorkerKilled
  BY <1>8 DEF ReportBroken, Cleanup, WorkerKilled
<1>9. CASE ServeEnds
  BY <1>9 DEF ServeEnds
<1> QED
  BY <1>1, <1>2, <1>3, <1>4, <1>5, <1>6, <1>7, <1>8, <1>9 DEF WorkerStep

\* Every step keeps the invariant.
LEMMA IInvStep == IInv /\ [Next]_vars => IInv'
<1>1. IInv /\ UNCHANGED vars => IInv'
  BY DEF IInv, TypeOK, SchemaInv, ParentInv, MessageInv, CloseInv, Committed,
         WholeSchema, Reader, vars, parentVars, workerVars
<1> QED
  BY <1>1, ParentKeeps, WorkerKeeps DEF Next, Over

\* The invariant holds throughout.
LEMMA InvariantHolds == Spec => []IInv
  BY IInvInit, IInvStep, PTL DEF Spec

-----------------------------------------------------------------------------
(* Results *)

\* Neither pipe ever holds more than its capacity, no more of a schema is read
\* than was written, and while the parent reads, what the worker of daemon.py's
\* spawn has written is what was read and what is in the pipe.
THEOREM TypeCorrect == Spec => []TypeOK
<1>1. IInv => TypeOK
  BY DEF IInv
<1> QED
  BY <1>1, InvariantHolds, PTL

\* A worker acts only on a whole schema within the limit, wherever its parent
\* dies in _write_schema.
THEOREM SchemaWhole == Spec => []WholeSchema
<1>1. IInv => WholeSchema
  BY DEF IInv
<1> QED
  BY <1>1, InvariantHolds, PTL

-----------------------------------------------------------------------------
(* The pipes implement the contract *)

verdictNow == IF Committed THEN message ELSE None
workerNow  == IF wpc \in {"unborn", "gone"} THEN wpc ELSE "running"

\* What the parent's steps look like to the caller: the fork starts the worker,
\* and the end of _read_ipc_response tells its verdict.
LEMMA ParentMaps ==
  ASSUME IInv, ParentStep \/ ParentKilled
  PROVE  [Contract!Next]_<<verdictNow, workerNow, answer>>
<1> USE HandshakeAssumption DEF IInv, ParentInv, MessageInv, Reader, workerVars,
        verdictNow, workerNow, Committed
<1>1. CASE Fork
  <2>1. Contract!Start
    BY <1>1 DEF Fork, Contract!Start
  <2> QED
    BY <2>1 DEF Contract!Next
<1>2. CASE ForkFails
  <2>1. Contract!Tell
    BY <1>2 DEF ForkFails, Contract!Tell
  <2> QED
    BY <2>1 DEF Contract!Next
<1>3. CASE ReadEnd
  <2>1. got = sent
    BY <1>3 DEF ReadEnd, EndOfMessage, TypeOK
  <2>2. Contract!Tell
    BY <1>3, <2>1 DEF ReadEnd, EndOfMessage, CloseInv, Contract!Tell
  <2> QED
    BY <2>2 DEF Contract!Next
<1>4. CASE WriteSchema \/ EndSchema \/ ReadChunk \/ ParentKilled
  BY <1>4 DEF WriteSchema, EndSchema, ReadChunk, ParentKilled
<1> QED
  BY <1>1, <1>2, <1>3, <1>4 DEF ParentStep

\* What the worker's steps look like: the last chunk of the message commits it,
\* and its death ends it, whatever of a message was written.
LEMMA WorkerMaps ==
  ASSUME IInv, WorkerStep \/ RunManager \/ ServeEnds \/ WorkerKilled
  PROVE  [Contract!Next]_<<verdictNow, workerNow, answer>>
<1> USE HandshakeAssumption DEF IInv, MessageInv, TypeOK, parentVars,
        verdictNow, workerNow, Committed
<1>1. CASE Create \/ WriteIdentity \/ SchemaRead \/ RunManager
  BY <1>1 DEF Create, WriteIdentity, SchemaRead, RunManager, Report, Guarded, Kinds
<1>2. CASE ReadSchema \/ ServeEnds
  BY <1>2 DEF ReadSchema, ServeEnds
<1>3. CASE WriteMessage
  <2>1. CASE sent' = Size[message]
    <3>1. Contract!Commit
      BY <1>3, <2>1 DEF WriteMessage, Contract!Commit
    <3> QED
      BY <3>1 DEF Contract!Next
  <2>2. CASE sent' # Size[message]
    BY <1>3, <2>2 DEF WriteMessage
  <2> QED
    BY <2>1, <2>2
<1>4. CASE wpc \notin {"unborn", "gone"} /\ Gone
  <2>1. Contract!End
    BY <1>4 DEF Gone, Contract!End
  <2> QED
    BY <2>1 DEF Contract!Next
<1>5. CASE Reported
  <2>1. CASE wpc' = "gone"
    <3>1. Contract!End
      BY <1>5, <2>1 DEF Reported, Contract!End
    <3> QED
      BY <3>1 DEF Contract!Next
  <2>2. CASE wpc' # "gone"
    BY <1>5, <2>2 DEF Reported
  <2> QED
    BY <2>1, <2>2
<1> QED
  BY <1>1, <1>2, <1>3, <1>4, <1>5 DEF WorkerStep, ReportBroken, Cleanup, WorkerKilled

\* The caller of spawn_daemon is told the verdict the worker committed to and no
\* other, and "no verdict" only when there is no worker any more; a message cut
\* short by a kill is never taken for one.
THEOREM Refinement == Spec => MeetsHandshake
<1>1. Init => Contract!Init
  BY DEF Init, Contract!Init
<1>2. IInv /\ [Next]_vars => [Contract!Next]_<<verdictNow, workerNow, answer>>
  <2>1. UNCHANGED vars => UNCHANGED <<verdictNow, workerNow, answer>>
    BY DEF vars, parentVars, workerVars, verdictNow, workerNow, Committed
  <2> QED
    BY <2>1, ParentMaps, WorkerMaps DEF Next, Over
<1> QED
  BY <1>1, <1>2, InvariantHolds, PTL
     DEF Spec, MeetsHandshake, Contract!Spec, verdictNow, workerNow, Committed

-----------------------------------------------------------------------------
(* The input before the handshake and the output after it *)

\* The texts of a run are texts of the theorems of TextProofs.
LEMMA TextsAre ==
  ASSUME NEW alphabet, NEW n \in Nat
  PROVE  Texts(alphabet, n) \in SUBSET Seq(alphabet)
<1> SUFFICES ASSUME NEW k \in 0..n, NEW t \in [1..k -> alphabet] PROVE t \in Seq(alphabet)
  BY DEF Texts
<1>1. k \in Nat
  OBVIOUS
<1> QED
  BY <1>1, SeqDef

\* What the user writes is what the schema says: parse_endpoint,
\* _parse_host_port and parse_named (EndpointsDialled, NamesKept).
THEOREM InputParsed == Spec => []InputParsing
<1>1. InputParsing
  BY TextsAre, EndpointsDialled, NamesKept DEF InputParsing
<1> QED
  BY <1>1, PTL

\* What the schema says is what a child or a shell finds: render_env and
\* format_exports (EnvKept, ExportsKept).
THEOREM EnvRendered == Spec => []EnvRendering
<1>1. EnvRendering
  BY TextsAre, EnvKept, ExportsKept DEF EnvRendering
<1> QED
  BY <1>1, PTL

\* Two kube targets never share a file (FilesApart).
THEOREM FilesNamed == Spec => []FileNaming
<1>1. FileNaming
  BY TextsAre, FilesApart DEF FileNaming
<1> QED
  BY <1>1, PTL
=============================================================================
