----------------------------- MODULE MCSessionCli -----------------------------
(***************************************************************************)
(* TLC instances of SessionCli.  Inodes are interchangeable, and workers   *)
(* too where the constants treat them alike.                               *)
(***************************************************************************)
EXTENDS SessionCli, TLC

CONSTANTS w1, w2, i1

\* The run command of an instance, if there is one, has spawned w2.
MCChildOf == [c \in Teardowns |-> w2]

InodeSymmetry == Permutations(Inodes)
FullSymmetry == Permutations(Inodes) \cup Permutations(Workers)

\* Where the liveness run starts: w1 has come and gone, w2 has opened the lock
\* file, and w3 is still to start.  Either w1 failed before it opened anything,
\* and the file is the one w2 has made; or w1 has served a session and released
\* the lock between the open and the flock of w2, from where w2 and w3 can come
\* to serve at once.
LiveInit ==
  \E released1 \in BOOLEAN :
    /\ pc = [w \in Workers |-> IF w = w1 THEN "exited"
                              ELSE IF w = w2 THEN "flock" ELSE "idle"]
    /\ rc = [w \in Workers |-> IF w # w1 THEN "none" ELSE IF released1 THEN "ok" ELSE "failed"]
    /\ lockFile = (IF released1 THEN None ELSE i1)
    /\ recorded = [i \in Inodes |-> IF released1 /\ i = i1 THEN w1 ELSE None]
    /\ flocked = [i \in Inodes |-> None]
    /\ fd = [p \in Procs |-> IF p = w2 THEN i1 ELSE None]
    /\ slot \in (IF released1 THEN {"absent"} ELSE {"absent", "unsafe"})
    /\ pidFile = None
    /\ secrets = {}
    /\ announced = (IF released1 THEN {w1} ELSE {})
    /\ released = released1
    /\ orphaned = {} /\ materialized = {} /\ leftover = FALSE
    /\ cpc = [c \in Clis |-> "read"]
    /\ target = [c \in Clis |-> None]
    /\ forcing = [c \in Clis |-> FALSE]
    /\ report = [c \in Clis |-> "none"]
    /\ reused = {} /\ reaped = {} /\ struck = {}

LiveSpec == LiveInit /\ [][CliNext]_allVars /\ CliFairness
=============================================================================
