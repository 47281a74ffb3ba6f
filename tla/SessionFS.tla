------------------------------ MODULE SessionFS ------------------------------
(***************************************************************************)
(* The kernel objects behind one supplied --session-dir: the file named    *)
(* session.lock with its flock, and the tunnel-data/ slot.  Every process  *)
(* of tunstrap that uses the directory (workers, stop, status, run) acts   *)
(* on this state, each system call being one indivisible step.             *)
(*                                                                         *)
(* A lock file is an inode: unlinking the name does not touch the inode,   *)
(* which lives on while a descriptor is open on it.  That difference is    *)
(* what the session lock's races are about, so names and inodes are kept   *)
(* apart.  A process has at most one descriptor on a lock file, and a      *)
(* process identifier is the process itself.                               *)
(***************************************************************************)
EXTENDS Naturals, FiniteSets

CONSTANTS
  Procs,    \* the processes that use the session directory, i.e. their pids
  Inodes,   \* inodes a lock file can be created on
  None      \* no inode, no process, an empty file

\* None is a value of its own.
ASSUME FSAssumption ==
  /\ None \notin Procs
  /\ None \notin Inodes

VARIABLES
  lockFile,  \* the inode linked at <session_dir>/session.lock, or None
  recorded,  \* recorded[i]: the pid written in inode i, or None when it is empty
  flocked,   \* flocked[i]: the process holding the exclusive flock of i, or None
  fd,        \* fd[p]: the inode p has open, or None
  slot,      \* <session_dir>/tunnel-data: nothing, a directory of ours, or a
             \* symlink, plain file or foreign directory
  pidFile,   \* the pid in tunnel-data/daemon.pid, or None
  secrets    \* the processes with materialized kubeconfigs in tunnel-data

lockVars == <<lockFile, recorded, flocked, fd>>
dataVars == <<slot, pidFile, secrets>>
fsVars   == <<lockVars, dataVars>>

FSTypeOK ==
  /\ lockFile \in Inodes \cup {None}
  /\ recorded \in [Inodes -> Procs \cup {None}]
  /\ flocked \in [Inodes -> Procs \cup {None}]
  /\ fd \in [Procs -> Inodes \cup {None}]
  /\ slot \in {"absent", "dir", "unsafe"}
  /\ pidFile \in Procs \cup {None}
  /\ secrets \subseteq Procs

\* A directory never used before, or one whose tunnel-data name is taken by
\* something tunstrap must refuse.
FSInit ==
  /\ lockFile = None
  /\ recorded = [i \in Inodes |-> None]
  /\ flocked = [i \in Inodes |-> None]
  /\ fd = [p \in Procs |-> None]
  /\ slot \in {"absent", "unsafe"}
  /\ pidFile = None
  /\ secrets = {}

-----------------------------------------------------------------------------
(* session.lock *)

FreeInodes == {i \in Inodes : i # lockFile /\ \A p \in Procs : fd[p] # i}

\* open(O_CREAT | O_RDWR): the inode the name leads to, or a fresh empty one.
OpenCreate(p) ==
  \/ /\ lockFile # None
     /\ fd' = [fd EXCEPT ![p] = lockFile]
     /\ UNCHANGED <<lockFile, recorded, flocked>>
  \/ /\ lockFile = None
     /\ \E i \in FreeInodes :
          /\ lockFile' = i
          /\ fd' = [fd EXCEPT ![p] = i]
          /\ recorded' = [recorded EXCEPT ![i] = None]
     /\ UNCHANGED flocked

\* open(O_RDONLY): fails when the name is gone.
OpenExisting(p) ==
  /\ lockFile # None
  /\ fd' = [fd EXCEPT ![p] = lockFile]
  /\ UNCHANGED <<lockFile, recorded, flocked>>

Contended(p) == flocked[fd[p]] # None

\* flock(LOCK_EX | LOCK_NB) on an inode nobody holds.
Flock(p) ==
  /\ ~Contended(p)
  /\ flocked' = [flocked EXCEPT ![fd[p]] = p]
  /\ UNCHANGED <<lockFile, recorded, fd>>

\* ftruncate, or truncate and write, through p's descriptor.
WriteLock(p, content) ==
  /\ recorded' = [recorded EXCEPT ![fd[p]] = content]
  /\ UNCHANGED <<lockFile, flocked, fd>>

\* The name goes, whatever inode it leads to; ENOENT is ignored.
UnlinkName ==
  /\ lockFile' = None
  /\ UNCHANGED <<recorded, flocked, fd>>

\* close, by the process or by the kernel at its death, drops its flock.
CloseLockFd(p) ==
  /\ fd' = [fd EXCEPT ![p] = None]
  /\ flocked' = [i \in Inodes |-> IF flocked[i] = p THEN None ELSE flocked[i]]
  /\ UNCHANGED <<lockFile, recorded>>

-----------------------------------------------------------------------------
(* tunnel-data: shutil.rmtree removes the entries it lists, then the       *)
(* directory itself, and another process can act between the two.          *)

Empty == pidFile = None /\ secrets = {}

RemoveEntries ==
  /\ pidFile' = None
  /\ secrets' = {}
  /\ UNCHANGED slot

CanRemoveDir == slot = "dir" /\ Empty

RemoveDir ==
  /\ slot' = "absent"
  /\ UNCHANGED <<pidFile, secrets>>

\* rmtree(ignore_errors=True): a slot that is not a directory stays.
WipeEntries ==
  IF slot = "dir" THEN RemoveEntries ELSE UNCHANGED dataVars

WipeDir ==
  IF CanRemoveDir THEN RemoveDir ELSE UNCHANGED dataVars
=============================================================================
