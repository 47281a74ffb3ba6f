-------------------------- MODULE HandshakeContract --------------------------
(***************************************************************************)
(* What spawn_daemon promises its caller, without pipes: the worker may    *)
(* commit to one verdict, and the caller is told that verdict, or that     *)
(* there is none.  The latter is said only of a worker that is not there.  *)
(***************************************************************************)
CONSTANTS
  Kinds,  \* the verdicts: the kinds of an IPC message
  None    \* no verdict, or no answer yet

VARIABLES
  verdict,  \* the verdict the worker has committed to, or None
  worker,   \* "unborn", "running" or "gone"
  answer    \* what the caller was told: a verdict, "no_verdict" or None

Init == verdict = None /\ worker = "unborn" /\ answer = None

Start ==
  /\ worker = "unborn" /\ answer = None
  /\ worker' = "running"
  /\ UNCHANGED <<verdict, answer>>

Commit ==
  /\ worker = "running" /\ verdict = None
  /\ verdict' \in Kinds
  /\ UNCHANGED <<worker, answer>>

End ==
  /\ worker = "running"
  /\ worker' = "gone"
  /\ UNCHANGED <<verdict, answer>>

Tell ==
  /\ answer = None
  /\ \/ verdict # None /\ answer' = verdict
     \/ verdict = None /\ worker # "running" /\ answer' = "no_verdict"
  /\ UNCHANGED <<verdict, worker>>

Next == Start \/ Commit \/ End \/ Tell

Spec == Init /\ [][Next]_<<verdict, worker, answer>>
=============================================================================
