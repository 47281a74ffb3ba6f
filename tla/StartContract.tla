---------------------------- MODULE StartContract ----------------------------
(***************************************************************************)
(* What starting the tunnels of a schema promises, without nodes failing   *)
(* half-way, concurrency or teardown: once, either an output that has      *)
(* every required node, with every other node either connected or warned   *)
(* about; or an error when a required node failed; or an exception.        *)
(***************************************************************************)
CONSTANTS Nodes, Required

VARIABLES result, connections, warnings

Init == result = "none" /\ connections = {} /\ warnings = {}

\* OutputSchema: the nodes that came up are listed, the others warned about.
Deliver(up) ==
  /\ Required \subseteq up
  /\ result' = "output"
  /\ connections' = up
  /\ warnings' = Nodes \ up

\* ErrorOutput: some required node did not come up.
Refuse ==
  /\ Required # {}
  /\ result' = "error_output"
  /\ UNCHANGED <<connections, warnings>>

\* An exception that is no node's failure.
Fail ==
  /\ result' = "exception"
  /\ UNCHANGED <<connections, warnings>>

Next ==
  /\ result = "none"
  /\ (\E up \in SUBSET Nodes : Deliver(up)) \/ Refuse \/ Fail

Spec == Init /\ [][Next]_<<result, connections, warnings>>
=============================================================================
