----------------------------- MODULE MCRunCommand -----------------------------
(***************************************************************************)
(* TLC instances of RunCommand: one input for each way of judging it.      *)
(***************************************************************************)
EXTENDS RunCommand

CONSTANT w1

\* The one start or run command of the instance.
MCChildOf == [c \in Teardowns |-> w1]

\* a@b --target a=b:7 -- CMD
Flags ==
  [connection |-> <<"a", "@", "b">>, key |-> "none", password |-> FALSE, agent |-> TRUE,
   targets |-> <<<<"a", "=", "b", ":", "7">>>>, kube |-> <<>>, fetch |-> <<>>,
   stdin |-> "blank", idle |-> "none", dashes |-> TRUE]

\* A kube target of the same name: both have an ENDPOINT variable.
Colliding == [Flags EXCEPT !.kube = <<<<"a", "=", "/">>>>]

RunInputs ==
  {Flags, Colliding,
   [Flags EXCEPT !.dashes = FALSE],
   [Colliding EXCEPT !.dashes = FALSE],
   [Flags EXCEPT !.connection = <<"a">>],
   [Flags EXCEPT !.idle = "zero"],
   [Flags EXCEPT !.connection = <<>>, !.targets = <<>>, !.stdin = "schema", !.dashes = FALSE]}
=============================================================================
