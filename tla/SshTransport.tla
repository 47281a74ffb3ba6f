----------------------------- MODULE SshTransport -----------------------------
(***************************************************************************)
(* The listeners of a node's forwards: open_local_forwards, all of them or *)
(* none, and close_transport, which goes on whatever one close does.       *)
(*                                                                         *)
(* A listener is numbered by its target.  Closing it goes well, raises     *)
(* late, in wait_closed, or raises at once and leaves it listening.        *)
(***************************************************************************)
EXTENDS Naturals, Sequences, SequencesExt

\* Mutant: the first error ends the loop.
CloseTransportFirst(listeners, close) ==
  LET errors == {i \in DOMAIN listeners : close[listeners[i]] # "closes"}
  IN {listeners[i] : i \in {j \in DOMAIN listeners :
        (\E e \in errors : e < j) \/ close[listeners[j]] = "stays"}}

\* close_transport: the listeners that are still there after one attempt each.
CloseTransport(listeners, close) == {l \in ToSet(listeners) : close[l] = "stays"}

\* One forward: it listens and answers the probe, it is refused, or nobody
\* answers there.
OpenForward(state, outcome) ==
  LET l == state.tried + 1
  IN IF state.failed THEN state
     ELSE [tried |-> l,
           listeners |-> IF outcome = "refused" THEN state.listeners ELSE Append(state.listeners, l),
           ports |-> IF outcome = "answers" THEN state.ports \cup {l} ELSE state.ports,
           failed |-> outcome # "answers"]

\* open_local_forwards: the ports and what listens, or the error after what
\* was opened has been closed.
OpenLocalForwards(outcomes, close) ==
  LET end == FoldLeft(OpenForward,
                      [tried |-> 0, listeners |-> <<>>, ports |-> {}, failed |-> FALSE],
                      outcomes)
  IN IF end.failed THEN [ports |-> {}, listening |-> CloseTransport(end.listeners, close), failed |-> TRUE]
     ELSE [ports |-> end.ports, listening |-> ToSet(end.listeners), failed |-> FALSE]

\* Either every target has a port with a listener behind it, or the node is
\* told of a failure and no listener is left that could be closed, although
\* closing the others may have raised.
ForwardsRight(n) ==
  \A outcomes \in [1..n -> {"answers", "refused", "deaf"}],
     close \in [1..n -> {"closes", "late", "stays"}] :
    LET got == OpenLocalForwards(outcomes, close)
    IN /\ got.failed = \E i \in 1..n : outcomes[i] # "answers"
       /\ ~got.failed => got.ports = 1..n /\ got.listening = 1..n
       /\ got.failed => \A l \in got.listening : close[l] = "stays"
=============================================================================
