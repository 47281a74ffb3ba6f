-------------------------- MODULE IdleWatchdogProofs --------------------------
(***************************************************************************)
(* Proofs about IdleWatchdog for every timeout, every lag of the loop and  *)
(* every finite set of tracked connections.                                *)
(***************************************************************************)
EXTENDS IdleWatchdog, FiniteSetTheorems, TLAPS

-----------------------------------------------------------------------------
(* The invariant *)

\* A connection is open exactly when its own tracker is in the state "opened",
\* so a hook that is called again finds a tracker that ignores it.
TrackInv == \A c \in Conns : c \in open <=> tracker[c] = "opened"

\* The timestamp the code keeps is that of the last real event.
ClockInv == age = quiet

\* The sleep in progress began with readiness or with a poll that found the
\* last event less than the timeout old.
SleepInv ==
  phase = "serving" /\ open = {} => age < Timeout + slept \/ up <= slept

IInv == TypeOK /\ TrackInv /\ CountIsOpen /\ ClockInv /\ SleepInv

-----------------------------------------------------------------------------
(* Facts about the constants and about counting *)

\* The poll interval, the timeout and the cap are positive.
LEMMA Durations ==
  /\ Timeout \in Nat /\ Timeout > 0
  /\ Poll \in Nat /\ Poll > 0
  /\ Cap \in Nat /\ Cap = Timeout + Poll + Lag
  BY IdleAssumption DEF Timeout, Poll, Cap

\* A clock that saturates goes up by at most one.
LEMMA OlderStep ==
  ASSUME NEW t \in 0 .. Cap
  PROVE  Older(t) \in 0 .. Cap /\ Older(t) <= t + 1
  BY Durations DEF Older

\* The open connections are finitely many, so that they can be counted.
LEMMA OpenFinite ==
  ASSUME TypeOK
  PROVE  IsFiniteSet(open) /\ Cardinality(open) \in Nat
  BY IdleAssumption, FS_Subset, FS_CardinalityType DEF TypeOK

\* An idle aggregate means that no tracked connection is open.
LEMMA IdleIsEmpty ==
  ASSUME TypeOK, CountIsOpen
  PROVE  is_idle <=> open = {}
  BY OpenFinite, FS_EmptySet DEF CountIsOpen, is_idle

-----------------------------------------------------------------------------
(* Steps *)

\* A new connection is counted once.
LEMMA AcceptStep ==
  ASSUME IInv, NEW c \in Conns, Accept(c)
  PROVE  IInv'
<1>1. tracker' = [tracker EXCEPT ![c] = "opened"] /\ active' = active + 1 /\ age' = 0
  BY DEF Accept, ConnectionMade
<1>2. Cardinality(open') = Cardinality(open) + 1
  BY OpenFinite, FS_AddElement DEF IInv, Accept
<1>3. TypeOK'
  BY <1>1, Durations DEF IInv, TypeOK, Accept
<1>4. TrackInv' /\ ClockInv' /\ SleepInv'
  BY <1>1 DEF IInv, TypeOK, TrackInv, ClockInv, SleepInv, Accept
<1>5. CountIsOpen'
  BY <1>1, <1>2 DEF IInv, CountIsOpen
<1> QED
  BY <1>3, <1>4, <1>5 DEF IInv

\* A connection that ends was counted, so the clamp is not needed.
LEMMA CloseStep ==
  ASSUME IInv, NEW c \in Conns, Close(c)
  PROVE  IInv'
<1>1. Cardinality(open') = Cardinality(open) - 1
  BY OpenFinite, FS_RemoveElement DEF IInv, Close
<1>2. open # {} /\ active # 0
  BY OpenFinite, FS_EmptySet DEF IInv, CountIsOpen, Close
<1>3. tracker' = [tracker EXCEPT ![c] = "closed"] /\ active' = active - 1 /\ age' = 0
  BY <1>2 DEF IInv, TrackInv, Close, ConnectionLost
<1>4. TypeOK'
  BY <1>2, <1>3, Durations DEF IInv, TypeOK, Close
<1>5. TrackInv' /\ ClockInv' /\ SleepInv'
  BY <1>3, Durations DEF IInv, TypeOK, TrackInv, ClockInv, SleepInv, Close
<1>6. CountIsOpen'
  BY <1>1, <1>3 DEF IInv, CountIsOpen
<1> QED
  BY <1>4, <1>5, <1>6 DEF IInv

\* The hook that comes once too often changes nothing.
LEMMA RepeatStep ==
  ASSUME IInv, NEW c \in Conns, RepeatHook(c)
  PROVE  UNCHANGED vars
  BY DEF IInv, TrackInv, RepeatHook, ConnectionMade, ConnectionLost, vars

\* Time passes for the code's clock and for the real one alike.
LEMMA TickStep ==
  ASSUME IInv, Tick
  PROVE  IInv'
<1>1. TypeOK'
  BY OlderStep, Durations, IdleAssumption DEF IInv, TypeOK, Tick
<1>2. TrackInv' /\ CountIsOpen' /\ ClockInv'
  BY DEF IInv, TrackInv, CountIsOpen, ClockInv, Tick
<1>3. SleepInv'
  <2> SUFFICES ASSUME phase = "serving", open = {}
               PROVE  age' < Timeout + slept' \/ up' <= slept'
    BY DEF SleepInv, Tick
  <2>1. age' <= age + 1 /\ up' <= up + 1 /\ slept' = slept + 1
    BY OlderStep DEF IInv, TypeOK, Tick
  <2>2. age < Timeout + slept \/ up <= slept
    BY DEF IInv, SleepInv
  <2> QED
    BY <2>1, <2>2, <1>1, Durations, IdleAssumption DEF IInv, TypeOK
<1> QED
  BY <1>1, <1>2, <1>3 DEF IInv

\* The watchdog goes back to sleep only over a recent event or a busy daemon.
LEMMA PollSleepStep ==
  ASSUME IInv, PollSleep
  PROVE  IInv'
<1>1. TypeOK'
  BY Durations, IdleAssumption DEF IInv, TypeOK, PollSleep
<1>2. TrackInv' /\ CountIsOpen' /\ ClockInv'
  BY DEF IInv, TrackInv, CountIsOpen, ClockInv, PollSleep
<1>3. open = {} => age < Timeout
  BY IdleIsEmpty, Durations DEF IInv, TypeOK, PollSleep
<1>4. SleepInv'
  BY <1>3, Durations DEF IInv, TypeOK, SleepInv, PollSleep
<1> QED
  BY <1>1, <1>2, <1>4 DEF IInv

\* The invariant holds at the start.
LEMMA IInvInit == Init => IInv
  BY Durations, IdleAssumption, FS_EmptySet
     DEF Init, IInv, TypeOK, TrackInv, CountIsOpen, ClockInv, SleepInv

\* Every step keeps the invariant.
LEMMA IInvStep == IInv /\ [Next]_vars => IInv'
<1> SUFFICES ASSUME IInv, [Next]_vars PROVE IInv'
  OBVIOUS
<1>1. CASE UNCHANGED vars
  BY <1>1 DEF IInv, TypeOK, TrackInv, CountIsOpen, ClockInv, SleepInv, vars
<1>2. ASSUME NEW c \in Conns, Accept(c) PROVE IInv'
  BY <1>2, AcceptStep
<1>3. ASSUME NEW c \in Conns, Close(c) PROVE IInv'
  BY <1>3, CloseStep
<1>4. ASSUME NEW c \in Conns, RepeatHook(c) PROVE IInv'
  BY <1>4, <1>1, RepeatStep
<1>5. ASSUME NEW c \in Conns, Forget(c) PROVE IInv'
  BY <1>5 DEF IInv, TypeOK, TrackInv, CountIsOpen, ClockInv, SleepInv, Forget
<1>6. ASSUME NEW c \in KubeConns, KubeToggle(c) PROVE IInv'
  BY <1>6 DEF IInv, TypeOK, TrackInv, CountIsOpen, ClockInv, SleepInv, KubeToggle
<1>7. CASE Ready
  BY <1>7, Durations, IdleAssumption
     DEF IInv, TypeOK, TrackInv, CountIsOpen, ClockInv, SleepInv, Ready
<1>8. CASE PollStop \/ Sigterm
  BY <1>8 DEF IInv, TypeOK, TrackInv, CountIsOpen, ClockInv, SleepInv, PollStop, Sigterm
<1>9. CASE PollSleep
  BY <1>9, PollSleepStep
<1>10. CASE Tick
  BY <1>10, TickStep
<1>11. CASE Stopped
  BY <1>11, <1>1 DEF Stopped
<1> QED
  BY <1>1, <1>2, <1>3, <1>4, <1>5, <1>6, <1>7, <1>8, <1>9, <1>10, <1>11 DEF Next

\* The invariant holds throughout.
LEMMA InvariantHolds == Spec => []IInv
  BY IInvInit, IInvStep, PTL DEF Spec

-----------------------------------------------------------------------------
(* Results *)

\* Every variable keeps its type: the clocks of activity.py and the watchdog stay
\* within their caps, and the active count never goes below zero.
THEOREM TypeCorrect == Spec => []TypeOK
<1>1. IInv => TypeOK
  BY DEF IInv
<1> QED
  BY <1>1, InvariantHolds, PTL

\* The aggregate of activity.py counts the open connections exactly, however
\* often asyncssh calls the hooks; the clamp at zero never acts.
THEOREM CountExact == Spec => []CountIsOpen
<1>1. IInv => CountIsOpen
  BY DEF IInv
<1> QED
  BY <1>1, InvariantHolds, PTL

\* The watchdog never stops a daemon with an open tracked connection, nor one
\* whose last client came or went less than the timeout ago.
THEOREM NeverEarly == Spec => NeverStopsBusy
<1>1. IInv /\ [Next]_vars =>
        [phase' = "idle_stop" /\ phase # "idle_stop" => open = {} /\ quiet >= Timeout]_vars
  <2> SUFFICES ASSUME IInv, [Next]_vars, phase' = "idle_stop", phase # "idle_stop"
               PROVE  open = {} /\ quiet >= Timeout
    OBVIOUS
  <2>1. PollStop
    BY DEF Next, Accept, Close, RepeatHook, Forget, KubeToggle, Ready, PollSleep,
           Sigterm, Tick, Stopped, vars
  <2> QED
    BY <2>1, IdleIsEmpty DEF IInv, ClockInv, PollStop
<1> QED
  BY <1>1, InvariantHolds, PTL DEF Spec, NeverStopsBusy

\* A daemon without a tracked connection is stopped within the timeout, one
\* poll interval and the lag of its last event or of becoming ready.
THEOREM InTime == Spec => []StopsInTime
<1>1. IInv => StopsInTime
  BY Durations, IdleAssumption DEF IInv, TypeOK, ClockInv, SleepInv, StopsInTime
<1> QED
  BY <1>1, InvariantHolds, PTL
=============================================================================
