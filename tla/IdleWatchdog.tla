----------------------------- MODULE IdleWatchdog -----------------------------
(***************************************************************************)
(* Idle auto-stop: the per-connection trackers and their aggregate         *)
(* (activity.py), the watchdog coroutine that polls it (_worker.py), and   *)
(* the connections through the forwards, which come and go at any time.    *)
(*                                                                         *)
(* Time is counted in quarters of a second, the grain of the poll interval *)
(* max(1, timeout / 4).  Clocks are ages and countdowns, which saturate    *)
(* where the code can no longer tell values apart, so behaviours have no   *)
(* horizon.                                                                *)
(***************************************************************************)
EXTENDS Naturals, FiniteSets

CONSTANTS
  TimeoutSeconds,  \* daemon.auto_stop_idle_seconds, at least 1
  Lag,             \* how many quarters late the loop may resume a sleeper
  Conns,           \* connections through remote_target forwards
  KubeConns        \* connections through kube_target forwards

ASSUME IdleAssumption ==
  /\ TimeoutSeconds \in Nat \ {0}
  /\ Lag \in Nat
  /\ IsFiniteSet(Conns)

Timeout == 4 * TimeoutSeconds

\* poll_interval = max(1.0, timeout_seconds / 4).
Poll == IF TimeoutSeconds < 4 THEN 4 ELSE TimeoutSeconds

Cap == Timeout + Poll + Lag

VARIABLES
  phase,     \* "starting", "serving", "idle_stop" or "signalled"
  tracker,   \* tracker[c]: c's _IdleConnectionTracker: none yet, opened, closed
  active,    \* ActivityTracker._active_count
  age,       \* quarters since _last_activity_at, up to Cap
  slept,     \* quarters since the watchdog went to sleep
  up,        \* quarters since the daemon reported ready, up to Cap
  open,      \* the connections in Conns that are open
  quiet,     \* quarters since one of them opened or closed, up to Cap
  kubeOpen   \* the connections in KubeConns that are open

vars == <<phase, tracker, active, age, slept, up, open, quiet, kubeOpen>>

TypeOK ==
  /\ phase \in {"starting", "serving", "idle_stop", "signalled"}
  /\ tracker \in [Conns -> {"none", "opened", "closed"}]
  /\ active \in Nat
  /\ age \in 0 .. Cap
  /\ slept \in 0 .. (Poll + Lag)
  /\ up \in 0 .. Cap
  /\ open \subseteq Conns
  /\ quiet \in 0 .. Cap
  /\ kubeOpen \subseteq KubeConns

\* TunnelManager.__init__ makes the ActivityTracker, before any node starts.
Init ==
  /\ phase = "starting"
  /\ tracker = [c \in Conns |-> "none"]
  /\ active = 0
  /\ age = 0
  /\ slept = 0
  /\ up = 0
  /\ open = {}
  /\ quiet = 0
  /\ kubeOpen = {}

Running == phase \in {"starting", "serving"}

Older(t) == IF t < Cap THEN t + 1 ELSE t

-----------------------------------------------------------------------------
(* activity.py *)

\* Mutant: connection_made counts every call.
ConnectionMadeAlways(c) ==
  /\ tracker' = [tracker EXCEPT ![c] = "opened"]
  /\ active' = active + 1
  /\ age' = 0

\* _IdleConnectionTracker.connection_made and note_connection_made.
ConnectionMade(c) ==
  IF tracker[c] = "none"
    THEN /\ tracker' = [tracker EXCEPT ![c] = "opened"]
         /\ active' = active + 1
         /\ age' = 0
    ELSE UNCHANGED <<tracker, active, age>>

\* Mutant: connection_lost counts every call and does not clamp.
ConnectionLostUnclamped(c) ==
  /\ tracker' = [tracker EXCEPT ![c] = "closed"]
  /\ active' = active - 1
  /\ age' = 0

\* _IdleConnectionTracker.connection_lost and note_connection_lost, which
\* clamps at zero.
ConnectionLost(c) ==
  IF tracker[c] = "opened"
    THEN /\ tracker' = [tracker EXCEPT ![c] = "closed"]
         /\ active' = IF active = 0 THEN 0 ELSE active - 1
         /\ age' = 0
    ELSE UNCHANGED <<tracker, active, age>>

is_idle == active = 0

-----------------------------------------------------------------------------
(* Connections *)

\* A client connects; asyncssh makes a tracker with the factory and calls it.
Accept(c) ==
  /\ Running /\ c \notin open /\ tracker[c] = "none"
  /\ open' = open \cup {c}
  /\ quiet' = 0
  /\ ConnectionMade(c)
  /\ UNCHANGED <<phase, slept, up, kubeOpen>>

\* The connection ends, cleanly or not.
Close(c) ==
  /\ Running /\ c \in open
  /\ open' = open \ {c}
  /\ quiet' = 0
  /\ ConnectionLost(c)
  /\ UNCHANGED <<phase, slept, up, kubeOpen>>

\* asyncssh calls a hook once more, or connection_lost of one never made.
RepeatHook(c) ==
  /\ Running
  /\ \/ c \in open /\ ConnectionMade(c)
     \/ c \notin open /\ ConnectionLost(c)
  /\ UNCHANGED <<phase, slept, up, open, quiet, kubeOpen>>

\* The tracker object is dropped; the next client gets a fresh one.
Forget(c) ==
  /\ tracker[c] = "closed"
  /\ tracker' = [tracker EXCEPT ![c] = "none"]
  /\ UNCHANGED <<phase, active, age, slept, up, open, quiet, kubeOpen>>

\* run_kube_targets opens its forwards without a tracker_factory.
KubeToggle(c) ==
  /\ Running
  /\ kubeOpen' = IF c \in kubeOpen THEN kubeOpen \ {c} ELSE kubeOpen \cup {c}
  /\ UNCHANGED <<phase, tracker, active, age, slept, up, open, quiet>>

-----------------------------------------------------------------------------
(* The daemon *)

\* The output is reported, and _run creates the watchdog task.
Ready ==
  /\ phase = "starting"
  /\ phase' = "serving"
  /\ slept' = 0
  /\ up' = 0
  /\ UNCHANGED <<tracker, active, age, open, quiet, kubeOpen>>

Expired == slept >= Poll

\* Mutant: the timestamp alone decides.
PollStopBusy ==
  /\ phase = "serving" /\ Expired
  /\ age >= Timeout
  /\ phase' = "idle_stop"
  /\ UNCHANGED <<tracker, active, age, slept, up, open, quiet, kubeOpen>>

\* _idle_watchdog wakes and finds the daemon idle for long enough ...
PollStop ==
  /\ phase = "serving" /\ Expired
  /\ is_idle /\ age >= Timeout
  /\ phase' = "idle_stop"
  /\ UNCHANGED <<tracker, active, age, slept, up, open, quiet, kubeOpen>>

\* Mutant: a daemon that has been idle for exactly the timeout sleeps on.
PollSleepStrict ==
  /\ phase = "serving" /\ Expired
  /\ ~(is_idle /\ age > Timeout)
  /\ slept' = 0
  /\ UNCHANGED <<phase, tracker, active, age, up, open, quiet, kubeOpen>>

\* Mutant: the poll counts as activity.
PollSleepTouching ==
  /\ phase = "serving" /\ Expired
  /\ ~(is_idle /\ age >= Timeout)
  /\ slept' = 0
  /\ age' = 0
  /\ UNCHANGED <<phase, tracker, active, up, open, quiet, kubeOpen>>

\* ... or not, and sleeps again.
PollSleep ==
  /\ phase = "serving" /\ Expired
  /\ ~(is_idle /\ age >= Timeout)
  /\ slept' = 0
  /\ UNCHANGED <<phase, tracker, active, age, up, open, quiet, kubeOpen>>

\* SIGTERM sets the same event; the watchdog is cancelled.
Sigterm ==
  /\ phase = "serving"
  /\ phase' = "signalled"
  /\ UNCHANGED <<tracker, active, age, slept, up, open, quiet, kubeOpen>>

\* A quarter of a second passes.  The loop resumes a sleeper within Lag.
Tick ==
  /\ Running
  /\ phase = "serving" => slept < Poll + Lag
  /\ age' = Older(age)
  /\ quiet' = Older(quiet)
  /\ IF phase = "serving"
       THEN slept' = slept + 1 /\ up' = Older(up)
       ELSE UNCHANGED <<slept, up>>
  /\ UNCHANGED <<phase, tracker, active, open, kubeOpen>>

\* The daemon goes on to its teardown.
Stopped == ~Running /\ UNCHANGED vars

Next ==
  \/ \E c \in Conns : Accept(c) \/ Close(c) \/ RepeatHook(c) \/ Forget(c)
  \/ \E c \in KubeConns : KubeToggle(c)
  \/ Ready \/ PollStop \/ PollSleep \/ Sigterm \/ Tick \/ Stopped

Spec == Init /\ [][Next]_vars

\* Time passes, and a coroutine whose sleep is over is resumed.
FairSpec == Spec /\ WF_vars(Tick) /\ WF_vars(PollStop) /\ WF_vars(PollSleep)

-----------------------------------------------------------------------------
(* Properties *)

\* The aggregate counts the open connections, whatever order and however often
\* the hooks are called; the clamp at zero hides nothing.
CountIsOpen == active = Cardinality(open)

\* The idle stop never comes while a tracked connection is open, nor within
\* the timeout of the last one that opened or closed.
NeverStopsBusy ==
  [][phase' = "idle_stop" /\ phase # "idle_stop" => open = {} /\ quiet >= Timeout]_vars

\* An idle daemon is not kept longer than the timeout, one poll and the lag:
\* it is either stopped, or within that of its last event or of becoming ready.
StopsInTime ==
  phase = "serving" /\ open = {} => quiet < Timeout + Poll + Lag \/ up <= Poll + Lag

\* Once clients stay away, the daemon stops.
AbandonedStops ==
  <>(phase = "serving") /\ <>[](open = {}) => <>(phase \in {"idle_stop", "signalled"})

-----------------------------------------------------------------------------
(* What the repository says and the code does not keep *)

\* "Active long-lived connections prevent shutdown", of any tunnel forward.
KubeKeepsAlive ==
  [][phase' = "idle_stop" /\ phase # "idle_stop" => kubeOpen = {}]_vars
=============================================================================
