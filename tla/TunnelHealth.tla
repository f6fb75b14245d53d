---------------------------- MODULE TunnelHealth ----------------------------
(***************************************************************************)
(* Recovery from a tunnel that is down while its kernel runs: CoreMonitor's *)
(* sampling tick, the health verdict it publishes, and the guard that      *)
(* decides whether SingBoxRunner restarts the kernel.                      *)
(*                                                                         *)
(* A tick is one async call with up to three awaits: the API request, the  *)
(* probe through the tunnel, the direct probe.  Stopping the monitor only  *)
(* cancels its timers: a tick in flight goes on, on the monitor's fields   *)
(* as they are by then.                                                    *)
(*                                                                         *)
(* Time is counted in polls.  A time stamp is kept as its age, which stops *)
(* growing where the code's comparisons stop telling ages apart; an age    *)
(* nobody has stamped yet is the largest one.  The monitor's two failure   *)
(* counters stop at their thresholds for the same reason.                  *)
(***************************************************************************)
EXTENDS Naturals

CONSTANTS
  ProbeInterval, WarmupWindow,              \* CoreMonitor
  UnhealthyThreshold, UnreachableThreshold,
  ProbesEnabled,                            \* the user allows active probes
  MaxRestarts, Cooldown,                    \* HealthRecoveryGuard
  MaxCommands, MaxChanges                   \* bounds: user commands, link changes

ASSUME HealthAssumption ==
  /\ ProbeInterval \in Nat /\ WarmupWindow \in Nat /\ Cooldown \in Nat
  /\ UnhealthyThreshold \in Nat \ {0} /\ UnreachableThreshold \in Nat \ {0}
  /\ ProbesEnabled \in BOOLEAN
  /\ MaxRestarts \in Nat /\ MaxCommands \in Nat /\ MaxChanges \in Nat

Verdicts == {"healthy", "warmingUp", "tunnelDown", "networkDown", "coreUnreachable"}

VARIABLES
  mon,     \* CoreMonitor's fields and where its tick is
  guard,   \* HealthRecoveryGuard
  conn,    \* the runner's phase, the hang-up flag, the verdict AppState shows
  link,    \* the world: does the tunnel, the network, the kernel's API answer?
  hist,    \* history: restarts of this connection, age of the last one
  budget

vars == <<mon, guard, conn, link, hist, budget>>

MonType ==
  [on : BOOLEAN, tick : {"idle", "get", "tunnel", "direct"},
   misses : 0..UnreachableThreshold, failures : 0..UnhealthyThreshold,
   verdict : Verdicts \cup {"none"},
   sinceConnect : 0..WarmupWindow, sinceProbe : 0..ProbeInterval]

TypeOK ==
  /\ mon \in MonType
  /\ guard \in [restarts : 0..MaxRestarts, sinceRestart : 0..Cooldown]
  /\ conn \in [phase : {"down", "starting", "up"}, hungUp : BOOLEAN,
               shown : Verdicts \cup {"none"}]
  /\ link \in [tunnel : BOOLEAN, network : BOOLEAN, kernel : BOOLEAN]
  /\ hist \in [restarts : 0..(MaxRestarts + 1), since : 0..Cooldown]
  /\ budget \in [commands : 0..MaxCommands, changes : 0..MaxChanges]

Init ==
  /\ mon = [on |-> FALSE, tick |-> "idle", misses |-> 0, failures |-> 0, verdict |-> "none",
            sinceConnect |-> WarmupWindow, sinceProbe |-> ProbeInterval]
  /\ guard = [restarts |-> 0, sinceRestart |-> Cooldown]
  /\ conn = [phase |-> "down", hungUp |-> FALSE, shown |-> "none"]
  /\ link = [tunnel |-> TRUE, network |-> TRUE, kernel |-> TRUE]
  /\ hist = [restarts |-> 0, since |-> Cooldown]
  /\ budget = [commands |-> MaxCommands, changes |-> MaxChanges]

Up(n, max) == IF n < max THEN n + 1 ELSE max

-----------------------------------------------------------------------------
(***************************************************************************)
(* The guard.                                                              *)
(***************************************************************************)
\* shouldRestart
ShouldRestart == guard.restarts < MaxRestarts /\ guard.sinceRestart = Cooldown

\* Mutant: the cool-down is given back together with the restarts.
NoteHealthyForgets == [guard EXCEPT !.restarts = 0, !.sinceRestart = Cooldown]

\* The tunnel is well again: the restarts are given back, the cool-down is not.
NoteHealthy == [guard EXCEPT !.restarts = 0]

ResetGuard == guard' = [restarts |-> 0, sinceRestart |-> Cooldown]

-----------------------------------------------------------------------------
(***************************************************************************)
(* Publishing a verdict and acting on it.                                  *)
(***************************************************************************)
\* _restartCore, with monitor fields m: the monitor stops, the kernel is replaced.
RestartCore(m) ==
  /\ mon' = [m EXCEPT !.on = FALSE]
  /\ guard' = [restarts |-> guard.restarts + 1, sinceRestart |-> 0]
  /\ hist' = [restarts |-> Up(hist.restarts, MaxRestarts + 1), since |-> 0]

ShouldRecover(v) == v \in {"tunnelDown", "coreUnreachable"}

\* _publishHealth: only a verdict that differs from the last one is shown and handed
\* to handleTunnelHealth.
Publish(m, v) ==
  LET seen == [m EXCEPT !.verdict = v] IN
  \/ /\ m.verdict = v
     /\ mon' = m
     /\ UNCHANGED <<guard, conn, hist>>
  \/ /\ m.verdict # v /\ v \in {"healthy", "warmingUp"}
     /\ mon' = seen
     /\ guard' = NoteHealthy
     /\ conn' = [conn EXCEPT !.shown = v]
     /\ UNCHANGED hist
  \/ /\ m.verdict # v /\ ShouldRecover(v) /\ ~conn.hungUp /\ ShouldRestart
     /\ RestartCore(seen)
     /\ conn' = [conn EXCEPT !.shown = v, !.phase = "starting"]
  \/ /\ m.verdict # v /\ v \notin {"healthy", "warmingUp"}
     /\ ~(ShouldRecover(v) /\ ~conn.hungUp /\ ShouldRestart)
     /\ mon' = seen
     /\ conn' = [conn EXCEPT !.shown = v]
     /\ UNCHANGED <<guard, hist>>

-----------------------------------------------------------------------------
(***************************************************************************)
(* The tick.                                                               *)
(***************************************************************************)
TickStarts ==
  /\ mon.on /\ mon.tick = "idle"
  /\ mon' = [mon EXCEPT !.tick = "get"]
  /\ UNCHANGED <<guard, conn, link, hist, budget>>

\* Without a tunnel that is up, an answer may still come from the kernel that was.
Answers == IF conn.phase = "up" THEN {link.kernel} ELSE BOOLEAN

NeverWarm == FALSE    \* mutant: no grace period

WithinWarmup == mon.sinceConnect < WarmupWindow

\* _onTickMissed
TickMissed ==
  LET m == [mon EXCEPT !.tick = "idle", !.misses = Up(@, UnreachableThreshold)] IN
  /\ mon.tick = "get"
  /\ FALSE \in Answers
  /\ IF m.misses < UnreachableThreshold \/ WithinWarmup
     THEN mon' = m /\ UNCHANGED <<guard, conn, hist>>
     ELSE Publish(m, "coreUnreachable")
  /\ UNCHANGED <<link, budget>>

\* Mutant: every sample that succeeds reports a healthy tunnel.
AlwaysSignsOfLife == TRUE

\* _onTickSucceeded reports only the end of its own signal.
SignsOfLife == mon.verdict = "coreUnreachable"

\* _onTickSucceeded, and probeLatency up to its first await.
TickSucceeded ==
  LET due == mon.sinceProbe = ProbeInterval
      m == [mon EXCEPT !.misses = 0,
                       !.tick = IF due THEN "tunnel" ELSE "idle",
                       !.sinceProbe = IF due THEN 0 ELSE @] IN
  /\ mon.tick = "get"
  /\ TRUE \in Answers
  /\ IF SignsOfLife THEN Publish(m, "healthy")
     ELSE mon' = m /\ UNCHANGED <<guard, conn, hist>>
  /\ UNCHANGED <<link, budget>>

\* What the probe through the tunnel may find; the same holds of it without one that is up.
TunnelAnswers ==
  IF conn.phase = "up" THEN {link.tunnel /\ link.network /\ link.kernel} ELSE BOOLEAN

\* Mutant: the end of an incident is not reported.
TunnelProbedQuietly ==
  /\ mon.tick = "tunnel"
  /\ LET failed == [mon EXCEPT !.failures = Up(@, UnhealthyThreshold)] IN
     \E ok \in TunnelAnswers :
       mon' = IF ok THEN [mon EXCEPT !.tick = "idle", !.failures = 0]
              ELSE IF failed.failures < UnhealthyThreshold \/ WithinWarmup \/ ~ProbesEnabled
              THEN [failed EXCEPT !.tick = "idle"]
              ELSE [failed EXCEPT !.tick = "direct"]
  /\ UNCHANGED <<guard, conn, hist, link, budget>>

\* probeLatency after the probe through the tunnel.
TunnelProbed ==
  LET failed == [mon EXCEPT !.failures = Up(@, UnhealthyThreshold)]
      many == failed.failures = UnhealthyThreshold IN
  /\ mon.tick = "tunnel"
  /\ \/ /\ TRUE \in TunnelAnswers
        /\ Publish([mon EXCEPT !.tick = "idle", !.failures = 0], "healthy")
     \/ /\ FALSE \in TunnelAnswers /\ many /\ WithinWarmup
        /\ Publish([failed EXCEPT !.tick = "idle"], "warmingUp")
     \/ /\ FALSE \in TunnelAnswers /\ ~(many /\ WithinWarmup)
        /\ mon' = [failed EXCEPT !.tick = IF many /\ ProbesEnabled THEN "direct" ELSE "idle"]
        /\ UNCHANGED <<guard, conn, hist>>
  /\ UNCHANGED <<link, budget>>

\* Mutant: the direct probe is not consulted.
EvaluateBlindly ==
  IF mon.failures < UnhealthyThreshold THEN "healthy"
  ELSE IF WithinWarmup THEN "warmingUp"
  ELSE "tunnelDown"

\* evaluateTunnelHealth, on the fields as they are after the direct probe.
Evaluate ==
  IF mon.failures < UnhealthyThreshold THEN "healthy"
  ELSE IF WithinWarmup THEN "warmingUp"
  ELSE IF link.network THEN "tunnelDown" ELSE "networkDown"

\* probeLatency after the direct probe.
DirectProbed ==
  /\ mon.tick = "direct"
  /\ Publish([mon EXCEPT !.tick = "idle"], Evaluate)
  /\ UNCHANGED <<link, budget>>

-----------------------------------------------------------------------------
(***************************************************************************)
(* The runner, the user, the world, the clock.                             *)
(***************************************************************************)
Command ==
  /\ budget.commands > 0
  /\ budget' = [budget EXCEPT !.commands = @ - 1]
  /\ ResetGuard
  /\ hist' = [restarts |-> 0, since |-> Cooldown]
  /\ mon' = [mon EXCEPT !.on = FALSE]
  /\ UNCHANGED link

UserConnects == Command /\ conn' = [conn EXCEPT !.phase = "starting", !.hungUp = FALSE]

UserDisconnects ==
  /\ conn.phase # "down"
  /\ Command
  /\ conn' = [phase |-> "down", hungUp |-> TRUE, shown |-> "none"]

\* The tunnel is announced and the monitor starts; the warm-up counts from the moment
\* the start began.  A new kernel answers, and may have cured the tunnel.
StartDone ==
  /\ conn.phase = "starting"
  /\ conn' = [conn EXCEPT !.phase = "up"]
  /\ \E age \in 0..WarmupWindow :
       mon' = [mon EXCEPT !.on = TRUE, !.misses = 0, !.failures = 0, !.verdict = "none",
                          !.sinceConnect = age, !.sinceProbe = ProbeInterval]
  /\ \E cured \in BOOLEAN : link' = [link EXCEPT !.kernel = TRUE, !.tunnel = @ \/ cured]
  /\ UNCHANGED <<guard, hist, budget>>

StartFails ==
  /\ conn.phase = "starting"
  /\ conn' = [conn EXCEPT !.phase = "down", !.shown = "none"]
  /\ UNCHANGED <<mon, guard, link, hist, budget>>

LinkChanges ==
  /\ budget.changes > 0
  /\ budget' = [budget EXCEPT !.changes = @ - 1]
  /\ \E f \in DOMAIN link : link' = [link EXCEPT ![f] = ~@]
  /\ UNCHANGED <<mon, guard, conn, hist>>

TimePasses ==
  /\ mon' = [mon EXCEPT !.sinceConnect = Up(@, WarmupWindow), !.sinceProbe = Up(@, ProbeInterval)]
  /\ guard' = [guard EXCEPT !.sinceRestart = Up(@, Cooldown)]
  /\ hist' = [hist EXCEPT !.since = Up(@, Cooldown)]
  /\ UNCHANGED <<conn, link, budget>>

Tick == TickStarts \/ TickMissed \/ TickSucceeded \/ TunnelProbed \/ DirectProbed

Next == \/ Tick \/ UserConnects \/ UserDisconnects \/ StartDone \/ StartFails
        \/ LinkChanges \/ TimePasses

Spec == Init /\ [][Next]_vars

\* The poll timer runs while the monitor is on, every probe has a time-out, a start ends
\* one way or the other, time passes.  The user and the world are never forced.
Fairness ==
  /\ WF_vars(Tick)
  /\ WF_vars(StartDone \/ StartFails)
  /\ WF_vars(TimePasses)

FairSpec == Spec /\ Fairness

-----------------------------------------------------------------------------
Restarted == hist'.restarts > hist.restarts \/ hist'.since < hist.since

Good == conn.phase = "up" /\ link.tunnel /\ link.network /\ link.kernel

\* Two restarts of one connection lie a cool-down apart, however often the tunnel was
\* well in between.  (noteHealthy keeps lastRestartAt.)
CooldownKept == [][Restarted => hist.since = Cooldown]_vars

\* A tunnel that is up is not restarted during its grace period, whichever session the
\* tick began in.  (_connectedSince, evaluateTunnelHealth, _onTickMissed.)
WarmupSpared == [][Restarted /\ conn.phase = "up" => mon.sinceConnect = WarmupWindow]_vars

\* A restart after a direct probe means that the local network worked.
LocalOutageSpared == [][Restarted /\ mon.tick = "direct" => link.network]_vars

\* A sample that succeeds says nothing about the tunnel: it never replaces a verdict
\* of the probes.  (_onTickSucceeded.)
SampleSparesVerdict ==
  [][mon.tick = "get" /\ mon'.tick # "get" /\ mon.verdict \in {"tunnelDown", "networkDown"}
       => mon'.verdict \in {mon.verdict, "coreUnreachable"}]_vars

\* Once the tunnel stays well, the problem shown to the user goes away.
ProblemClears == (<>[]Good) => <>[](conn.shown \in {"none", "healthy"})

\* While disconnected no verdict about a tunnel is shown.
NoVerdictWhileDown == conn.phase = "down" => conn.shown = "none"

\* A tunnel that is just being built is not torn down by a verdict.
StartSpared == [][Restarted => conn.phase # "starting"]_vars

\* Between two ticks, "healthy" does not stand while the probes through the tunnel keep
\* failing.  (_onTickSucceeded and the failures probeLatency counts.)
HealthyIsHealthy ==
  mon.on /\ mon.tick = "idle" /\ mon.verdict = "healthy" => mon.failures < UnhealthyThreshold

\* A tunnel that stays down while the network works is restarted until the restarts are
\* used up.
TunnelDownIsActedOn ==
  (conn.phase = "up" /\ ~link.tunnel) ~>
    \/ link.tunnel \/ ~link.network \/ ~link.kernel \/ conn.phase # "up"
    \/ guard.restarts = MaxRestarts
=============================================================================
