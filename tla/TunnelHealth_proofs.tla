------------------------- MODULE TunnelHealth_proofs -------------------------
(***************************************************************************)
(* Theorems about TunnelHealth, for every interval, threshold, quota and   *)
(* cool-down, and for every number of commands and of changes of the link. *)
(***************************************************************************)
EXTENDS TunnelHealth, TLAPS

LEMMA BoundsTyped ==
  /\ ProbeInterval \in Nat /\ WarmupWindow \in Nat /\ Cooldown \in Nat
  /\ UnhealthyThreshold \in Nat /\ UnreachableThreshold \in Nat
  /\ MaxRestarts \in Nat /\ MaxCommands \in Nat /\ MaxChanges \in Nat
  /\ ProbesEnabled \in BOOLEAN
  BY HealthAssumption

\* The ends of the ranges belong to them.
LEMMA EndsTyped ==
  ASSUME NEW max \in Nat
  PROVE  0 \in 0..max /\ max \in 0..max
  OBVIOUS

LEMMA Ends ==
  /\ 0 \in 0..UnreachableThreshold /\ 0 \in 0..UnhealthyThreshold
  /\ 0 \in 0..ProbeInterval /\ ProbeInterval \in 0..ProbeInterval
  /\ WarmupWindow \in 0..WarmupWindow
  /\ 0 \in 0..Cooldown /\ Cooldown \in 0..Cooldown
  /\ 0 \in 0..MaxRestarts /\ 0 \in 0..(MaxRestarts + 1)
  /\ MaxCommands \in 0..MaxCommands /\ MaxChanges \in 0..MaxChanges
  BY BoundsTyped, EndsTyped

USE BoundsTyped, Ends

-----------------------------------------------------------------------------
(***************************************************************************)
(* What the helpers do.                                                    *)
(***************************************************************************)
LEMMA UpTyped ==
  ASSUME NEW max \in Nat, NEW n \in 0..max
  PROVE  Up(n, max) \in 0..max /\ Up(n, max) >= n
  BY DEF Up

\* What the code may publish: never "none".
LEMMA EvaluateIsVerdict == Evaluate \in Verdicts
  BY DEF Evaluate, Verdicts

\* A publication of v with monitor fields m restarts the kernel only on a verdict that
\* asks for it, and only when the guard lets it through; otherwise the history stays.
\* The guard's cool-down starts with a restart and by nothing else.
RestartedBy(v) ==
  /\ ShouldRecover(v) /\ ShouldRestart
  /\ guard' = [restarts |-> guard.restarts + 1, sinceRestart |-> 0]
  /\ hist' = [restarts |-> Up(hist.restarts, MaxRestarts + 1), since |-> 0]

NotRestarted ==
  /\ hist' = hist
  /\ guard' = guard \/ guard' = NoteHealthy

LEMMA PublishCases ==
  ASSUME NEW m \in MonType, NEW v, Publish(m, v)
  PROVE  /\ RestartedBy(v) \/ NotRestarted
         /\ mon' = m \/ mon' = [m EXCEPT !.verdict = v]
                     \/ mon' = [m EXCEPT !.verdict = v, !.on = FALSE]
  BY DEF Publish, RestartCore, RestartedBy, NotRestarted, MonType

LEMMA PublishTyped ==
  ASSUME TypeOK, NEW m \in MonType, NEW v \in Verdicts, Publish(m, v)
  PROVE  /\ mon' \in MonType
         /\ guard' \in [restarts : 0..MaxRestarts, sinceRestart : 0..Cooldown]
         /\ conn' \in [phase : {"down", "starting", "up"}, hungUp : BOOLEAN,
                       shown : Verdicts \cup {"none"}]
         /\ hist' \in [restarts : 0..(MaxRestarts + 1), since : 0..Cooldown]
<1>1. mon' \in MonType
  <2>1. \/ mon' = m \/ mon' = [m EXCEPT !.verdict = v]
        \/ mon' = [m EXCEPT !.verdict = v, !.on = FALSE]
    BY PublishCases
  <2> QED BY <2>1 DEF MonType
<1>2. conn' \in [phase : {"down", "starting", "up"}, hungUp : BOOLEAN,
                 shown : Verdicts \cup {"none"}]
  BY DEF Publish, TypeOK
<1>3. CASE RestartedBy(v)
  <2>1. guard.restarts + 1 \in 0..MaxRestarts
    BY <1>3 DEF RestartedBy, ShouldRestart, TypeOK
  <2>2. Up(hist.restarts, MaxRestarts + 1) \in 0..(MaxRestarts + 1)
    BY UpTyped DEF TypeOK
  <2> QED BY <1>1, <1>2, <1>3, <2>1, <2>2 DEF RestartedBy
<1>4. CASE NotRestarted
  BY <1>1, <1>2, <1>4 DEF NotRestarted, NoteHealthy, TypeOK
<1> QED BY <1>3, <1>4, PublishCases

-----------------------------------------------------------------------------
(***************************************************************************)
(* The steps: which of them publish, and what the others leave alone.      *)
(***************************************************************************)
\* A step of the tick that has no verdict to publish.
SilentTick == mon' \in MonType /\ UNCHANGED <<guard, conn, hist>>

\* Every step of the tick is silent, or publishes fields m and verdict v; a verdict that
\* asks for a restart is published only past the grace period, and after a direct
\* probe only when the network answered.
TickPublishes(m, v) ==
  /\ m \in MonType /\ v \in Verdicts
  /\ Publish(m, v)
  /\ ShouldRecover(v) => mon.sinceConnect = WarmupWindow
  /\ ShouldRecover(v) /\ mon.tick = "direct" => link.network

LEMMA TickCases ==
  ASSUME TypeOK, Tick
  PROVE  /\ SilentTick \/ \E m, v : TickPublishes(m, v)
         /\ UNCHANGED <<link, budget>>
<1> mon \in MonType
  BY DEF TypeOK
<1>0. UNCHANGED <<link, budget>>
  BY DEF Tick, TickStarts, TickMissed, TickSucceeded, TunnelProbed, DirectProbed
<1>1. CASE TickStarts
  BY <1>0, <1>1 DEF TickStarts, SilentTick, MonType
<1>2. CASE TickMissed
  <2> DEFINE m == [mon EXCEPT !.tick = "idle", !.misses = Up(@, UnreachableThreshold)]
  <2>1. m \in MonType
    <3>1. Up(mon.misses, UnreachableThreshold) \in 0..UnreachableThreshold
      BY UpTyped DEF MonType
    <3> QED BY <3>1 DEF MonType
  <2>2. CASE m.misses < UnreachableThreshold \/ WithinWarmup
    BY <1>0, <1>2, <2>1, <2>2 DEF TickMissed, SilentTick
  <2>3. CASE ~(m.misses < UnreachableThreshold \/ WithinWarmup)
    <3>1. Publish(m, "coreUnreachable") /\ mon.tick = "get"
      BY <1>2, <2>3 DEF TickMissed
    <3>2. mon.sinceConnect = WarmupWindow
      BY <2>3 DEF WithinWarmup, MonType
    <3> HIDE DEF m
    <3>3. TickPublishes(m, "coreUnreachable")
      BY <2>1, <3>1, <3>2 DEF TickPublishes, Verdicts
    <3> QED BY <1>0, <3>3
  <2> QED BY <2>2, <2>3
<1>3. CASE TickSucceeded
  <2> DEFINE due == mon.sinceProbe = ProbeInterval
             m == [mon EXCEPT !.misses = 0, !.tick = IF due THEN "tunnel" ELSE "idle",
                              !.sinceProbe = IF due THEN 0 ELSE @]
  <2>1. m \in MonType
    BY DEF MonType
  <2>2. CASE SignsOfLife
    <3>1. Publish(m, "healthy")
      BY <1>3, <2>2 DEF TickSucceeded
    <3> HIDE DEF m
    <3>2. TickPublishes(m, "healthy")
      BY <2>1, <3>1 DEF TickPublishes, Verdicts, ShouldRecover
    <3> QED BY <1>0, <3>2
  <2>3. CASE ~SignsOfLife
    BY <1>0, <1>3, <2>1, <2>3 DEF TickSucceeded, SilentTick
  <2> QED BY <2>2, <2>3
<1>4. CASE TunnelProbed
  <2> DEFINE failed == [mon EXCEPT !.failures = Up(@, UnhealthyThreshold)]
             well == [mon EXCEPT !.tick = "idle", !.failures = 0]
             warm == [failed EXCEPT !.tick = "idle"]
  <2>1. failed \in MonType
    BY UpTyped DEF MonType
  <2>2. well \in MonType /\ warm \in MonType /\ [failed EXCEPT !.tick = "direct"] \in MonType
    BY <2>1 DEF MonType
  <2>3. \/ Publish(well, "healthy")
        \/ Publish(warm, "warmingUp")
        \/ /\ mon' = warm \/ mon' = [failed EXCEPT !.tick = "direct"]
           /\ UNCHANGED <<guard, conn, hist>>
    BY <1>4 DEF TunnelProbed
  <2> HIDE DEF failed, well, warm
  <2>4. Publish(well, "healthy") => TickPublishes(well, "healthy")
    BY <2>2 DEF TickPublishes, Verdicts, ShouldRecover
  <2>5. Publish(warm, "warmingUp") => TickPublishes(warm, "warmingUp")
    BY <2>2 DEF TickPublishes, Verdicts, ShouldRecover
  <2> QED BY <1>0, <2>2, <2>3, <2>4, <2>5 DEF SilentTick
<1>5. CASE DirectProbed
  <2> DEFINE m == [mon EXCEPT !.tick = "idle"]
  <2>1. m \in MonType
    BY DEF MonType
  <2>2. Publish(m, Evaluate)
    BY <1>5 DEF DirectProbed
  <2>3. ShouldRecover(Evaluate) => mon.sinceConnect = WarmupWindow /\ link.network
    BY DEF ShouldRecover, Evaluate, WithinWarmup, MonType
  <2> HIDE DEF m
  <2>4. TickPublishes(m, Evaluate)
    BY <2>1, <2>2, <2>3, EvaluateIsVerdict DEF TickPublishes
  <2> QED BY <1>0, <2>4
<1> QED BY <1>1, <1>2, <1>3, <1>4, <1>5 DEF Tick

-----------------------------------------------------------------------------
(***************************************************************************)
(* Type correctness, and the history that the cool-down rests on: the age  *)
(* of the last restart, as it was, is the age the guard keeps.             *)
(***************************************************************************)
HistoryInv == TypeOK /\ hist.since = guard.sinceRestart

LEMMA CommandHistory ==
  ASSUME HistoryInv, Command
  PROVE  /\ mon' \in MonType /\ link' = link
         /\ guard' = [restarts |-> 0, sinceRestart |-> Cooldown]
         /\ hist' = [restarts |-> 0, since |-> Cooldown]
         /\ budget' \in [commands : 0..MaxCommands, changes : 0..MaxChanges]
<1>1. mon' \in MonType
  BY DEF HistoryInv, TypeOK, Command, MonType
<1>2. budget.commands - 1 \in 0..MaxCommands
  BY DEF HistoryInv, TypeOK, Command
<1>3. budget' \in [commands : 0..MaxCommands, changes : 0..MaxChanges]
  BY <1>2 DEF HistoryInv, TypeOK, Command
<1> QED BY <1>1, <1>3 DEF Command, ResetGuard

LEMMA HistoryInductive ==
  ASSUME HistoryInv, [Next]_vars
  PROVE  HistoryInv'
<1> USE DEF HistoryInv, TypeOK
<1>1. CASE Tick
  <2>1. CASE SilentTick
    BY <1>1, <2>1, TickCases DEF SilentTick
  <2>2. ASSUME NEW m, NEW v, TickPublishes(m, v)
        PROVE  HistoryInv'
    <3>1. m \in MonType /\ v \in Verdicts /\ Publish(m, v)
      BY <2>2 DEF TickPublishes
    <3>2. TypeOK'
      BY <1>1, <3>1, PublishTyped, TickCases
    <3>3. hist'.since = guard'.sinceRestart
      <4>1. RestartedBy(v) \/ NotRestarted
        BY <3>1, PublishCases
      <4> QED BY <4>1 DEF RestartedBy, NotRestarted, NoteHealthy
    <3> QED BY <3>2, <3>3
  <2> QED BY <1>1, <2>1, <2>2, TickCases
<1>2. CASE UserConnects
  <2>1. Command /\ conn' \in [phase : {"down", "starting", "up"}, hungUp : BOOLEAN,
                              shown : Verdicts \cup {"none"}]
    BY <1>2 DEF UserConnects
  <2> QED BY <2>1, CommandHistory
<1>3. CASE UserDisconnects
  BY <1>3, CommandHistory DEF UserDisconnects
<1>4. CASE StartDone
  <2>1. mon' \in MonType
    <3>1. PICK age \in 0..WarmupWindow :
            mon' = [mon EXCEPT !.on = TRUE, !.misses = 0, !.failures = 0, !.verdict = "none",
                               !.sinceConnect = age, !.sinceProbe = ProbeInterval]
      BY <1>4 DEF StartDone
    <3> QED BY <3>1 DEF MonType
  <2> QED BY <1>4, <2>1 DEF StartDone
<1>5. CASE StartFails
  BY <1>5 DEF StartFails
<1>6. CASE LinkChanges
  <2>1. budget' \in [commands : 0..MaxCommands, changes : 0..MaxChanges]
    <3>1. budget.changes - 1 \in 0..MaxChanges
      BY <1>6 DEF LinkChanges
    <3> QED BY <1>6, <3>1 DEF LinkChanges
  <2>2. link' \in [tunnel : BOOLEAN, network : BOOLEAN, kernel : BOOLEAN]
    BY <1>6 DEF LinkChanges
  <2> QED BY <1>6, <2>1, <2>2 DEF LinkChanges
<1>7. CASE TimePasses
  <2>1. mon' \in MonType
    BY <1>7, UpTyped DEF TimePasses, MonType
  <2>2. Up(guard.sinceRestart, Cooldown) \in 0..Cooldown
    BY UpTyped
  <2> QED BY <1>7, <2>1, <2>2 DEF TimePasses
<1>8. CASE UNCHANGED vars
  BY <1>8 DEF vars
<1> QED BY <1>1, <1>2, <1>3, <1>4, <1>5, <1>6, <1>7, <1>8 DEF Next

LEMMA InitHistory == Init => HistoryInv
  BY DEF Init, HistoryInv, TypeOK, MonType, Verdicts

LEMMA HistoryInvariant == Spec => []HistoryInv
  BY InitHistory, HistoryInductive, PTL DEF Spec

\* Every field keeps its type: the counters of CoreMonitor stop at their thresholds, and
\* HealthRecoveryGuard never counts more restarts than it allows.
THEOREM TypeCorrect == Spec => []TypeOK
  BY HistoryInvariant, PTL DEF HistoryInv

-----------------------------------------------------------------------------
(***************************************************************************)
(* The restarts.  Only a verdict that was published and let through by the *)
(* guard restarts the kernel.                                              *)
(***************************************************************************)
\* A step that restarts the kernel is one of the tick, with a verdict that asks for it.
LEMMA RestartsArePublished ==
  ASSUME HistoryInv, [Next]_vars, Restarted
  PROVE  Tick /\ \E m, v : TickPublishes(m, v) /\ RestartedBy(v)
<1> USE DEF HistoryInv, TypeOK
<1>0. ~(hist.restarts > hist.restarts) /\ ~(hist.since < hist.since)
  OBVIOUS
<1>1. CASE Tick
  <2>1. ~SilentTick
    BY DEF SilentTick, Restarted
  <2>2. PICK m, v : TickPublishes(m, v)
    BY <1>1, <2>1, TickCases
  <2>3. ~NotRestarted
    BY DEF NotRestarted, Restarted
  <2>4. RestartedBy(v)
    BY <2>2, <2>3, PublishCases DEF TickPublishes
  <2> QED BY <1>1, <2>2, <2>4
<1>2. CASE UserConnects \/ UserDisconnects
  BY <1>2, CommandHistory DEF UserConnects, UserDisconnects, Restarted
<1>3. CASE StartDone \/ StartFails \/ LinkChanges
  <2>1. hist' = hist
    BY <1>3 DEF StartDone, StartFails, LinkChanges
  <2> QED BY <2>1, <1>0 DEF Restarted
<1>4. CASE TimePasses
  <2>1. Up(hist.since, Cooldown) >= hist.since
    BY UpTyped
  <2>2. hist' = [hist EXCEPT !.since = Up(hist.since, Cooldown)]
    BY <1>4 DEF TimePasses
  <2>3. Up(hist.since, Cooldown) \in 0..Cooldown
    BY UpTyped
  <2>4. hist'.restarts = hist.restarts /\ hist'.since = Up(hist.since, Cooldown)
    BY <2>2
  <2> QED BY <1>0, <2>1, <2>3, <2>4 DEF Restarted
<1>5. CASE UNCHANGED vars
  BY <1>5 DEF vars, Restarted
<1> QED BY <1>1, <1>2, <1>3, <1>4, <1>5 DEF Next

\* Two restarts of one connection lie a cool-down apart, however often the tunnel was
\* well in between and however late the ticks publish.  (HealthRecoveryGuard.)
THEOREM CooldownAlwaysKept == Spec => CooldownKept
<1>1. HistoryInv /\ [Next]_vars => [Restarted => hist.since = Cooldown]_vars
  BY RestartsArePublished DEF RestartedBy, ShouldRestart, HistoryInv
<1> QED BY <1>1, HistoryInvariant, PTL DEF Spec, CooldownKept

\* No tunnel that is up is restarted in its grace period, whichever session the tick
\* began in.  (CoreMonitor._onTickMissed, evaluateTunnelHealth.)
THEOREM WarmupAlwaysSpared == Spec => WarmupSpared
<1>1. HistoryInv /\ [Next]_vars
        => [Restarted /\ conn.phase = "up" => mon.sinceConnect = WarmupWindow]_vars
  BY RestartsArePublished DEF RestartedBy, TickPublishes
<1> QED BY <1>1, HistoryInvariant, PTL DEF Spec, WarmupSpared

\* A restart decided after a direct probe means that the local network worked then.
\* (evaluateTunnelHealth.)
THEOREM LocalOutageAlwaysSpared == Spec => LocalOutageSpared
<1>1. HistoryInv /\ [Next]_vars
        => [Restarted /\ mon.tick = "direct" => link.network]_vars
  BY RestartsArePublished DEF RestartedBy, TickPublishes
<1> QED BY <1>1, HistoryInvariant, PTL DEF Spec, LocalOutageSpared

-----------------------------------------------------------------------------
(***************************************************************************)
(* The verdicts of the probes.                                             *)
(***************************************************************************)
\* While the API is asked, only its answer ends the request; it leaves the verdict or
\* replaces it by its own.
LEMMA SampleEnds ==
  ASSUME HistoryInv, [Next]_vars, mon.tick = "get", mon'.tick # "get",
         mon.verdict \in {"tunnelDown", "networkDown"}
  PROVE  mon'.verdict \in {mon.verdict, "coreUnreachable"}
<1> USE DEF HistoryInv, TypeOK
<1>1. CASE TickMissed
  <2> DEFINE m == [mon EXCEPT !.tick = "idle", !.misses = Up(@, UnreachableThreshold)]
  <2>1. m \in MonType /\ m.verdict = mon.verdict
    BY UpTyped DEF MonType
  <2>2. mon' = m \/ Publish(m, "coreUnreachable")
    BY <1>1 DEF TickMissed
  <2> HIDE DEF m
  <2>3. \/ mon' = m
        \/ mon' = [m EXCEPT !.verdict = "coreUnreachable"]
        \/ mon' = [m EXCEPT !.verdict = "coreUnreachable", !.on = FALSE]
    BY <2>1, <2>2, PublishCases
  <2> QED BY <2>1, <2>3 DEF MonType
<1>2. CASE TickSucceeded
  <2>1. ~SignsOfLife
    BY DEF SignsOfLife
  <2> QED BY <1>2, <2>1 DEF TickSucceeded, MonType
<1>3. CASE TickStarts \/ TunnelProbed \/ DirectProbed
  BY <1>3 DEF TickStarts, TunnelProbed, DirectProbed
<1>4. CASE UserConnects \/ UserDisconnects
  BY <1>4 DEF UserConnects, UserDisconnects, Command, MonType
<1>5. CASE StartDone \/ StartFails \/ LinkChanges \/ TimePasses
  BY <1>5 DEF StartDone, StartFails, LinkChanges, TimePasses, MonType
<1>6. CASE UNCHANGED vars
  BY <1>6 DEF vars
<1> QED BY <1>1, <1>2, <1>3, <1>4, <1>5, <1>6 DEF Next, Tick

\* A sample that succeeds or fails never replaces a verdict of the probes by a better
\* one, in whatever session it began.  (CoreMonitor._onTickSucceeded.)
THEOREM SampleAlwaysSparesVerdict == Spec => SampleSparesVerdict
<1>1. HistoryInv /\ [Next]_vars
        => [mon.tick = "get" /\ mon'.tick # "get"
              /\ mon.verdict \in {"tunnelDown", "networkDown"}
              => mon'.verdict \in {mon.verdict, "coreUnreachable"}]_vars
  BY SampleEnds
<1> QED BY <1>1, HistoryInvariant, PTL DEF Spec, SampleSparesVerdict
=============================================================================
