----------------------- MODULE TunnelLifecycle_proofs -----------------------
(***************************************************************************)
(* Theorems about TunnelLifecycle, for every set of profiles, every number *)
(* of task slots and every budget of commands, crashes and verdicts: first *)
(* those that hold for every user and every kernel, then those about a     *)
(* tunnel at rest.                                                         *)
(***************************************************************************)
EXTENDS TunnelLifecycle, TLAPS

USE ProfileAssumption, TaskAssumption, SwitchAssumption, BudgetAssumption

-----------------------------------------------------------------------------
(***************************************************************************)
(* Type correctness.  Every command spends budget before it numbers a new  *)
(* attempt, so the attempt numbers stay in range.                          *)
(***************************************************************************)
TypeInv == TypeOK /\ app.generation + budget.commands <= MaxCommands

LEMMA FreeTyped == Free \in TaskRec
  BY DEF Free, TaskRec, Kinds, Pcs, StartPcs, StopPcs

LEMMA ReturnedTyped ==
  ASSUME NEW me \in TaskRec PROVE Returned(me) \in TaskRec
  BY FreeTyped DEF Returned, TaskRec, Pcs

LEMMA CallTyped ==
  ASSUME NEW kind \in Kinds, NEW pc \in Pcs, NEW a \in {0} \cup Attempts,
         NEW p \in Profiles \cup {NoProfile}, NEW then \in {"start", "return"}
  PROVE  Call(kind, pc, a, p, then) \in TaskRec
  BY FreeTyped DEF Call, TaskRec

LEMMA StopTyped ==
  ASSUME NEW r \in RunnerType
  PROVE  StopBegins(r) \in RunnerType /\ StopPc(r) \in Pcs
  BY DEF StopBegins, StopPc, RunnerType, Pcs, StopPcs

LEMMA CoreConnectTyped ==
  ASSUME TypeOK, NEW p \in Profiles \cup {NoProfile}, CoreConnect(p)
  PROVE  runner' \in RunnerType
<1>1. StopBegins(runner) \in RunnerType
  BY StopTyped DEF TypeOK
<1> QED BY <1>1 DEF CoreConnect, RunnerType

LEMMA DialTyped ==
  ASSUME TypeOK, NEW a \in AppType, a.generation + 1 <= MaxCommands, Dial(a)
  PROVE  /\ app' \in AppType /\ runner' \in RunnerType /\ task' \in [Tasks -> TaskRec]
         /\ app'.generation \in {a.generation, a.generation + 1}
<1>1. CASE a.active = NoProfile \/ a.active \in NeedsCredentials
  BY <1>1 DEF Dial, TypeOK, AppType, Attempts
<1>2. CASE ~(a.active = NoProfile \/ a.active \in NeedsCredentials)
  <2> DEFINE g == a.generation + 1
  <2>1. PICK t \in Tasks : DialIn(t, a)
    BY <1>2 DEF Dial
  <2>2. g \in Attempts /\ g \in {0} \cup Attempts
    BY DEF AppType, Attempts
  <2>3. a.active \in Profiles \cup {NoProfile}
    BY DEF AppType
  <2>4. runner' \in RunnerType
    BY <2>1, <2>3, CoreConnectTyped DEF DialIn, TypeOK
  <2>5. app' \in AppType /\ app'.generation = g
    BY <2>1, <2>2 DEF DialIn, CancelAttempt, AppType, Attempts
  <2>6. task' \in [Tasks -> TaskRec]
    <3>1. \A pc \in Pcs : Call("connect", pc, g, a.active, "start") \in TaskRec
      BY <2>2, <2>3, CallTyped DEF Kinds
    <3>2. "await_prev" \in Pcs /\ StopPc(runner) \in Pcs
      BY StopTyped DEF TypeOK, Pcs
    <3> QED BY <2>1, <3>1, <3>2 DEF DialIn, TypeOK
  <2> QED BY <2>4, <2>5, <2>6
<1> QED BY <1>1, <1>2

LEMMA HangUpTyped ==
  ASSUME TypeOK, NEW a \in AppType, HangUp(a)
  PROVE  /\ app' \in AppType /\ runner' \in RunnerType /\ task' \in [Tasks -> TaskRec]
         /\ app'.generation = a.generation
<1>1. PICK t \in Tasks : HangUpIn(t, a)
  BY DEF HangUp
<1>2. app' \in AppType /\ app'.generation = a.generation
  BY <1>1 DEF HangUpIn, CancelAttempt, AppType
<1>3. StopBegins(runner) \in RunnerType /\ StopPc(runner) \in Pcs
  BY StopTyped DEF TypeOK
<1>4. runner' \in RunnerType
  BY <1>1, <1>3 DEF HangUpIn, RunnerType
<1>5. Call("disconnect", StopPc(runner), 0, NoProfile, "return") \in TaskRec
  BY <1>3, CallTyped DEF Kinds
<1>6. task' \in [Tasks -> TaskRec]
  BY <1>1, <1>5 DEF HangUpIn, TaskRec, TypeOK
<1> QED BY <1>2, <1>4, <1>6

LEMMA RedialTyped ==
  ASSUME TypeOK, NEW a \in AppType, a.generation + 1 <= MaxCommands, Redial(a)
  PROVE  /\ app' \in AppType /\ runner' \in RunnerType /\ task' \in [Tasks -> TaskRec]
         /\ app'.generation \in {a.generation, a.generation + 1}
  BY DialTyped DEF Redial, TypeOK

\* A command spends one unit of budget, so it may number one more attempt.
LEMMA CommandTyped ==
  ASSUME TypeInv, NEW c, Command(c)
  PROVE  /\ proxy' \in ProxyType /\ tick' \in BOOLEAN /\ kernel' \in KernelType
         /\ budget' \in BudgetType
         /\ app.generation + 1 <= MaxCommands
         /\ app.generation + 1 + budget'.commands <= MaxCommands
         /\ app.generation + budget'.commands <= MaxCommands
  BY DEF Command, TypeInv, TypeOK, BudgetType, AppType, Attempts

LEMMA UserStepTyped ==
  ASSUME TypeInv, UserStep
  PROVE  TypeInv'
<1>1. CASE ToggleConnection
  <2>1. Command("toggle") /\ (Dial(app) \/ HangUp(app))
    BY <1>1 DEF ToggleConnection
  <2> QED BY <2>1, CommandTyped, DialTyped, HangUpTyped DEF TypeInv, TypeOK
<1>2. CASE CancelConnect
  <2>1. Command("cancel") /\ HangUp(app)
    BY <1>2 DEF CancelConnect
  <2> QED BY <2>1, CommandTyped, HangUpTyped DEF TypeInv, TypeOK
<1>3. CASE SetActiveProfile
  <2>1. PICK p \in app.profiles : Redial([app EXCEPT !.active = p])
    BY <1>3 DEF SetActiveProfile
  <2>2. /\ [app EXCEPT !.active = p] \in AppType
        /\ [app EXCEPT !.active = p].generation = app.generation
    BY DEF TypeInv, TypeOK, AppType
  <2>3. Command("switch")
    BY <1>3 DEF SetActiveProfile
  <2> QED BY <2>1, <2>2, <2>3, CommandTyped, RedialTyped DEF TypeInv, TypeOK
<1>4. CASE SetProfileCredentials
  <2>1. Command("credentials") /\ Redial(app)
    BY <1>4 DEF SetProfileCredentials
  <2> QED BY <2>1, CommandTyped, RedialTyped DEF TypeInv, TypeOK
<1>5. CASE RemoveProfile
  <2>1. PICK p \in app.profiles :
          LET rest == [app EXCEPT !.profiles = @ \ {p}] IN
          IF p # app.active THEN app' = rest /\ UNCHANGED <<runner, task>>
          ELSE IF rest.profiles = {} THEN HangUp([rest EXCEPT !.active = NoProfile])
          ELSE \E q \in rest.profiles : Redial([rest EXCEPT !.active = q])
    BY <1>5 DEF RemoveProfile
  <2> DEFINE rest == [app EXCEPT !.profiles = @ \ {p}]
  <2>2. rest \in AppType /\ rest.generation = app.generation
    BY DEF TypeInv, TypeOK, AppType
  <2>3. Command("remove")
    BY <1>5 DEF RemoveProfile
  <2>4. CASE p # app.active
    BY <2>1, <2>2, <2>3, <2>4, CommandTyped DEF TypeInv, TypeOK
  <2>5. CASE p = app.active /\ rest.profiles = {}
    <3>1. [rest EXCEPT !.active = NoProfile] \in AppType
          /\ [rest EXCEPT !.active = NoProfile].generation = app.generation
      BY <2>2 DEF AppType
    <3>2. HangUp([rest EXCEPT !.active = NoProfile])
      BY <2>1, <2>5
    <3> QED BY <2>3, <3>1, <3>2, CommandTyped, HangUpTyped DEF TypeInv, TypeOK
  <2>6. CASE p = app.active /\ rest.profiles # {}
    <3>1. PICK q \in rest.profiles : Redial([rest EXCEPT !.active = q])
      BY <2>1, <2>6
    <3>2. [rest EXCEPT !.active = q] \in AppType
          /\ [rest EXCEPT !.active = q].generation = app.generation
      BY <2>2 DEF AppType
    <3> QED BY <2>3, <3>1, <3>2, CommandTyped, RedialTyped DEF TypeInv, TypeOK
  <2> QED BY <2>4, <2>5, <2>6
<1>6. CASE ImportConf
  <2>1. PICK p \in Profiles :
          LET a == [app EXCEPT !.profiles = @ \cup {p}, !.active = p] IN
          IF a.status = "disconnected" THEN Dial(a) ELSE app' = a /\ UNCHANGED <<runner, task>>
    BY <1>6 DEF ImportConf
  <2> DEFINE a == [app EXCEPT !.profiles = @ \cup {p}, !.active = p]
  <2>2. a \in AppType /\ a.generation = app.generation
    BY DEF TypeInv, TypeOK, AppType
  <2>3. Command("import")
    BY <1>6 DEF ImportConf
  <2>4. Dial(a) \/ (app' = a /\ UNCHANGED <<runner, task>>)
    BY <2>1
  <2> HIDE DEF a
  <2> QED BY <2>2, <2>3, <2>4, CommandTyped, DialTyped DEF TypeInv, TypeOK
<1> QED BY <1>1, <1>2, <1>3, <1>4, <1>5, <1>6 DEF UserStep

LEMMA TaskMoves ==
  ASSUME TypeOK, NEW t \in Tasks
  PROVE  /\ \A pc \in Pcs : Goto(t, pc) => task' \in [Tasks -> TaskRec]
         /\ Return(t) => task' \in [Tasks -> TaskRec]
<1>1. \A pc \in Pcs : Goto(t, pc) => task' \in [Tasks -> TaskRec]
  BY DEF Goto, TypeOK, TaskRec
<1>2. Return(t) => task' \in [Tasks -> TaskRec]
  BY ReturnedTyped DEF Return, TypeOK
<1> QED BY <1>1, <1>2

LEMMA StopFromTyped ==
  ASSUME TypeOK, NEW t \in Tasks, NEW r \in RunnerType, NEW b \in BOOLEAN, StopFrom(t, r, b)
  PROVE  runner' \in RunnerType /\ task' \in [Tasks -> TaskRec]
<1>1. runner' \in RunnerType /\ StopPc(r) \in Pcs
  BY StopTyped DEF StopFrom
<1>2. [task[t] EXCEPT !.pc = StopPc(r), !.notify = b, !.then = "return"] \in TaskRec
  BY <1>1 DEF TypeOK, TaskRec
<1>3. task' = [task EXCEPT ![t] = [@ EXCEPT !.pc = StopPc(r), !.notify = b, !.then = "return"]]
  BY DEF StopFrom, TypeOK
<1> QED BY <1>1, <1>2, <1>3 DEF TypeOK

LEMMA KillStaleTyped ==
  ASSUME TypeOK
  PROVE  KillStale \in KernelType
  BY DEF KillStale, TypeOK, KernelType

LEMMA EnterTunnelTyped ==
  ASSUME TypeOK, NEW t \in Tasks, NEW me \in TaskRec, NEW r \in RunnerType,
         EnterTunnel(t, me, r)
  PROVE  /\ app' \in AppType /\ app'.generation = app.generation
         /\ runner' \in RunnerType /\ task' \in [Tasks -> TaskRec] /\ kernel' \in KernelType
<1> DEFINE seq == r.attemptSeq + 1
           next == [r EXCEPT !.attemptSeq = seq]
           quit == task' = [task EXCEPT ![t] = Returned(me)]
           pc == IF r.indexLoaded THEN "ports" ELSE "index"
           go == task' = [task EXCEPT ![t] = [me EXCEPT !.seq = seq, !.pc = pc]]
<1>1. seq \in Runs /\ next \in RunnerType
  BY DEF EnterTunnel, RunnerType
<1>2. [next EXCEPT !.pidFile = 0] \in RunnerType
  BY <1>1 DEF RunnerType
<1>3. runner' \in RunnerType
  BY <1>1, <1>2 DEF EnterTunnel
<1>4. app' \in AppType /\ app'.generation = app.generation
  BY DEF EnterTunnel, SetStatus, TypeOK, AppType, Statuses
<1>5. kernel' \in KernelType
  BY KillStaleTyped DEF EnterTunnel, TypeOK
<1>6. quit \/ go
  BY DEF EnterTunnel
<1>7. quit => task' \in [Tasks -> TaskRec]
  BY ReturnedTyped DEF TypeOK
<1>8. go => task' \in [Tasks -> TaskRec]
  <2>1. [me EXCEPT !.seq = seq, !.pc = pc] \in TaskRec
    BY <1>1 DEF TaskRec, Pcs, StartPcs
  <2> QED BY <2>1 DEF TypeOK
<1> QED BY <1>3, <1>4, <1>5, <1>6, <1>7, <1>8

LEMMA AbortCleanupTyped ==
  ASSUME TypeOK, NEW t \in Tasks, NEW r \in RunnerType, AbortCleanup(t, r)
  PROVE  runner' \in RunnerType /\ task' \in [Tasks -> TaskRec]
<1>1. Release(r) \in RunnerType
  BY DEF Release, RunnerType
<1>2. "release" \in Pcs
  BY DEF Pcs
<1> QED BY <1>1, <1>2, StopFromTyped, TaskMoves DEF AbortCleanup

LEMMA StoppedTyped ==
  ASSUME TypeOK, NEW t \in Tasks, Stopped(t)
  PROVE  /\ app' \in AppType /\ app'.generation = app.generation
         /\ task' \in [Tasks -> TaskRec]
<1>1. app' \in AppType /\ app'.generation = app.generation
  BY DEF Stopped, SetStatus, TypeOK, AppType, Statuses
<1>2. "start" \in Pcs
  BY DEF Pcs, StartPcs
<1> QED BY <1>1, <1>2, TaskMoves DEF Stopped

LEMMA TakeDownTyped ==
  ASSUME TypeOK, NEW t \in Tasks, NEW r \in RunnerType, TakeDown(t, r)
  PROVE  /\ app' \in AppType /\ app'.generation = app.generation
         /\ runner' \in RunnerType /\ task' \in [Tasks -> TaskRec] /\ kernel' \in KernelType
<1>1. runner' \in RunnerType
  BY DEF TakeDown, RunnerType
<1>2. kernel' \in KernelType
  BY DEF TakeDown, TypeOK, KernelType
<1>3. "stop_exit" \in Pcs
  BY DEF Pcs, StopPcs
<1> QED BY <1>1, <1>2, <1>3, StoppedTyped, TaskMoves DEF TakeDown, TypeOK

LEMMA ClearedTyped ==
  ASSUME TypeOK, NEW ok \in BOOLEAN, Cleared(ok)
  PROVE  /\ budget' \in BudgetType /\ budget'.commands = budget.commands
         /\ ClearedProxy(ok) \in ProxyType
         /\ [ClearedProxy(ok) EXCEPT !.watchdog = FALSE] \in ProxyType
<1>1. budget' \in BudgetType /\ budget'.commands = budget.commands
  BY DEF Cleared, TypeOK, BudgetType
<1>2. ClearedProxy(ok) \in ProxyType
  BY DEF ClearedProxy, TypeOK, ProxyType
<1> QED BY <1>1, <1>2 DEF ProxyType

LEMMA DecideTyped ==
  ASSUME TypeOK, NEW r \in RunnerType, Decide(r)
  PROVE  /\ runner' \in RunnerType
         /\ app' \in AppType /\ app'.generation = app.generation
<1>1. runner' \in RunnerType
  BY DEF Decide, RunnerType
<1>2. app' \in AppType /\ app'.generation = app.generation
  BY DEF Decide, SetStatus, TypeOK, AppType, Statuses
<1> QED BY <1>1, <1>2

LEMMA TaskStepTyped ==
  ASSUME TypeInv, NEW t \in Tasks, TaskStep(t)
  PROVE  TypeInv'
<1> USE DEF TypeInv, TypeOK
<1>0. /\ "await_prev" \in Pcs /\ "ports" \in Pcs /\ "bind" \in Pcs /\ "verify" \in Pcs
      /\ "spawn" \in Pcs /\ "api" \in Pcs /\ "set_proxy" \in Pcs /\ "gate" \in Pcs
      /\ "stop_clear" \in Pcs /\ "start" \in Pcs
  BY DEF Pcs, StartPcs, StopPcs
<1>1. CASE AwaitPrevious(t)
  <2>1. CASE task[t].att \in app.cancelled
    BY <1>1, <2>1, FreeTyped DEF AwaitPrevious
  <2>2. CASE task[t].att \notin app.cancelled
    <3>1. app' \in AppType /\ app'.generation = app.generation
      BY <1>1, <2>2 DEF AwaitPrevious, AppType
    <3>2. task[t].prof \in Profiles \cup {NoProfile}
      BY DEF TaskRec
    <3>3. runner' \in RunnerType
      BY <1>1, <2>2, <3>2, CoreConnectTyped DEF AwaitPrevious
    <3>4. task' \in [Tasks -> TaskRec]
      BY <1>1, <2>2, StopTyped, TaskMoves DEF AwaitPrevious
    <3> QED BY <1>1, <3>1, <3>3, <3>4 DEF AwaitPrevious
  <2> QED BY <2>1, <2>2
<1>2. CASE ConnectReturned(t)
  BY <1>2, FreeTyped DEF ConnectReturned, AppType
<1>3. CASE StartTunnel(t)
  <2>1. task[t] \in TaskRec
    OBVIOUS
  <2> QED BY <1>3, <2>1, EnterTunnelTyped DEF StartTunnel
<1>4. CASE IndexLoaded(t)
  <2>1. runner' \in RunnerType
    <3>1. CASE Aborted(t)
      BY <1>4, <3>1 DEF IndexLoaded, RunnerType
    <3>2. CASE ~Aborted(t)
      BY <1>4, <3>2 DEF IndexLoaded, RunnerType
    <3> QED BY <3>1, <3>2
  <2> QED BY <1>0, <1>4, <2>1, TaskMoves, KillStaleTyped DEF IndexLoaded
<1>5. CASE PortsAllocated(t)
  <2>1. task[t].seq \in {0} \cup Runs
    BY DEF TaskRec
  <2>2. [runner EXCEPT !.port = task[t].seq] \in RunnerType
    BY <2>1 DEF RunnerType
  <2>3. runner' \in RunnerType /\ task' \in [Tasks -> TaskRec]
    BY <1>0, <1>5, <2>2, TaskMoves, StopFromTyped DEF PortsAllocated
  <2> QED BY <1>5, <2>3 DEF PortsAllocated
<1>6. CASE HostBound(t)
  <2>1. runner' \in RunnerType
    BY <1>6 DEF HostBound, RunnerType
  <2> QED BY <1>0, <1>6, <2>1, TaskMoves DEF HostBound
<1>7. CASE HostStarted(t)
  <2>1. runner' \in RunnerType
    BY <1>7 DEF HostStarted, RunnerType
  <2> QED BY <1>0, <1>7, <2>1, TaskMoves DEF HostStarted
<1>8. CASE Spawned(t)
  <2>1. task[t].seq \in {0} \cup Runs /\ task[t].att \in {0} \cup Attempts
        /\ task[t].prof \in Profiles \cup {NoProfile}
    BY DEF TaskRec
  <2>2. runner' \in RunnerType
    BY <1>8, <2>1 DEF Spawned, RunnerType
  <2>3. kernel' \in KernelType
    BY <1>8, <2>1 DEF Spawned, KernelType
  <2> QED BY <1>0, <1>8, <2>2, <2>3, TaskMoves DEF Spawned
<1>9. CASE SpawnThrows(t)
  BY <1>9, AbortCleanupTyped, StopFromTyped DEF SpawnThrows
<1>10. CASE ApiAnswered(t)
  BY <1>0, <1>10, AbortCleanupTyped, StopFromTyped, TaskMoves DEF ApiAnswered
<1>11. CASE ProxySet(t)
  <2> DEFINE r(ok) == IF ok THEN [runner EXCEPT !.proxyTaken = TRUE, !.proxyOwner = task[t].seq]
                      ELSE [runner EXCEPT !.proxyTaken = FALSE]
  <2>0. task[t].seq \in {0} \cup Runs
    BY DEF TaskRec
  <2>1. PICK ok \in BOOLEAN :
          /\ ok \/ budget.proxyFaults > 0
          /\ budget' = IF ok THEN budget ELSE [budget EXCEPT !.proxyFaults = @ - 1]
          /\ \E written \in IF ok THEN {task[t].seq} ELSE {task[t].seq, proxy.installed} :
               proxy' = Taken(ok, written)
          /\ IF Aborted(t) THEN AbortCleanup(t, r(ok)) /\ UNCHANGED app
             ELSE Goto(t, "gate") /\ runner' = r(ok) /\ SetStatus("warmingUp")
    BY <1>11 DEF ProxySet
  <2>2. r(ok) \in RunnerType
    BY <2>0 DEF RunnerType
  <2>3. budget' \in BudgetType /\ budget'.commands = budget.commands
    BY <2>1 DEF BudgetType
  <2>4. proxy' \in ProxyType
    BY <2>0, <2>1 DEF Taken, ProxyType
  <2>5. app' \in AppType /\ app'.generation = app.generation
    BY <2>1 DEF SetStatus, AppType, Statuses
  <2>6. kernel' = kernel /\ tick' = tick
    BY <1>11 DEF ProxySet
  <2> HIDE DEF r
  <2>7. runner' \in RunnerType /\ task' \in [Tasks -> TaskRec]
    BY <1>0, <2>1, <2>2, AbortCleanupTyped, TaskMoves
  <2> QED BY <2>3, <2>4, <2>5, <2>6, <2>7
<1>12. CASE GatePassed(t)
  <2>1. [runner EXCEPT !.monitorOn = TRUE] \in RunnerType
    BY DEF RunnerType
  <2>2. app' \in AppType /\ app'.generation = app.generation
    BY <1>12 DEF GatePassed, SetStatus, AppType, Statuses
  <2> QED BY <1>12, <2>1, <2>2, AbortCleanupTyped, TaskMoves DEF GatePassed
<1>13. CASE ProxyReleased(t)
  BY <1>13, TaskMoves, ClearedTyped DEF ProxyReleased
<1>14. CASE HostStopped(t)
  BY <1>0, <1>14, TaskMoves, TakeDownTyped DEF HostStopped
<1>15. CASE ProxyCleared(t)
  <2>1. Release(runner) \in RunnerType
    BY DEF Release, RunnerType
  <2> QED BY <1>15, <2>1, ClearedTyped, TakeDownTyped DEF ProxyCleared
<1>16. CASE KernelGone(t)
  <2>1. runner' \in RunnerType
    BY <1>16 DEF KernelGone, RunnerType
  <2> QED BY <1>16, <2>1, StoppedTyped DEF KernelGone
<1>17. CASE ExitCleared(t)
  <2>1. runner' \in RunnerType /\ app' \in AppType /\ app'.generation = app.generation
    BY <1>17, DecideTyped DEF ExitCleared
  <2> QED BY <1>17, <2>1, ClearedTyped, TaskMoves DEF ExitCleared
<1> QED BY <1>1, <1>2, <1>3, <1>4, <1>5, <1>6, <1>7, <1>8, <1>9, <1>10, <1>11, <1>12,
          <1>13, <1>14, <1>15, <1>16, <1>17 DEF TaskStep

LEMMA RecoveryStepTyped ==
  ASSUME TypeInv, RecoveryStep
  PROVE  TypeInv'
<1> USE DEF TypeInv, TypeOK
<1>1. ASSUME NEW k \in Runs, KernelCrashes(k) PROVE TypeInv'
  <2>1. kernel' \in KernelType
    BY <1>1 DEF KernelCrashes, KernelType
  <2>2. budget' \in BudgetType /\ budget'.commands = budget.commands
    BY <1>1 DEF KernelCrashes, BudgetType
  <2> QED BY <1>1, <2>1, <2>2 DEF KernelCrashes
<1>2. ASSUME NEW k \in Runs, ExitCallback(k) PROVE TypeInv'
  <2> DEFINE r == [runner EXCEPT !.process = 0, !.monitorOn = FALSE]
  <2>1. r \in RunnerType /\ Release(r) \in RunnerType
    BY DEF Release, RunnerType
  <2>2. kernel' \in KernelType
    BY <1>2 DEF ExitCallback, KernelType
  <2>3. Call("exit", "exit_clear", 0, NoProfile, "return") \in TaskRec
    BY CallTyped DEF Kinds, Pcs
  <2>4. \/ UNCHANGED <<app, runner, task>>
        \/ /\ runner' = Release(r)
           /\ \E t \in Tasks : task' = [task EXCEPT ![t] =
                                Call("exit", "exit_clear", 0, NoProfile, "return")]
           /\ UNCHANGED app
        \/ Decide(r) /\ UNCHANGED task
    BY <1>2 DEF ExitCallback
  <2>5. UNCHANGED <<proxy, tick, budget>>
    BY <1>2 DEF ExitCallback
  <2> HIDE DEF r
  <2> QED BY <2>1, <2>2, <2>3, <2>4, <2>5, DecideTyped
<1>3. CASE TimerFires
  <2> DEFINE r == [runner EXCEPT !.timer = FALSE]
             me == Call("reconnect", "start", 0, runner.lastProfile, "return")
  <2>1. r \in RunnerType /\ runner.lastProfile \in Profiles \cup {NoProfile}
    BY DEF RunnerType
  <2>2. me \in TaskRec
    BY <2>1, CallTyped DEF Kinds, Pcs, StartPcs
  <2>3. \/ runner' = r /\ UNCHANGED <<app, task, kernel>>
        \/ \E t \in Tasks : EnterTunnel(t, me, r)
    BY <1>3 DEF TimerFires
  <2>4. UNCHANGED <<proxy, tick, budget>>
    BY <1>3 DEF TimerFires
  <2> HIDE DEF r, me
  <2> QED BY <2>1, <2>2, <2>3, <2>4, EnterTunnelTyped
<1>4. CASE TickStarts
  BY <1>4 DEF TickStarts
<1>5. CASE TickHealthy
  BY <1>5 DEF TickHealthy
<1>6. CASE TickUnhealthy
  <2>1. budget' \in BudgetType /\ budget'.commands = budget.commands
    BY <1>6 DEF TickUnhealthy, BudgetType
  <2>2. StopBegins(runner) \in RunnerType /\ StopPc(runner) \in Pcs
    BY StopTyped
  <2>3. [StopBegins(runner) EXCEPT !.timer = FALSE] \in RunnerType
        /\ runner.lastProfile \in Profiles \cup {NoProfile}
    BY <2>2 DEF RunnerType
  <2>4. Call("restart", StopPc(runner), 0, runner.lastProfile, "start") \in TaskRec
    BY <2>2, <2>3, CallTyped DEF Kinds
  <2>5. runner' \in RunnerType /\ task' \in [Tasks -> TaskRec]
    BY <1>6, <2>3, <2>4 DEF TickUnhealthy
  <2> QED BY <1>6, <2>1, <2>5 DEF TickUnhealthy
<1> QED BY <1>1, <1>2, <1>3, <1>4, <1>5, <1>6 DEF RecoveryStep

\* A reconcile goes from state to state, and does nothing else until it clears.
Looks == /\ UNCHANGED <<app, runner, task, kernel, tick, budget>>
         /\ proxy' \in ProxyType
         /\ proxy'.installed = proxy.installed /\ proxy'.watchdog = proxy.watchdog
         /\ proxy'.lost = proxy.lost

LEMMA ReconcileSteps ==
  ASSUME TypeOK, WatchdogStep
  PROVE  Looks \/ WatchdogCleared
<1> proxy \in ProxyType /\ runner.port \in {0} \cup Runs
  BY DEF TypeOK, RunnerType
<1>1. CASE ReconcileStarts
  BY <1>1 DEF ReconcileStarts, Watchdog, Probing, Reconciles, Looks, ProxyType
<1>2. CASE PortProbed
  BY <1>2 DEF PortProbed, Watchdog, Reconciled, Reconciles, Looks, ProxyType
<1>3. CASE BackupProbed
  BY <1>3 DEF BackupProbed, Watchdog, Reconciled, Reconciles, Looks, ProxyType
<1> QED BY <1>1, <1>2, <1>3 DEF WatchdogStep

LEMMA TakenBackFields ==
  ASSUME TypeOK, NEW ok \in BOOLEAN
  PROVE  /\ TakenBack(ok) \in ProxyType
         /\ TakenBack(ok).installed = IF ok THEN 0 ELSE proxy.installed
         /\ TakenBack(ok).watchdog = proxy.watchdog
         /\ TakenBack(ok).reconcile = "idle" /\ TakenBack(ok).port = 0
         /\ TakenBack(ok).lost = (proxy.lost \/ (ok /\ runner.proxyTaken /\ OutOfDate))
<1>1. proxy \in ProxyType /\ runner.proxyTaken \in BOOLEAN /\ OutOfDate \in BOOLEAN
  BY DEF TypeOK, RunnerType, OutOfDate
<1>2. ClearedProxy(ok) \in ProxyType /\ ClearedProxy(ok).lost = proxy.lost
      /\ ClearedProxy(ok).watchdog = proxy.watchdog
      /\ ClearedProxy(ok).installed = IF ok THEN 0 ELSE proxy.installed
  BY <1>1 DEF ClearedProxy, ProxyType
<1> HIDE DEF OutOfDate
<1> QED BY <1>1, <1>2 DEF TakenBack, Reconciled, ProxyType

LEMMA WatchdogStepTyped ==
  ASSUME TypeInv, WatchdogStep
  PROVE  TypeInv'
<1> USE DEF TypeInv, TypeOK
<1>1. CASE Looks
  BY <1>1 DEF Looks
<1>2. CASE WatchdogCleared
  <2>1. Release(runner) \in RunnerType
    BY DEF Release, RunnerType
  <2> QED BY <1>2, <2>1, ClearedTyped, TakenBackFields DEF WatchdogCleared
<1> QED BY <1>1, <1>2, ReconcileSteps

LEMMA TypeInvInductive ==
  ASSUME TypeInv, [Next]_vars
  PROVE  TypeInv'
<1>1. CASE UNCHANGED vars
  BY <1>1 DEF vars, TypeInv, TypeOK
<1> QED BY <1>1, UserStepTyped, TaskStepTyped, RecoveryStepTyped, WatchdogStepTyped DEF Next

LEMMA InitTyped == Init => TypeInv
<1> SUFFICES ASSUME Init PROVE TypeInv
  OBVIOUS
<1>1. app \in AppType /\ app.generation = 0
  BY DEF Init, AppType, Statuses
<1>2. runner \in RunnerType
  BY DEF Init, RunnerType
<1>3. task \in [Tasks -> TaskRec]
  BY FreeTyped DEF Init
<1>4. kernel \in KernelType
  BY DEF Init, KernelType
<1>5. proxy \in ProxyType /\ tick \in BOOLEAN
  BY DEF Init, ProxyType
<1>6. budget \in BudgetType /\ budget.commands = MaxCommands
  BY DEF Init, BudgetType
<1> QED BY <1>1, <1>2, <1>3, <1>4, <1>5, <1>6 DEF TypeInv, TypeOK

\* Every variable keeps its type: attempt and run numbers stay in their ranges, and
\* every slot of the task table holds a well-formed call.
THEOREM TypeInvariant == Spec => []TypeInv
  BY InitTyped, TypeInvInductive, PTL DEF Spec

\* The type invariant the runs check, for every number of profiles, slots and commands.
THEOREM TypeCorrect == Spec => []TypeOK
  BY TypeInvariant, PTL DEF TypeInv

-----------------------------------------------------------------------------
(***************************************************************************)
(* The user's rounds.  IntentHonoured and ConnectsSerialized are not       *)
(* inductive: they rest on which tokens are still valid and on what the    *)
(* flag of the hang-up says, collected in RoundInv.                        *)
(***************************************************************************)
IsConnect(t) == task[t].kind = "connect"
Waiting(t)   == task[t].pc = "await_prev"

\* A connect that is past its wait is the one in flight.
OnlyInflightRuns == \A t \in Tasks : IsConnect(t) /\ ~Waiting(t) => app.inflight = t

\* Tokens are real, not newer than the generation, and never shared.
TokensDistinct ==
  /\ \A t \in Tasks : IsConnect(t) => task[t].att # 0 /\ task[t].att <= app.generation
  /\ \A t, u \in Tasks : IsConnect(t) /\ IsConnect(u) /\ t # u => task[t].att # task[u].att

\* A connect that waits is cancelled or is the attempt AppState holds.
WaitingIsCurrent ==
  \A t \in Tasks : IsConnect(t) /\ Waiting(t)
    => task[t].att \in app.cancelled \/ task[t].att = app.attempt

\* Only AppState.connect waits for the previous round, or has a continuation to run.
WaitersConnect == \A t \in Tasks : task[t].pc \in {"await_prev", "done"} => IsConnect(t)

\* A hang-up in flight is stopping the core and will announce the end of it.
HangUpsAnnounce ==
  \A t \in Tasks : task[t].kind = "disconnect"
    => task[t].pc \in StopPcs /\ task[t].notify /\ task[t].then = "return"

\* Nothing was ever dialled.
Untouched ==
  /\ \A t \in Tasks : task[t].kind = "none" /\ task[t].pc = "free"
  /\ \A k \in Runs : kernel[k].st = "none"
  /\ app.status = "disconnected"
  /\ ~runner.timer /\ ~runner.monitorOn /\ ~tick
  /\ ~proxy.watchdog /\ proxy.reconcile = "idle"

\* Without the intent to connect there is no attempt, and the flag of the hang-up is up.
NoIntentNoAttempt ==
  ~app.want => app.attempt = 0 /\ (runner.userDisconnect \/ Untouched)

RoundInv ==
  /\ OnlyInflightRuns /\ TokensDistinct /\ WaitingIsCurrent
  /\ WaitersConnect /\ HangUpsAnnounce
  /\ NoIntentNoAttempt /\ IntentHonoured

\* Slot t, and no other, changes; no connect or hang-up appears in it, and a hang-up
\* leaves it only with the status announced.
OnlySlot(t) ==
  /\ \A u \in Tasks : u # t => task'[u] = task[u]
  /\ IsConnect(t)' => /\ IsConnect(t) /\ task'[t].att = task[t].att
                      /\ Waiting(t)' <=> Waiting(t)
  /\ task'[t].pc \in {"await_prev", "done"} => IsConnect(t)'
  /\ task'[t].kind = "disconnect" => /\ task[t].kind = "disconnect"
                                     /\ task'[t].pc \in StopPcs
                                     /\ task'[t].notify /\ task'[t].then = "return"
  /\ task[t].kind = "disconnect" =>
       task'[t].kind = "disconnect" \/ app'.status = "disconnected"

\* A step that is neither a command nor the start or end of a round.  It cannot lift
\* the status once the user has hung up.
QuietStep ==
  /\ app' = [app EXCEPT !.status = app'.status]
  /\ runner'.userDisconnect = runner.userDisconnect
  /\ app'.status \in {app.status, "disconnected"} \/ ~runner.userDisconnect
  /\ UNCHANGED task \/ \E t \in Tasks : OnlySlot(t)
  /\ ~Untouched

LEMMA QuietKeepsRounds ==
  ASSUME TypeOK, TypeOK', RoundInv, QuietStep
  PROVE  RoundInv'
<1>1. /\ app'.inflight = app.inflight /\ app'.attempt = app.attempt /\ app'.want = app.want
      /\ app'.generation = app.generation /\ app'.cancelled = app.cancelled
  BY DEF QuietStep, TypeOK, AppType
<1>2. CASE UNCHANGED task
  <2>1. /\ OnlyInflightRuns' /\ TokensDistinct' /\ WaitingIsCurrent'
        /\ WaitersConnect' /\ HangUpsAnnounce'
    BY <1>1, <1>2 DEF RoundInv, OnlyInflightRuns, TokensDistinct, WaitingIsCurrent,
                      WaitersConnect, HangUpsAnnounce, IsConnect, Waiting
  <2>2. NoIntentNoAttempt' /\ IntentHonoured'
    BY <1>1, <1>2 DEF RoundInv, NoIntentNoAttempt, IntentHonoured, QuietStep
  <2> QED BY <2>1, <2>2 DEF RoundInv
<1>3. ASSUME NEW t \in Tasks, OnlySlot(t)
      PROVE  RoundInv'
  <2>1. \A u \in Tasks : IsConnect(u)' =>
          IsConnect(u) /\ task'[u].att = task[u].att /\ (Waiting(u)' <=> Waiting(u))
    BY <1>3 DEF OnlySlot, IsConnect, Waiting
  <2>2. OnlyInflightRuns' /\ TokensDistinct' /\ WaitingIsCurrent'
    BY <1>1, <2>1 DEF RoundInv, OnlyInflightRuns, TokensDistinct, WaitingIsCurrent
  <2>3. HangUpsAnnounce' /\ WaitersConnect'
    BY <1>3 DEF RoundInv, HangUpsAnnounce, WaitersConnect, OnlySlot, IsConnect
  <2>4. NoIntentNoAttempt'
    BY <1>1 DEF RoundInv, NoIntentNoAttempt, QuietStep
  <2>5. IntentHonoured'
    <3>1. SUFFICES ASSUME ~app.want, app'.status # "disconnected"
                   PROVE  \E u \in Tasks : task'[u].kind = "disconnect"
      BY <1>1 DEF IntentHonoured
    <3>2. runner.userDisconnect /\ app'.status = app.status
      BY <1>1, <3>1 DEF RoundInv, NoIntentNoAttempt, QuietStep
    <3>3. PICK u \in Tasks : task[u].kind = "disconnect"
      BY <3>1, <3>2 DEF RoundInv, IntentHonoured
    <3>4. task'[u].kind = "disconnect"
      BY <1>3, <3>1, <3>3 DEF OnlySlot
    <3> QED BY <3>4
  <2> QED BY <2>2, <2>3, <2>4, <2>5 DEF RoundInv
<1> QED BY <1>2, <1>3 DEF QuietStep

\* The app keeps everything but the status, which rises only for a user who has not
\* hung up; the flag of the hang-up is left alone.
QuietFields ==
  /\ app' = [app EXCEPT !.status = app'.status]
  /\ runner'.userDisconnect = runner.userDisconnect
  /\ app'.status \in {app.status, "disconnected"} \/ ~runner.userDisconnect

LEMMA SetStatusQuiet ==
  ASSUME TypeOK, NEW s, SetStatus(s)
  PROVE  app' = [app EXCEPT !.status = app'.status] /\ app'.status = s
  BY DEF SetStatus, TypeOK, AppType

LEMMA SameApp ==
  ASSUME TypeOK, app' = app
  PROVE  app' = [app EXCEPT !.status = app'.status]
  BY DEF TypeOK, AppType

LEMMA GotoOnly ==
  ASSUME TypeOK, HangUpsAnnounce, NEW t \in Tasks, NEW pc, Goto(t, pc), ~Waiting(t),
         pc \notin {"await_prev", "done"}, task[t].kind = "disconnect" => pc \in StopPcs
  PROVE  OnlySlot(t)
<1>1. task' = [task EXCEPT ![t] = [task[t] EXCEPT !.pc = pc]]
  BY DEF Goto, TypeOK
<1>2. /\ task'[t].kind = task[t].kind /\ task'[t].att = task[t].att /\ task'[t].pc = pc
      /\ task'[t].notify = task[t].notify /\ task'[t].then = task[t].then
      /\ \A u \in Tasks : u # t => task'[u] = task[u]
  BY <1>1 DEF TypeOK, TaskRec
<1> QED BY <1>2 DEF OnlySlot, IsConnect, Waiting, HangUpsAnnounce

LEMMA ReturnOnly ==
  ASSUME TypeOK, NEW t \in Tasks, Return(t), ~Waiting(t),
         task[t].kind = "disconnect" => app'.status = "disconnected"
  PROVE  OnlySlot(t)
<1>1. \A u \in Tasks : u # t => task'[u] = task[u]
  BY DEF Return, TypeOK
<1>2. CASE IsConnect(t)
  <2>1. task'[t] = [task[t] EXCEPT !.pc = "done"]
    BY <1>2 DEF Return, Returned, IsConnect, TypeOK
  <2>2. task'[t].kind = "connect" /\ task'[t].att = task[t].att /\ task'[t].pc = "done"
    BY <1>2, <2>1 DEF IsConnect, TypeOK, TaskRec
  <2> QED BY <1>1, <1>2, <2>2 DEF OnlySlot, IsConnect, Waiting
<1>3. CASE ~IsConnect(t)
  <2>1. task'[t].kind = "none"
    BY <1>3 DEF Return, Returned, IsConnect, TypeOK, Free
  <2>2. task'[t].pc = "free"
    BY <1>3 DEF Return, Returned, IsConnect, TypeOK, Free
  <2> QED BY <1>1, <1>3, <2>1, <2>2 DEF OnlySlot, IsConnect, Waiting
<1> QED BY <1>2, <1>3

LEMMA StopFromOnly ==
  ASSUME TypeOK, NEW t \in Tasks, NEW r \in RunnerType, NEW b, StopFrom(t, r, b), ~Waiting(t),
         task[t].kind # "disconnect"
  PROVE  OnlySlot(t) /\ runner'.userDisconnect = r.userDisconnect
<1>1. runner'.userDisconnect = r.userDisconnect
  BY DEF StopFrom, StopBegins, RunnerType
<1>2. task' = [task EXCEPT ![t] = [task[t] EXCEPT !.pc = StopPc(r), !.notify = b, !.then = "return"]]
  BY DEF StopFrom, TypeOK
<1>3. /\ task'[t].kind = task[t].kind /\ task'[t].att = task[t].att /\ task'[t].pc = StopPc(r)
      /\ \A u \in Tasks : u # t => task'[u] = task[u]
  BY <1>2 DEF TypeOK, TaskRec
<1> QED BY <1>1, <1>3 DEF OnlySlot, IsConnect, Waiting, StopPc

LEMMA AbortCleanupOnly ==
  ASSUME TypeOK, HangUpsAnnounce, NEW t \in Tasks, NEW r \in RunnerType, AbortCleanup(t, r),
         ~Waiting(t), task[t].kind # "disconnect"
  PROVE  OnlySlot(t) /\ runner'.userDisconnect = r.userDisconnect
<1>1. Release(r).userDisconnect = r.userDisconnect
  BY DEF Release, RunnerType
<1> QED BY <1>1, StopFromOnly, GotoOnly, ReturnOnly DEF AbortCleanup

LEMMA EnterTunnelQuiet ==
  ASSUME TypeOK, NEW t \in Tasks, NEW me \in TaskRec, NEW r \in RunnerType,
         EnterTunnel(t, me, r), r.userDisconnect = runner.userDisconnect,
         me.kind = "connect" => me = task[t], me.kind # "disconnect",
         task[t].kind # "disconnect", ~Waiting(t)
  PROVE  QuietFields /\ OnlySlot(t)
<1>1. QuietFields
  <2>1. runner'.userDisconnect = r.userDisconnect
    BY DEF EnterTunnel, RunnerType
  <2>2. \/ app' = app
        \/ SetStatus("disconnected")
        \/ SetStatus("connecting") /\ ~r.userDisconnect
    BY DEF EnterTunnel, Unwanted
  <2> QED BY <2>1, <2>2, SetStatusQuiet, SameApp DEF QuietFields
<1> DEFINE pc == IF r.indexLoaded THEN "ports" ELSE "index"
<1>2. \/ task' = [task EXCEPT ![t] = Returned(me)]
      \/ task' = [task EXCEPT ![t] = [me EXCEPT !.seq = r.attemptSeq + 1, !.pc = pc]]
  BY DEF EnterTunnel
<1>3. /\ \A u \in Tasks : u # t => task'[u] = task[u]
      /\ \/ task'[t].kind = "none" /\ task'[t].pc = "free"
         \/ /\ task'[t].kind = me.kind /\ task'[t].att = me.att
            /\ task'[t].pc # "await_prev"
            /\ task'[t].pc = "done" => me.kind = "connect"
  <2>1. \A u \in Tasks : u # t => task'[u] = task[u]
    BY <1>2 DEF TypeOK
  <2>2. CASE task' = [task EXCEPT ![t] = Returned(me)]
    <3>1. task'[t] = Returned(me)
      BY <2>2 DEF TypeOK
    <3> QED BY <2>1, <3>1 DEF Returned, Free, TaskRec
  <2>3. CASE task' = [task EXCEPT ![t] = [me EXCEPT !.seq = r.attemptSeq + 1, !.pc = pc]]
    <3>1. task'[t] = [me EXCEPT !.seq = r.attemptSeq + 1, !.pc = pc]
      BY <2>3 DEF TypeOK
    <3>2. task'[t].kind = me.kind /\ task'[t].att = me.att /\ task'[t].pc = pc
      BY <3>1 DEF TaskRec
    <3> QED BY <2>1, <3>2
  <2> QED BY <1>2, <2>2, <2>3
<1>4. OnlySlot(t)
  BY <1>3 DEF OnlySlot, IsConnect, Waiting
<1> QED BY <1>1, <1>4

LEMMA StoppedOnly ==
  ASSUME TypeOK, HangUpsAnnounce, NEW t \in Tasks, Stopped(t), ~Waiting(t)
  PROVE  /\ OnlySlot(t) /\ app' = [app EXCEPT !.status = app'.status]
         /\ app'.status \in {app.status, "disconnected"}
<1>1. /\ app' = [app EXCEPT !.status = app'.status]
      /\ app'.status \in {app.status, "disconnected"}
      /\ task[t].notify => app'.status = "disconnected"
  BY SetStatusQuiet, SameApp DEF Stopped
<1>2. task[t].kind = "disconnect" => task[t].notify /\ task[t].then = "return"
  BY DEF HangUpsAnnounce
<1>3. CASE task[t].then = "start"
  BY <1>1, <1>2, <1>3, GotoOnly DEF Stopped
<1>4. CASE task[t].then # "start"
  BY <1>1, <1>2, <1>4, ReturnOnly DEF Stopped
<1> QED BY <1>1, <1>3, <1>4

LEMMA TakeDownOnly ==
  ASSUME TypeOK, HangUpsAnnounce, NEW t \in Tasks, NEW r \in RunnerType, TakeDown(t, r),
         r.userDisconnect = runner.userDisconnect, ~Waiting(t)
  PROVE  OnlySlot(t) /\ QuietFields
<1>1. runner'.userDisconnect = runner.userDisconnect
  BY DEF TakeDown, RunnerType
<1>2. CASE r.process = 0
  BY <1>1, <1>2, StoppedOnly DEF TakeDown, QuietFields
<1>3. CASE r.process # 0
  BY <1>1, <1>3, GotoOnly, SameApp DEF TakeDown, QuietFields, StopPcs
<1> QED BY <1>2, <1>3

\* A step of a task that runs at pc other than the wait: what every case below starts from.
LEMMA ResumesFacts ==
  ASSUME HangUpsAnnounce, NEW t \in Tasks, NEW pc, Resumes(t, pc), pc # "free"
  PROVE  /\ ~Untouched
         /\ pc # "await_prev" => ~Waiting(t)
         /\ pc \notin StopPcs => task[t].kind # "disconnect"
  BY DEF Resumes, At, Untouched, Waiting, HangUpsAnnounce

LEMMA AbortedFacts ==
  ASSUME NEW t \in Tasks, ~Aborted(t)
  PROVE  ~runner.userDisconnect
  BY DEF Aborted, Superseded

LEMMA DecideQuiet ==
  ASSUME TypeOK, NEW r \in RunnerType, Decide(r), r.userDisconnect = runner.userDisconnect
  PROVE  QuietFields
<1>1. runner'.userDisconnect = runner.userDisconnect
  BY DEF Decide, RunnerType
<1> QED BY <1>1, SetStatusQuiet, SameApp DEF Decide, QuietFields

LEMMA QuietTaskStep ==
  ASSUME TypeOK, HangUpsAnnounce, NEW t \in Tasks, TaskStep(t),
         ~AwaitPrevious(t), ~ConnectReturned(t)
  PROVE  QuietFields /\ OnlySlot(t) /\ ~Untouched
<1> runner \in RunnerType
  BY DEF TypeOK
<1>1. CASE StartTunnel(t)
  <2>1. Resumes(t, "start") /\ EnterTunnel(t, task[t], runner) /\ task[t] \in TaskRec
    BY <1>1 DEF StartTunnel, TypeOK
  <2>2. ~Untouched /\ ~Waiting(t) /\ task[t].kind # "disconnect"
    BY <2>1, ResumesFacts DEF StopPcs
  <2> QED BY <2>1, <2>2, EnterTunnelQuiet
<1>2. CASE IndexLoaded(t)
  <2>1. ~Untouched /\ ~Waiting(t) /\ task[t].kind # "disconnect"
    BY <1>2, ResumesFacts DEF IndexLoaded, StopPcs
  <2>2. runner'.userDisconnect = runner.userDisconnect /\ app' = app
    BY <1>2 DEF IndexLoaded, RunnerType
  <2>3. OnlySlot(t)
    BY <1>2, <2>1, GotoOnly, ReturnOnly DEF IndexLoaded
  <2> QED BY <2>1, <2>2, <2>3, SameApp DEF QuietFields
<1>3. CASE PortsAllocated(t)
  <2>1. ~Untouched /\ ~Waiting(t) /\ task[t].kind # "disconnect"
    BY <1>3, ResumesFacts DEF PortsAllocated, StopPcs
  <2>2. OnlySlot(t) /\ runner'.userDisconnect = runner.userDisconnect
    <3>1. [runner EXCEPT !.port = task[t].seq].userDisconnect = runner.userDisconnect
      BY DEF RunnerType
    <3> QED BY <1>3, <2>1, <3>1, GotoOnly, ReturnOnly, StopFromOnly DEF PortsAllocated
  <2> QED BY <1>3, <2>1, <2>2, SameApp DEF QuietFields, PortsAllocated
<1>4. CASE HostBound(t)
  <2>1. ~Untouched /\ ~Waiting(t) /\ task[t].kind # "disconnect"
    BY <1>4, ResumesFacts DEF HostBound, StopPcs
  <2>2. runner'.userDisconnect = runner.userDisconnect /\ app' = app
    BY <1>4 DEF HostBound, RunnerType
  <2>3. OnlySlot(t)
    BY <1>4, <2>1, GotoOnly DEF HostBound
  <2> QED BY <2>1, <2>2, <2>3, SameApp DEF QuietFields
<1>5. CASE HostStarted(t)
  <2>1. ~Untouched /\ ~Waiting(t) /\ task[t].kind # "disconnect"
    BY <1>5, ResumesFacts DEF HostStarted, StopPcs
  <2>2. runner'.userDisconnect = runner.userDisconnect /\ app' = app
    BY <1>5 DEF HostStarted, RunnerType
  <2>3. OnlySlot(t)
    BY <1>5, <2>1, GotoOnly, ReturnOnly DEF HostStarted
  <2> QED BY <2>1, <2>2, <2>3, SameApp DEF QuietFields
<1>6. CASE Spawned(t)
  <2>1. ~Untouched /\ ~Waiting(t) /\ task[t].kind # "disconnect"
    BY <1>6, ResumesFacts DEF Spawned, StopPcs
  <2>2. runner'.userDisconnect = runner.userDisconnect /\ app' = app
    BY <1>6 DEF Spawned, RunnerType
  <2>3. OnlySlot(t)
    BY <1>6, <2>1, GotoOnly, ReturnOnly DEF Spawned
  <2> QED BY <2>1, <2>2, <2>3, SameApp DEF QuietFields
<1>7. CASE SpawnThrows(t)
  <2>1. ~Untouched /\ ~Waiting(t) /\ task[t].kind # "disconnect"
    BY <1>7, ResumesFacts DEF SpawnThrows, StopPcs
  <2>2. OnlySlot(t) /\ runner'.userDisconnect = runner.userDisconnect
    BY <1>7, <2>1, AbortCleanupOnly, StopFromOnly DEF SpawnThrows
  <2> QED BY <1>7, <2>1, <2>2, SameApp DEF QuietFields, SpawnThrows
<1>8. CASE ApiAnswered(t)
  <2>1. ~Untouched /\ ~Waiting(t) /\ task[t].kind # "disconnect"
    BY <1>8, ResumesFacts DEF ApiAnswered, StopPcs
  <2>2. OnlySlot(t) /\ runner'.userDisconnect = runner.userDisconnect
    BY <1>8, <2>1, AbortCleanupOnly, StopFromOnly, GotoOnly, ReturnOnly DEF ApiAnswered
  <2> QED BY <1>8, <2>1, <2>2, SameApp DEF QuietFields, ApiAnswered
<1>9. CASE ProxySet(t)
  <2> DEFINE r(ok) == IF ok THEN [runner EXCEPT !.proxyTaken = TRUE, !.proxyOwner = task[t].seq]
                      ELSE [runner EXCEPT !.proxyTaken = FALSE]
  <2>1. ~Untouched /\ ~Waiting(t) /\ task[t].kind # "disconnect"
    BY <1>9, ResumesFacts DEF ProxySet, StopPcs
  <2>2. PICK ok \in BOOLEAN :
          IF Aborted(t) THEN AbortCleanup(t, r(ok)) /\ UNCHANGED app
          ELSE Goto(t, "gate") /\ runner' = r(ok) /\ SetStatus("warmingUp")
    BY <1>9 DEF ProxySet
  <2>3. r(ok) \in RunnerType /\ r(ok).userDisconnect = runner.userDisconnect
    <3>1. task[t].seq \in {0} \cup Runs
      BY DEF TypeOK, TaskRec
    <3> QED BY <3>1 DEF RunnerType
  <2> HIDE DEF r
  <2>4. OnlySlot(t) /\ runner'.userDisconnect = runner.userDisconnect
    BY <2>1, <2>2, <2>3, AbortCleanupOnly, GotoOnly
  <2> QED BY <2>1, <2>2, <2>4, SetStatusQuiet, SameApp, AbortedFacts DEF QuietFields
<1>10. CASE GatePassed(t)
  <2>1. ~Untouched /\ ~Waiting(t) /\ task[t].kind # "disconnect"
    BY <1>10, ResumesFacts DEF GatePassed, StopPcs
  <2>2. OnlySlot(t) /\ runner'.userDisconnect = runner.userDisconnect
    <3>1. [runner EXCEPT !.monitorOn = TRUE].userDisconnect = runner.userDisconnect
      BY DEF RunnerType
    <3> QED BY <1>10, <2>1, <3>1, AbortCleanupOnly, ReturnOnly DEF GatePassed
  <2> QED BY <1>10, <2>1, <2>2, SetStatusQuiet, SameApp, AbortedFacts DEF QuietFields, GatePassed
<1>11. CASE ProxyReleased(t)
  <2>1. ~Untouched /\ ~Waiting(t) /\ task[t].kind # "disconnect"
    BY <1>11, ResumesFacts DEF ProxyReleased, StopPcs
  <2> QED BY <1>11, <2>1, ReturnOnly, SameApp DEF QuietFields, ProxyReleased
<1>12. CASE HostStopped(t)
  <2>1. ~Untouched /\ ~Waiting(t)
    BY <1>12, ResumesFacts DEF HostStopped
  <2>2. CASE runner.proxyTaken
    BY <1>12, <2>1, <2>2, GotoOnly, SameApp DEF HostStopped, QuietFields, StopPcs
  <2>3. CASE ~runner.proxyTaken
    BY <1>12, <2>1, <2>3, TakeDownOnly DEF HostStopped
  <2> QED BY <2>1, <2>2, <2>3
<1>13. CASE ProxyCleared(t)
  <2>1. ~Untouched /\ ~Waiting(t)
    BY <1>13, ResumesFacts DEF ProxyCleared
  <2>2. Release(runner) \in RunnerType /\ Release(runner).userDisconnect = runner.userDisconnect
    BY DEF Release, RunnerType
  <2> QED BY <1>13, <2>1, <2>2, TakeDownOnly DEF ProxyCleared
<1>14. CASE KernelGone(t)
  <2>1. ~Untouched /\ ~Waiting(t)
    BY <1>14, ResumesFacts DEF KernelGone
  <2>2. runner'.userDisconnect = runner.userDisconnect
    BY <1>14 DEF KernelGone, RunnerType
  <2> QED BY <1>14, <2>1, <2>2, StoppedOnly DEF KernelGone, QuietFields
<1>15. CASE ExitCleared(t)
  <2>1. ~Untouched /\ ~Waiting(t) /\ task[t].kind # "disconnect"
    BY <1>15, ResumesFacts DEF ExitCleared, StopPcs
  <2>2. QuietFields
    BY <1>15, DecideQuiet DEF ExitCleared
  <2> QED BY <1>15, <2>1, <2>2, ReturnOnly DEF ExitCleared
<1> QED BY <1>1, <1>2, <1>3, <1>4, <1>5, <1>6, <1>7, <1>8, <1>9, <1>10, <1>11, <1>12,
          <1>13, <1>14, <1>15 DEF TaskStep

\* A recovery call starts in a slot that was free.
LEMMA StartsOnly ==
  ASSUME TypeOK, HangUpsAnnounce, NEW t \in Tasks, IsFirstFree(t), NEW me,
         task' = [task EXCEPT ![t] = me], me.kind \notin {"connect", "disconnect"},
         me.pc \notin {"await_prev", "done"}
  PROVE  OnlySlot(t)
<1>1. task[t].kind # "disconnect"
  BY DEF IsFirstFree, FreeTasks, HangUpsAnnounce, StopPcs
<1> QED BY <1>1 DEF OnlySlot, IsConnect, TypeOK

LEMMA QuietRecoveryStep ==
  ASSUME TypeOK, HangUpsAnnounce, RecoveryStep
  PROVE  QuietStep
<1> runner \in RunnerType
  BY DEF TypeOK
<1>1. ASSUME NEW k \in Runs, KernelCrashes(k) PROVE QuietStep
  BY <1>1, SameApp DEF KernelCrashes, QuietStep, Untouched
<1>2. ASSUME NEW k \in Runs, ExitCallback(k) PROVE QuietStep
  <2> DEFINE r == [runner EXCEPT !.process = 0, !.monitorOn = FALSE]
             me == Call("exit", "exit_clear", 0, NoProfile, "return")
  <2>1. /\ r \in RunnerType /\ r.userDisconnect = runner.userDisconnect
        /\ Release(r).userDisconnect = runner.userDisconnect
    BY DEF Release, RunnerType
  <2>2. ~Untouched
    BY <1>2 DEF ExitCallback, Untouched
  <2>3. me.kind = "exit" /\ me.pc = "exit_clear"
    BY DEF Call, Free
  <2>4. \/ UNCHANGED <<app, runner, task>>
        \/ /\ runner' = Release(r)
           /\ \E t \in Tasks : IsFirstFree(t) /\ task' = [task EXCEPT ![t] = me]
           /\ UNCHANGED app
        \/ Decide(r) /\ UNCHANGED task
    BY <1>2 DEF ExitCallback
  <2> HIDE DEF r, me
  <2> QED BY <2>1, <2>2, <2>3, <2>4, StartsOnly, DecideQuiet, SameApp DEF QuietStep, QuietFields
<1>3. CASE TimerFires
  <2> DEFINE r == [runner EXCEPT !.timer = FALSE]
             me == Call("reconnect", "start", 0, runner.lastProfile, "return")
  <2>1. r \in RunnerType /\ r.userDisconnect = runner.userDisconnect
    BY DEF RunnerType
  <2>2. ~Untouched
    BY <1>3 DEF TimerFires, Untouched
  <2>3. me \in TaskRec /\ me.kind = "reconnect"
    <3>1. runner.lastProfile \in Profiles \cup {NoProfile}
      BY DEF RunnerType
    <3> QED BY <3>1, CallTyped DEF Kinds, Pcs, StartPcs, Call, Free
  <2>4. \/ runner' = r /\ UNCHANGED <<app, task, kernel>>
        \/ \E t \in Tasks : IsFirstFree(t) /\ EnterTunnel(t, me, r)
    BY <1>3 DEF TimerFires
  <2>5. \A t \in Tasks : IsFirstFree(t) => ~Waiting(t) /\ task[t].kind # "disconnect"
    BY DEF IsFirstFree, FreeTasks, Waiting, HangUpsAnnounce, StopPcs
  <2> HIDE DEF r, me
  <2> QED BY <2>1, <2>2, <2>3, <2>4, <2>5, EnterTunnelQuiet, SameApp DEF QuietStep, QuietFields
<1>4. CASE TickStarts
  BY <1>4, SameApp DEF TickStarts, QuietStep, Untouched
<1>5. CASE TickHealthy
  BY <1>5, SameApp DEF TickHealthy, QuietStep, Untouched
<1>6. CASE TickUnhealthy
  <2> DEFINE me == Call("restart", StopPc(runner), 0, runner.lastProfile, "start")
  <2>1. runner'.userDisconnect = runner.userDisconnect
    BY <1>6 DEF TickUnhealthy, StopBegins, RunnerType
  <2>2. me.kind = "restart" /\ me.pc \in StopPcs
    BY DEF Call, Free, StopPc, StopPcs
  <2>3. \/ UNCHANGED task
        \/ \E t \in Tasks : IsFirstFree(t) /\ task' = [task EXCEPT ![t] = me]
    BY <1>6 DEF TickUnhealthy
  <2>4. ~Untouched /\ app' = app
    BY <1>6 DEF TickUnhealthy, Untouched
  <2> HIDE DEF me
  <2> QED BY <2>1, <2>2, <2>3, <2>4, StartsOnly, SameApp DEF QuietStep, StopPcs
<1> QED BY <1>1, <1>2, <1>3, <1>4, <1>5, <1>6 DEF RecoveryStep

LEMMA QuietWatchdogStep ==
  ASSUME TypeOK, WatchdogStep
  PROVE  QuietStep
<1>1. ~Untouched
  BY DEF WatchdogStep, ReconcileStarts, PortProbed, BackupProbed, WatchdogCleared, Watchdog,
         Untouched
<1>2. app' = app /\ task' = task /\ runner'.userDisconnect = runner.userDisconnect
  BY ReconcileSteps DEF Looks, WatchdogCleared, Release, TypeOK, RunnerType
<1> QED BY <1>1, <1>2, SameApp DEF QuietStep

\* AppState's fields that the commands change before they dial or hang up.
SameRound(a) ==
  /\ a \in AppType
  /\ a.want = app.want /\ a.status = app.status /\ a.attempt = app.attempt
  /\ a.generation = app.generation /\ a.cancelled = app.cancelled
  /\ a.inflight = app.inflight

LEMMA StoreKeepsRounds ==
  ASSUME TypeOK, RoundInv, NEW a, SameRound(a), app' = a, UNCHANGED <<runner, task>>,
         NEW c, Command(c)
  PROVE  RoundInv'
<1>1. Untouched => Untouched'
  BY DEF Untouched, SameRound, Command
<1> QED BY <1>1 DEF SameRound, RoundInv, OnlyInflightRuns, TokensDistinct, WaitingIsCurrent,
     WaitersConnect, HangUpsAnnounce, NoIntentNoAttempt, IntentHonoured, IsConnect, Waiting

LEMMA HangUpKeepsRounds ==
  ASSUME TypeOK, RoundInv, NEW a, SameRound(a), HangUp(a)
  PROVE  RoundInv'
<1>1. PICK t \in Tasks : HangUpIn(t, a)
  BY DEF HangUp
<1>2. /\ app'.want = FALSE /\ app'.attempt = 0 /\ app'.generation = app.generation
      /\ app'.inflight = app.inflight
      /\ app'.cancelled = app.cancelled \cup ({app.attempt} \ {0})
  BY <1>1 DEF HangUpIn, CancelAttempt, SameRound, AppType
<1>3. runner'.userDisconnect
  BY <1>1 DEF HangUpIn, StopBegins, TypeOK, RunnerType
<1>4. /\ \A u \in Tasks : u # t => task'[u] = task[u]
      /\ task'[t].kind = "disconnect" /\ task'[t].notify /\ task'[t].then = "return"
      /\ task'[t].pc \in StopPcs
  BY <1>1 DEF HangUpIn, Call, Free, StopPc, StopPcs, TypeOK
<1>5. OnlyInflightRuns' /\ TokensDistinct' /\ WaitersConnect' /\ HangUpsAnnounce'
  BY <1>2, <1>4 DEF RoundInv, OnlyInflightRuns, TokensDistinct, WaitersConnect, HangUpsAnnounce,
                    IsConnect, Waiting, StopPcs
<1>6. WaitingIsCurrent'
  BY <1>2, <1>4 DEF RoundInv, WaitingIsCurrent, TokensDistinct, IsConnect, Waiting
<1>7. NoIntentNoAttempt' /\ IntentHonoured'
  BY <1>2, <1>3, <1>4 DEF NoIntentNoAttempt, IntentHonoured
<1> QED BY <1>5, <1>6, <1>7 DEF RoundInv

LEMMA DialKeepsRounds ==
  ASSUME TypeOK, RoundInv, NEW a, SameRound(a), Dial(a), NEW c, Command(c)
  PROVE  RoundInv'
<1>1. CASE a.active = NoProfile \/ a.active \in NeedsCredentials
  BY <1>1, StoreKeepsRounds DEF Dial
<1>2. ASSUME NEW t \in Tasks, DialIn(t, a)
      PROVE  RoundInv'
  <2> DEFINE g == app.generation + 1
  <2>1. /\ app'.want = TRUE /\ app'.attempt = g /\ app'.generation = g
        /\ app'.inflight = (IF app.inflight = NoTask THEN t ELSE app.inflight)
        /\ app'.cancelled = app.cancelled \cup ({app.attempt} \ {0})
    BY <1>2 DEF DialIn, CancelAttempt, SameRound, AppType
  <2>2. /\ \A u \in Tasks : u # t => task'[u] = task[u]
        /\ task'[t].kind = "connect" /\ task'[t].att = g
        /\ task'[t].pc = "await_prev" <=> app.inflight # NoTask
    <3> DEFINE me(pc) == Call("connect", pc, g, a.active, "start")
    <3>1. \/ app.inflight # NoTask /\ task' = [task EXCEPT ![t] = me("await_prev")]
          \/ app.inflight = NoTask /\ task' = [task EXCEPT ![t] = me(StopPc(runner))]
      BY <1>2 DEF DialIn, MustWait, SameRound
    <3>2. \A pc : /\ me(pc).kind = "connect" /\ me(pc).att = g /\ me(pc).pc = pc
      BY DEF Call, Free
    <3>3. StopPc(runner) # "await_prev"
      BY DEF StopPc
    <3> QED BY <3>1, <3>2, <3>3 DEF TypeOK
  <2>3. g \in Nat /\ app.generation \in Nat /\ g # 0 /\ app.generation < g
    BY DEF TypeOK, AppType, Attempts
  <2>4. \A u \in Tasks : task[u].att \in Nat
    BY DEF TypeOK, TaskRec, Attempts
  <2>5. NoTask \notin Tasks
    BY DEF NoTask, Tasks
  <2>6. OnlyInflightRuns' /\ WaitersConnect' /\ HangUpsAnnounce'
    BY <2>1, <2>2, <2>5 DEF RoundInv, OnlyInflightRuns, WaitersConnect, HangUpsAnnounce,
                            IsConnect, Waiting
  <2>7. TokensDistinct'
    BY <2>1, <2>2, <2>3, <2>4 DEF RoundInv, TokensDistinct, IsConnect
  <2>8. WaitingIsCurrent'
    BY <2>1, <2>2 DEF RoundInv, WaitingIsCurrent, TokensDistinct, IsConnect, Waiting
  <2> QED BY <2>1, <2>6, <2>7, <2>8 DEF RoundInv, NoIntentNoAttempt, IntentHonoured
<1> QED BY <1>1, <1>2 DEF Dial

LEMMA AwaitKeepsRounds ==
  ASSUME TypeOK, RoundInv, NEW t \in Tasks, AwaitPrevious(t)
  PROVE  RoundInv' /\ app'.status = app.status
<1>1. task[t].pc = "await_prev" /\ app.inflight = NoTask
  BY DEF AwaitPrevious, Resumes, At
<1>2. NoTask \notin Tasks
  BY DEF NoTask, Tasks
<1>3. \A u \in Tasks : IsConnect(u) => Waiting(u)
  BY <1>1, <1>2 DEF RoundInv, OnlyInflightRuns
<1>4. ~Untouched
  BY <1>1 DEF Untouched
<1>5. task[t].kind # "disconnect"
  BY <1>1 DEF RoundInv, HangUpsAnnounce, StopPcs
<1>6. CASE task[t].att \in app.cancelled
  <2>1. /\ app' = app /\ runner' = runner /\ task'[t].kind = "none" /\ task'[t].pc = "free"
        /\ \A u \in Tasks : u # t => task'[u] = task[u]
    BY <1>6 DEF AwaitPrevious, Free, TypeOK
  <2>2. /\ OnlyInflightRuns' /\ TokensDistinct' /\ WaitingIsCurrent'
        /\ WaitersConnect' /\ HangUpsAnnounce'
    BY <2>1 DEF RoundInv, OnlyInflightRuns, TokensDistinct, WaitingIsCurrent, WaitersConnect,
                HangUpsAnnounce, IsConnect, Waiting
  <2>3. NoIntentNoAttempt' /\ IntentHonoured'
    BY <1>4, <1>5, <2>1 DEF RoundInv, NoIntentNoAttempt, IntentHonoured
  <2> QED BY <2>1, <2>2, <2>3 DEF RoundInv
<1>7. CASE task[t].att \notin app.cancelled
  <2>1. /\ app'.inflight = t /\ app'.attempt = app.attempt /\ app'.want = app.want
        /\ app'.generation = app.generation /\ app'.cancelled = app.cancelled
        /\ app'.status = app.status
    BY <1>7 DEF AwaitPrevious, TypeOK, AppType
  <2>2. /\ task'[t].kind = task[t].kind /\ task'[t].att = task[t].att
        /\ task'[t].pc \in StopPcs
        /\ \A u \in Tasks : u # t => task'[u] = task[u]
    <3>1. task' = [task EXCEPT ![t] = [task[t] EXCEPT !.pc = StopPc(runner)]]
      BY <1>7 DEF AwaitPrevious, Goto, TypeOK
    <3> QED BY <3>1 DEF StopPc, StopPcs, TypeOK, TaskRec
  <2>3. /\ OnlyInflightRuns' /\ TokensDistinct' /\ WaitingIsCurrent'
        /\ WaitersConnect' /\ HangUpsAnnounce'
    BY <1>3, <1>5, <2>1, <2>2 DEF RoundInv, OnlyInflightRuns, TokensDistinct,
         WaitingIsCurrent, WaitersConnect, HangUpsAnnounce, IsConnect, Waiting, StopPcs
  <2>4. CASE app.want
    BY <2>1, <2>3, <2>4 DEF RoundInv, NoIntentNoAttempt, IntentHonoured
  <2>5. CASE ~app.want
    \* Then there is no attempt, and a connect that waits would have been cancelled.
    <3>1. app.attempt = 0
      BY <2>5 DEF RoundInv, NoIntentNoAttempt
    <3> QED BY <1>1, <1>7, <3>1 DEF RoundInv, WaitersConnect, WaitingIsCurrent, TokensDistinct,
                                    IsConnect, Waiting
  <2> QED BY <2>1, <2>4, <2>5
<1> QED BY <1>6, <1>7

LEMMA ReturnKeepsRounds ==
  ASSUME TypeOK, RoundInv, NEW t \in Tasks, ConnectReturned(t)
  PROVE  RoundInv' /\ app'.status = app.status
<1>1. task[t].pc = "done" /\ ~Untouched /\ task[t].kind # "disconnect" /\ IsConnect(t)
  BY DEF ConnectReturned, Resumes, At, Untouched, RoundInv, HangUpsAnnounce, WaitersConnect,
         StopPcs
<1>2. /\ app'.inflight = (IF app.inflight = t THEN NoTask ELSE app.inflight)
      /\ app'.attempt = (IF app.attempt = task[t].att THEN 0 ELSE app.attempt)
      /\ app'.want = app.want /\ app'.generation = app.generation
      /\ app'.cancelled = app.cancelled /\ app'.status = app.status
  BY DEF ConnectReturned, TypeOK, AppType
<1>3. /\ runner' = runner /\ task'[t].kind = "none" /\ task'[t].pc = "free"
      /\ \A u \in Tasks : u # t => task'[u] = task[u]
  BY DEF ConnectReturned, Free, TypeOK
<1>4. app.inflight = t /\ task[t].att # 0
  BY <1>1 DEF RoundInv, OnlyInflightRuns, TokensDistinct, IsConnect, Waiting
<1>5. OnlyInflightRuns' /\ TokensDistinct' /\ WaitersConnect' /\ HangUpsAnnounce'
  BY <1>2, <1>3, <1>4 DEF RoundInv, OnlyInflightRuns, TokensDistinct, WaitersConnect,
                          HangUpsAnnounce, IsConnect, Waiting
<1>6. WaitingIsCurrent'
  BY <1>1, <1>2, <1>3 DEF RoundInv, WaitingIsCurrent, TokensDistinct, IsConnect, Waiting
<1>7. NoIntentNoAttempt' /\ IntentHonoured'
  BY <1>1, <1>2, <1>3, <1>4 DEF RoundInv, NoIntentNoAttempt, IntentHonoured
<1> QED BY <1>2, <1>5, <1>6, <1>7 DEF RoundInv

\* What a command does to the rounds: it hangs up, dials, or only stores its change.
CommandCase(a, c) ==
  /\ SameRound(a) /\ Command(c)
  /\ HangUp(a) \/ Dial(a) \/ (app' = a /\ UNCHANGED <<runner, task>>)

LEMMA CommandCases ==
  ASSUME TypeOK, UserStep
  PROVE  \E a \in AppType : \E c \in Commands : CommandCase(a, c)
<1> USE DEF CommandCase, Commands
<1>0. \A a : SameRound(a) => a \in AppType
  BY DEF SameRound
<1>1. SameRound(app)
  BY DEF SameRound, TypeOK
<1>2. CASE ToggleConnection
  BY <1>0, <1>1, <1>2 DEF ToggleConnection
<1>3. CASE CancelConnect
  BY <1>0, <1>1, <1>3 DEF CancelConnect
<1>4. CASE SetActiveProfile
  <2>1. PICK p \in app.profiles : Redial([app EXCEPT !.active = p])
    BY <1>4 DEF SetActiveProfile
  <2>2. SameRound([app EXCEPT !.active = p])
    BY DEF SameRound, TypeOK, AppType
  <2> QED BY <1>0, <1>4, <2>1, <2>2 DEF SetActiveProfile, Redial
<1>5. CASE SetProfileCredentials
  BY <1>0, <1>1, <1>5 DEF SetProfileCredentials, Redial
<1>6. CASE RemoveProfile
  <2>1. PICK p \in app.profiles :
          LET rest == [app EXCEPT !.profiles = @ \ {p}] IN
          IF p # app.active THEN app' = rest /\ UNCHANGED <<runner, task>>
          ELSE IF rest.profiles = {} THEN HangUp([rest EXCEPT !.active = NoProfile])
          ELSE \E q \in rest.profiles : Redial([rest EXCEPT !.active = q])
    BY <1>6 DEF RemoveProfile
  <2> DEFINE rest == [app EXCEPT !.profiles = @ \ {p}]
  <2>2. SameRound(rest)
    BY DEF SameRound, TypeOK, AppType
  <2>3. \A q \in rest.profiles \cup {NoProfile} : SameRound([rest EXCEPT !.active = q])
    BY DEF SameRound, TypeOK, AppType
  <2>4. Command("remove")
    BY <1>6 DEF RemoveProfile
  <2>5. \/ app' = rest /\ UNCHANGED <<runner, task>>
        \/ HangUp([rest EXCEPT !.active = NoProfile])
        \/ \E q \in rest.profiles : Redial([rest EXCEPT !.active = q])
    BY <2>1
  <2> HIDE DEF rest
  <2> QED BY <1>0, <2>2, <2>3, <2>4, <2>5 DEF Redial
<1>7. CASE ImportConf
  <2>1. PICK p \in Profiles :
          LET a == [app EXCEPT !.profiles = @ \cup {p}, !.active = p] IN
          IF a.status = "disconnected" THEN Dial(a) ELSE app' = a /\ UNCHANGED <<runner, task>>
    BY <1>7 DEF ImportConf
  <2> DEFINE a == [app EXCEPT !.profiles = @ \cup {p}, !.active = p]
  <2>2. SameRound(a)
    BY DEF SameRound, TypeOK, AppType
  <2>3. Command("import") /\ (Dial(a) \/ (app' = a /\ UNCHANGED <<runner, task>>))
    BY <1>7, <2>1 DEF ImportConf
  <2> HIDE DEF a
  <2> QED BY <1>0, <2>2, <2>3
<1> QED BY <1>2, <1>3, <1>4, <1>5, <1>6, <1>7 DEF UserStep

LEMMA CommandKeepsRounds ==
  ASSUME TypeOK, RoundInv, UserStep
  PROVE  RoundInv'
<1> USE DEF CommandCase
<1>1. PICK a \in AppType, c \in Commands : CommandCase(a, c)
  BY CommandCases
<1>2. CASE HangUp(a)
  BY <1>1, <1>2, HangUpKeepsRounds
<1>3. CASE Dial(a)
  BY <1>1, <1>3, DialKeepsRounds
<1>4. CASE app' = a /\ UNCHANGED <<runner, task>>
  BY <1>1, <1>4, StoreKeepsRounds
<1> QED BY <1>1, <1>2, <1>3, <1>4

LEMMA RoundInvInductive ==
  ASSUME TypeInv, RoundInv, [Next]_vars
  PROVE  RoundInv'
<1> TypeOK /\ TypeOK' /\ HangUpsAnnounce
  BY TypeInvInductive DEF TypeInv, RoundInv
<1>1. CASE UserStep
  BY <1>1, CommandKeepsRounds
<1>2. ASSUME NEW t \in Tasks, TaskStep(t) PROVE RoundInv'
  <2>1. CASE AwaitPrevious(t)
    BY <2>1, AwaitKeepsRounds
  <2>2. CASE ConnectReturned(t)
    BY <2>2, ReturnKeepsRounds
  <2>3. CASE ~AwaitPrevious(t) /\ ~ConnectReturned(t)
    <3>1. QuietStep
      BY <1>2, <2>3, QuietTaskStep DEF QuietStep, QuietFields
    <3> QED BY <3>1, QuietKeepsRounds
  <2> QED BY <2>1, <2>2, <2>3
<1>3. CASE RecoveryStep
  BY <1>3, QuietRecoveryStep, QuietKeepsRounds
<1>4. CASE WatchdogStep
  BY <1>4, QuietWatchdogStep, QuietKeepsRounds
<1>5. CASE UNCHANGED vars
  BY <1>5 DEF vars, RoundInv, OnlyInflightRuns, TokensDistinct, WaitingIsCurrent, WaitersConnect,
     HangUpsAnnounce, NoIntentNoAttempt, IntentHonoured, Untouched, IsConnect, Waiting
<1> QED BY <1>1, <1>2, <1>3, <1>4, <1>5 DEF Next

LEMMA InitRounds == Init => RoundInv
  BY DEF Init, Free, RoundInv, OnlyInflightRuns, TokensDistinct, WaitingIsCurrent, WaitersConnect,
     HangUpsAnnounce, NoIntentNoAttempt, IntentHonoured, Untouched, IsConnect, Waiting

LEMMA RoundInvariant == Spec => [](TypeInv /\ RoundInv)
<1>1. Init => TypeInv /\ RoundInv
  BY InitTyped, InitRounds
<1>2. TypeInv /\ RoundInv /\ [Next]_vars => (TypeInv /\ RoundInv)'
  BY TypeInvInductive, RoundInvInductive
<1> QED BY <1>1, <1>2, PTL DEF Spec

\* The status agrees with the stored intent, for any number of commands, rounds,
\* crashes and restarts.  (AppState._wantConnected, VpnStatus.)
THEOREM IntentAlwaysHonoured == Spec => []IntentHonoured
  BY RoundInvariant, PTL DEF RoundInv

\* At most one call of the core's connect runs, for any number of dials.
\* (AppState._inFlightConnect.)
THEOREM ConnectsAlwaysSerialized == Spec => []ConnectsSerialized
<1>1. RoundInv => ConnectsSerialized
  BY DEF RoundInv, OnlyInflightRuns, ConnectsSerialized, IsConnect, Waiting, At
<1> QED BY <1>1, RoundInvariant, PTL

\* No step of any task, callback, timer or verdict lifts the status after a hang-up.
\* (The aborted() tests of SingBoxRunner._startTunnel.)
THEOREM NeverRevived == Spec => NoRevival
<1>1. TypeInv /\ RoundInv /\ [Next]_vars
        => [runner.userDisconnect /\ runner'.userDisconnect
              => app'.status \in {app.status, "disconnected"}]_vars
  <2> SUFFICES ASSUME TypeInv, RoundInv, [Next]_vars, runner.userDisconnect
               PROVE  app'.status \in {app.status, "disconnected"}
    OBVIOUS
  <2> TypeOK /\ HangUpsAnnounce
    BY DEF TypeInv, RoundInv
  <2>1. CASE UserStep
    <3>1. PICK a \in AppType, c \in Commands : CommandCase(a, c)
      BY <2>1, CommandCases
    <3>2. \/ app' = a
          \/ app' = [CancelAttempt(a) EXCEPT !.want = FALSE]
          \/ \E t \in Tasks : DialIn(t, a)
      BY <3>1 DEF CommandCase, HangUp, HangUpIn, Dial
    <3>3. (\E t \in Tasks : DialIn(t, a)) => app'.status = a.status
      BY <3>1 DEF CommandCase, DialIn, CancelAttempt, SameRound, AppType
    <3> QED BY <3>1, <3>2, <3>3 DEF CommandCase, SameRound, CancelAttempt, AppType
  <2>2. ASSUME NEW t \in Tasks, TaskStep(t)
        PROVE  app'.status \in {app.status, "disconnected"}
    BY <2>2, AwaitKeepsRounds, ReturnKeepsRounds, QuietTaskStep DEF QuietFields
  <2>3. CASE RecoveryStep
    BY <2>3, QuietRecoveryStep DEF QuietStep
  <2>4. CASE WatchdogStep
    BY <2>4, QuietWatchdogStep DEF QuietStep
  <2>5. CASE UNCHANGED vars
    BY <2>5 DEF vars
  <2> QED BY <2>1, <2>2, <2>3, <2>4, <2>5 DEF Next
<1> QED BY <1>1, RoundInvariant, PTL DEF Spec, NoRevival

-----------------------------------------------------------------------------
(***************************************************************************)
(* The reconnect timer.  Only the exit callback arms it, and it looks at   *)
(* the flag of the hang-up after its last await.                           *)
(***************************************************************************)
\* An armed timer beside a raised flag was already there before the step.
TimerKept == runner'.timer /\ runner'.userDisconnect => runner.timer /\ runner.userDisconnect

\* A runner record that differs from r in neither the timer nor the flag.
SameTimer(r, s) == s.timer = r.timer /\ s.userDisconnect = r.userDisconnect

LEMMA RunnerHelpers ==
  ASSUME NEW r \in RunnerType
  PROVE  SameTimer(r, StopBegins(r)) /\ SameTimer(r, Release(r))
  BY DEF SameTimer, StopBegins, Release, RunnerType

LEMMA AbortCleanupTimer ==
  ASSUME NEW r \in RunnerType, NEW t, AbortCleanup(t, r)
  PROVE  SameTimer(r, runner')
  BY RunnerHelpers DEF AbortCleanup, StopFrom, SameTimer

LEMMA EnterTunnelTimer ==
  ASSUME NEW r \in RunnerType, NEW t, NEW me, EnterTunnel(t, me, r)
  PROVE  SameTimer(r, runner')
  BY DEF EnterTunnel, SameTimer, RunnerType

LEMMA TakeDownTimer ==
  ASSUME NEW r \in RunnerType, NEW t, TakeDown(t, r)
  PROVE  SameTimer(r, runner')
  BY DEF TakeDown, SameTimer, RunnerType

LEMMA DecideTimer ==
  ASSUME NEW r \in RunnerType, SameTimer(runner, r), Decide(r)
  PROVE  TimerKept
  BY DEF Decide, SameTimer, TimerKept, RunnerType

LEMMA TaskTimer ==
  ASSUME TypeOK, NEW t \in Tasks, TaskStep(t)
  PROVE  TimerKept
<1> runner \in RunnerType
  BY DEF TypeOK
<1> USE DEF SameTimer, TimerKept
<1>1. CASE AwaitPrevious(t)
  BY <1>1 DEF AwaitPrevious, CoreConnect, StopBegins, RunnerType
<1>2. CASE ConnectReturned(t)
  BY <1>2 DEF ConnectReturned
<1>3. CASE StartTunnel(t)
  BY <1>3, EnterTunnelTimer DEF StartTunnel
<1>4. CASE IndexLoaded(t)
  BY <1>4 DEF IndexLoaded, RunnerType
<1>5. CASE PortsAllocated(t)
  BY <1>5, RunnerHelpers DEF PortsAllocated, StopFrom, RunnerType
<1>6. CASE HostBound(t) \/ HostStarted(t) \/ Spawned(t) \/ KernelGone(t)
  BY <1>6 DEF HostBound, HostStarted, Spawned, KernelGone, RunnerType
<1>7. CASE SpawnThrows(t) \/ ApiAnswered(t)
  BY <1>7, RunnerHelpers, AbortCleanupTimer DEF SpawnThrows, ApiAnswered, StopFrom
<1>8. CASE ProxySet(t)
  <2> DEFINE r(ok) == IF ok THEN [runner EXCEPT !.proxyTaken = TRUE, !.proxyOwner = task[t].seq]
                      ELSE [runner EXCEPT !.proxyTaken = FALSE]
  <2>1. \E ok \in BOOLEAN : AbortCleanup(t, r(ok)) \/ runner' = r(ok)
    BY <1>8 DEF ProxySet
  <2>2. \A ok \in BOOLEAN : r(ok) \in RunnerType /\ SameTimer(runner, r(ok))
    BY DEF TypeOK, TaskRec, RunnerType
  <2> HIDE DEF r
  <2> QED BY <2>1, <2>2, AbortCleanupTimer
<1>9. CASE GatePassed(t)
  BY <1>9, AbortCleanupTimer DEF GatePassed, RunnerType
<1>10. CASE ProxyReleased(t)
  BY <1>10 DEF ProxyReleased
<1>11. CASE HostStopped(t)
  BY <1>11, TakeDownTimer DEF HostStopped
<1>12. CASE ProxyCleared(t)
  <2>1. Release(runner) \in RunnerType
    BY DEF Release, RunnerType
  <2> QED BY <1>12, <2>1, RunnerHelpers, TakeDownTimer DEF ProxyCleared
<1>13. CASE ExitCleared(t)
  BY <1>13, DecideTimer DEF ExitCleared
<1> QED BY <1>1, <1>2, <1>3, <1>4, <1>5, <1>6, <1>7, <1>8, <1>9, <1>10, <1>11, <1>12, <1>13
        DEF TaskStep

LEMMA RecoveryTimer ==
  ASSUME TypeOK, RecoveryStep
  PROVE  TimerKept
<1> runner \in RunnerType
  BY DEF TypeOK
<1> USE DEF SameTimer, TimerKept
<1>1. ASSUME NEW k \in Runs, KernelCrashes(k) PROVE TimerKept
  BY <1>1 DEF KernelCrashes
<1>2. ASSUME NEW k \in Runs, ExitCallback(k) PROVE TimerKept
  <2> DEFINE r == [runner EXCEPT !.process = 0, !.monitorOn = FALSE]
  <2>1. r \in RunnerType /\ SameTimer(runner, r)
    BY DEF RunnerType
  <2>2. runner' = runner \/ runner' = Release(r) \/ Decide(r)
    BY <1>2 DEF ExitCallback
  <2> HIDE DEF r
  <2> QED BY <2>1, <2>2, RunnerHelpers, DecideTimer
<1>3. CASE TimerFires
  <2> DEFINE r == [runner EXCEPT !.timer = FALSE]
  <2>1. r \in RunnerType /\ ~r.timer
    BY DEF RunnerType
  <2>2. runner' = r \/ \E t, me : EnterTunnel(t, me, r)
    BY <1>3 DEF TimerFires
  <2> HIDE DEF r
  <2> QED BY <2>1, <2>2, EnterTunnelTimer
<1>4. CASE TickStarts \/ TickHealthy
  BY <1>4 DEF TickStarts, TickHealthy
<1>5. CASE TickUnhealthy
  BY <1>5 DEF TickUnhealthy, StopBegins, RunnerType
<1> QED BY <1>1, <1>2, <1>3, <1>4, <1>5 DEF RecoveryStep

LEMMA WatchdogTimer ==
  ASSUME TypeOK, WatchdogStep
  PROVE  TimerKept
  BY RunnerHelpers, ReconcileSteps DEF TypeOK, SameTimer, TimerKept, Looks, WatchdogCleared

\* A command either leaves the runner alone, clears the timer with the flag (a dial) or
\* clears the timer and raises the flag (a hang-up).
LEMMA CommandTimer ==
  ASSUME TypeOK, UserStep
  PROVE  TimerKept
<1> runner \in RunnerType
  BY DEF TypeOK
<1>1. PICK a \in AppType, c \in Commands : CommandCase(a, c)
  BY CommandCases
<1>2. CASE HangUp(a)
  BY <1>2 DEF HangUp, HangUpIn, StopBegins, RunnerType, TimerKept
<1>3. CASE Dial(a)
  BY <1>3 DEF Dial, DialIn, CoreConnect, StopBegins, RunnerType, TimerKept
<1>4. CASE UNCHANGED <<runner, task>>
  BY <1>4 DEF TimerKept
<1> QED BY <1>1, <1>2, <1>3, <1>4 DEF CommandCase

\* A hang-up leaves no reconnect armed, whatever exit callbacks were waiting for the
\* system proxy when it happened.  (_scheduleReconnect, CrashRecovery.onCoreExit.)
THEOREM NeverTimerAfterHangUp == Spec => []NoTimerAfterHangUp
<1>1. Init => TypeInv /\ NoTimerAfterHangUp
  <2>1. Init => ~runner.timer
    BY DEF Init
  <2> QED BY <2>1, InitTyped DEF NoTimerAfterHangUp
<1>2. ASSUME TypeInv, NoTimerAfterHangUp, [Next]_vars
      PROVE  (TypeInv /\ NoTimerAfterHangUp)'
  <2>1. TypeInv' /\ TypeOK
    BY <1>2, TypeInvInductive DEF TypeInv
  <2>2. CASE UNCHANGED vars
    BY <1>2, <2>1, <2>2 DEF vars, NoTimerAfterHangUp
  <2>3. CASE Next
    BY <1>2, <2>1, <2>3, CommandTimer, TaskTimer, RecoveryTimer, WatchdogTimer
       DEF Next, TimerKept, NoTimerAfterHangUp
  <2> QED BY <1>2, <2>2, <2>3
<1> QED BY <1>1, <1>2, PTL DEF Spec

-----------------------------------------------------------------------------
(***************************************************************************)
(* The tunnel at rest: that no kernel is orphaned, that the ring climbs in *)
(* order, that "connected" and "disconnected" mean what they say, that the *)
(* tunnel is the one of the active profile; and, for every user, that a    *)
(* dead proxy is watched.  Each holds under conditions that section 4 of   *)
(* the README shows to be needed; they are hypotheses of the theorems and  *)
(* say which actors or faults stay away.                                   *)
(***************************************************************************)
\* No kernel exits by itself and no health verdict restarts one.
Calm == MaxCrashes = 0 /\ MaxHealth = 0

\* Calm, and before any command but a cancel the user lets a hang-up finish, and once
\* disconnected everything else.
Patience == Calm /\ PatientUser

-----------------------------------------------------------------------------
(***************************************************************************)
(* The invariant.                                                          *)
(***************************************************************************)
BuildPcs == {"start", "index", "ports", "bind", "verify", "spawn"}
UpPcs    == {"api", "set_proxy", "gate"}
HaltPcs  == {"stop_idle", "stop_host", "stop_clear"}

Running(t) == IsConnect(t) /\ ~Waiting(t)

\* A connect of the current attempt that has yet to enter _startTunnel.
Dials(t) == /\ IsConnect(t) /\ task[t].att = app.attempt
            /\ \/ task[t].pc \in {"await_prev", "start"}
               \/ task[t].pc \in StopPcs /\ task[t].then = "start"

\* Every call in flight is the user's: a dial or a hang-up.
OnlyUserCalls ==
  \A t \in Tasks :
    \/ task[t].kind = "none" /\ task[t].pc = "free"
    \/ task[t].kind = "disconnect" /\ task[t].pc \in StopPcs
    \/ /\ IsConnect(t)
       /\ task[t].pc \in {"await_prev", "done"} \cup StartPcs \cup StopPcs
       /\ task[t].pc = "await_prev" => task[t].then = "start"

\* Nothing recovers, for nothing has failed.
NothingFails ==
  /\ budget.crashes = 0 /\ budget.health = 0
  /\ ~runner.timer /\ ~tick
  /\ \A k \in Runs : kernel[k].st # "exited"

\* The slot that AppState remembers is a round that runs.
InflightRuns == app.inflight # NoTask => app.inflight \in Tasks /\ Running(app.inflight)

\* A round that was not cancelled is the current attempt; tokens are numbered upwards.
TokensCurrent ==
  /\ \A t \in Tasks : IsConnect(t) => \/ task[t].att \in app.cancelled
                                      \/ task[t].att = app.attempt
  /\ app.attempt \notin app.cancelled /\ app.attempt <= app.generation
  /\ \A c \in app.cancelled : c <= app.generation

\* The current attempt is held by a round, and while a round runs for a user who wants
\* a connection there is a current attempt.
AttemptHeld ==
  /\ app.attempt # 0 => \E t \in Tasks : IsConnect(t) /\ task[t].att = app.attempt
  /\ app.want /\ app.inflight # NoTask => app.attempt # 0

\* A round past the entry of _startTunnel is the newest run.
SeqCurrent ==
  \A t \in Tasks : IsConnect(t) /\ task[t].pc \in StartPcs \ {"start"}
    => task[t].seq = runner.attemptSeq /\ task[t].seq # 0

\* Between the end of _stopCore and the spawn nothing of an older run is left.
BuildsAlone ==
  \A t \in Tasks : IsConnect(t) /\ task[t].pc \in BuildPcs \cup {"stop_exit"}
    => runner.process = 0 /\ ~runner.proxyTaken

\* The kernel that runs is the one the runner knows.
KernelKnown == \A k \in Runs : kernel[k].st = "live" <=> k = runner.process

CalmInv ==
  /\ OnlyUserCalls /\ NothingFails /\ InflightRuns /\ TokensCurrent /\ AttemptHeld
  /\ SeqCurrent /\ BuildsAlone /\ KernelKnown

\* A user who wants a connection is not being hung up.
WantedIsUp ==
  app.want => ~runner.userDisconnect /\ \A t \in Tasks : task[t].kind # "disconnect"

\* While the user wants a connection, the status says how far the round has come.
Climbs(t) ==
  /\ task[t].pc \in StartPcs \ {"start", "gate"} => app.status = "connecting"
  /\ task[t].pc = "gate" => app.status = "warmingUp"
  /\ task[t].pc \in StopPcs /\ task[t].then = "return" => app.status # "connected"
  /\ task[t].pc \in UpPcs => runner.process = task[t].seq

Climbing == app.want => \A t \in Tasks : IsConnect(t) => Climbs(t)

\* "Connected": a kernel runs, or the next dial is on its way.
Serving == app.want /\ app.status = "connected" => runner.process # 0 \/ \E t \in Tasks : Dials(t)

\* "Disconnected": nothing is left.
Down == app.want /\ app.status = "disconnected" => runner.process = 0 /\ ~runner.proxyTaken

\* What a hang-up finds is being taken down.
WindsDown ==
  ~app.want /\ (runner.process # 0 \/ runner.proxyTaken)
    => \E t \in Tasks : \/ task[t].pc \in HaltPcs
                        \/ IsConnect(t) /\ task[t].pc \in UpPcs

RestInv == WantedIsUp /\ Climbing /\ Serving /\ Down /\ WindsDown

\* The system proxy is the runner's exactly while it knows so.
ProxyOwned ==
  /\ proxy.installed = IF runner.proxyTaken THEN runner.proxyOwner ELSE 0
  /\ runner.proxyTaken => runner.proxyOwner # 0
  /\ app.want /\ runner.proxyTaken => runner.proxyOwner = runner.process

\* The current attempt dials the active profile; a kernel was given its round's profile.
ProfilesDialled ==
  /\ \A t \in Tasks : IsConnect(t) /\ task[t].att = app.attempt => task[t].prof = app.active
  /\ app.want => \A t \in Tasks : IsConnect(t) /\ task[t].pc \in UpPcs
       => kernel[task[t].seq].prof = task[t].prof

ServesActive ==
  app.want /\ app.status = "connected"
    => \/ runner.process # 0 /\ kernel[runner.process].prof = app.active
       \/ \E t \in Tasks : Dials(t)

-----------------------------------------------------------------------------
(***************************************************************************)
(* What a step does to the slot of its task, field by field.               *)
(***************************************************************************)
Others(t) == \A u \in Tasks : u # t => task'[u] = task[u]

\* The call goes on.
Same(t) ==
  /\ Others(t)
  /\ task'[t].kind = task[t].kind /\ task'[t].att = task[t].att /\ task'[t].prof = task[t].prof

Moves(t, pc) ==
  /\ Same(t)
  /\ task'[t].pc = pc /\ task'[t].seq = task[t].seq
  /\ task'[t].then = task[t].then /\ task'[t].notify = task[t].notify

\* The call ends: AppState.connect still has to resume.
Frees(t) == Others(t) /\ task'[t].kind = "none" /\ task'[t].pc = "free"
Ends(t)  == IF IsConnect(t) THEN Same(t) /\ task'[t].pc = "done" ELSE Frees(t)

\* The call begins to stop the core, and will return then.
Halts(t) == /\ Same(t)
            /\ task'[t].pc \in {"stop_idle", "stop_host"} /\ task'[t].then = "return"

LEMMA GotoMoves ==
  ASSUME TypeOK, NEW t \in Tasks, NEW pc, Goto(t, pc)
  PROVE  Moves(t, pc)
<1>1. task' = [task EXCEPT ![t] = [task[t] EXCEPT !.pc = pc]]
  BY DEF Goto, TypeOK
<1>2. task[t] \in TaskRec
  BY DEF TypeOK
<1>3. task'[t] = [task[t] EXCEPT !.pc = pc] /\ Others(t)
  BY <1>1 DEF Others, TypeOK
<1> QED BY <1>2, <1>3 DEF Moves, Same, TaskRec

LEMMA ReturnEnds ==
  ASSUME TypeOK, NEW t \in Tasks, Return(t)
  PROVE  Ends(t)
<1>1. task'[t] = Returned(task[t]) /\ Others(t)
  BY DEF Return, Others, TypeOK
<1>2. task[t] \in TaskRec
  BY DEF TypeOK
<1> QED BY <1>1, <1>2 DEF Ends, Same, Frees, Returned, Free, IsConnect, TaskRec

LEMMA StopFromHalts ==
  ASSUME TypeOK, NEW t \in Tasks, NEW r \in RunnerType, NEW b, StopFrom(t, r, b)
  PROVE  /\ Halts(t)
         /\ runner' = StopBegins(r)
<1>1. task' = [task EXCEPT ![t] = [task[t] EXCEPT !.pc = StopPc(r), !.notify = b,
                                                  !.then = "return"]]
  BY DEF StopFrom, TypeOK
<1>2. task'[t] = [task[t] EXCEPT !.pc = StopPc(r), !.notify = b, !.then = "return"] /\ Others(t)
  BY <1>1 DEF Others, TypeOK
<1>3. task[t] \in TaskRec
  BY DEF TypeOK
<1>4. StopPc(r) \in {"stop_idle", "stop_host"}
  BY DEF StopPc
<1>5. /\ task'[t].kind = task[t].kind /\ task'[t].att = task[t].att
      /\ task'[t].prof = task[t].prof /\ task'[t].pc = StopPc(r) /\ task'[t].then = "return"
  BY <1>2, <1>3 DEF TaskRec
<1> QED BY <1>2, <1>4, <1>5 DEF StopFrom, Halts, Same

\* What the start of a stop leaves alone.
SameCore(r, s) ==
  /\ s.process = r.process /\ s.proxyTaken = r.proxyTaken /\ s.proxyOwner = r.proxyOwner
  /\ s.userDisconnect = r.userDisconnect /\ s.attemptSeq = r.attemptSeq /\ s.timer = r.timer

LEMMA StopBeginsCore ==
  ASSUME NEW r \in RunnerType
  PROVE  SameCore(r, StopBegins(r))
  BY DEF StopBegins, SameCore, RunnerType

-----------------------------------------------------------------------------
(***************************************************************************)
(* The steps of a calm lifecycle, by what they change.                     *)
(***************************************************************************)
\* No kernel starts or stops to live.
SameLife == \A k \in Runs : /\ kernel'[k].st # "exited"
                            /\ kernel'[k].st = "live" <=> kernel[k].st = "live"
                            /\ kernel[k].st = "live" => kernel'[k].prof = kernel[k].prof

Steady == app' = app /\ SameCore(runner, runner') /\ SameLife /\ proxy' = proxy

\* The status alone changes in AppState.
Shows(s) == app' = [app EXCEPT !.status = s] /\ app'.status = s

\* A waiting connect gives up: a newer command cancelled it.
GivesUp(t) == Waiting(t) /\ task[t].att \in app.cancelled /\ Frees(t) /\ Steady

\* A waiting connect becomes the round that runs.
Resumed(t) ==
  /\ Waiting(t) /\ app.inflight = NoTask /\ task[t].att \notin app.cancelled
  /\ app' = [app EXCEPT !.inflight = t]
  /\ Moves(t, "stop_idle") \/ Moves(t, "stop_host")
  /\ SameCore([runner EXCEPT !.userDisconnect = FALSE, !.timer = FALSE], runner')
  /\ SameLife /\ proxy' = proxy

\* A run is over before it announced anything, or has a step behind it that shows in
\* nothing but its pc.
Builds(t) ==
  /\ IsConnect(t) /\ Steady
  /\ \/ /\ task[t].pc \in StartPcs \ {"start", "api", "set_proxy", "gate"}
        /\ \E pc \in StartPcs \ {"start", "api", "set_proxy", "gate"} : Moves(t, pc)
     \/ task[t].pc = "api" /\ ~Aborted(t) /\ Moves(t, "set_proxy")
     \/ task[t].pc = "api" /\ ~Aborted(t) /\ runner.process = 0 /\ Ends(t)
     \/ task[t].pc \in StartPcs \ {"start", "api", "set_proxy", "gate"} /\ Ends(t)
     \/ task[t].pc \in StartPcs \ {"start"} /\ Halts(t)

\* The entry of _startTunnel.
Enters(t) ==
  /\ IsConnect(t) /\ task[t].pc = "start"
  /\ SameCore([runner EXCEPT !.attemptSeq = @ + 1], runner')
  /\ SameLife /\ proxy' = proxy
  /\ \/ Unwanted(runner, task[t].att) /\ app' = app /\ Ends(t)
     \/ ~Unwanted(runner, task[t].att) /\ Shows("disconnected") /\ Ends(t)
     \/ /\ ~Unwanted(runner, task[t].att) /\ Shows("connecting")
        /\ Same(t) /\ task'[t].pc \in {"index", "ports"} /\ task'[t].seq = runner.attemptSeq + 1

\* The kernel is registered.
Registers(t) ==
  /\ IsConnect(t) /\ task[t].pc = "spawn" /\ ~Aborted(t)
  /\ Moves(t, "api") /\ app' = app /\ proxy' = proxy
  /\ SameCore([runner EXCEPT !.process = task[t].seq], runner')
  /\ kernel' = [kernel EXCEPT ![task[t].seq] =
                  [st |-> "live", att |-> task[t].att, prof |-> task[t].prof]]

\* The system proxy is taken over, or not.
TakesOver(t) ==
  /\ IsConnect(t) /\ task[t].pc = "set_proxy" /\ kernel' = kernel
  /\ \E ok \in BOOLEAN :
       /\ ok \/ budget.proxyFaults > 0
       /\ SameCore(IF ok THEN [runner EXCEPT !.proxyTaken = TRUE, !.proxyOwner = task[t].seq]
                   ELSE [runner EXCEPT !.proxyTaken = FALSE], runner')
       /\ ok => proxy'.installed = task[t].seq
  /\ \/ Aborted(t) /\ Halts(t) /\ app' = app
     \/ ~Aborted(t) /\ Moves(t, "gate") /\ Shows("warmingUp")

\* The tunnel is announced.
Announces(t) ==
  /\ IsConnect(t) /\ task[t].pc = "gate" /\ ~Aborted(t)
  /\ Ends(t) /\ Shows("connected")
  /\ SameCore(runner, runner') /\ kernel' = kernel /\ proxy' = proxy

\* _stopCore: the proxy has to be cleared first.
Clears(t) == /\ task[t].pc \in {"stop_idle", "stop_host"} /\ runner.proxyTaken
             /\ Moves(t, "stop_clear") /\ Steady

\* _stopCore: its end.
Finishes(t) ==
  /\ IF task[t].notify THEN Shows("disconnected") ELSE app' = app
  /\ IF task[t].then = "start" THEN Moves(t, "start") ELSE Ends(t)

\* _stopCore: the process is taken out of its field and killed.
TakesDown(t) ==
  /\ task[t].pc \in HaltPcs
  /\ \/ /\ task[t].pc = "stop_clear"
        /\ SameCore([Release(runner) EXCEPT !.process = 0], runner')
        /\ proxy'.installed = 0 \/ (budget.proxyFaults > 0 /\ proxy'.installed = proxy.installed)
     \/ /\ task[t].pc # "stop_clear" /\ ~runner.proxyTaken
        /\ SameCore([runner EXCEPT !.process = 0], runner') /\ proxy' = proxy
  /\ \A k \in Runs : /\ kernel'[k].st # "exited"
                     /\ kernel'[k].st = "live" <=> kernel[k].st = "live" /\ k # runner.process
                     /\ kernel'[k].prof = kernel[k].prof
  /\ \/ runner.process # 0 /\ Moves(t, "stop_exit") /\ app' = app
     \/ runner.process = 0 /\ Finishes(t)

\* _stopCore: the killed process is gone.
Exits(t) == /\ task[t].pc = "stop_exit" /\ Finishes(t)
            /\ SameCore(runner, runner') /\ kernel' = kernel /\ proxy' = proxy

\* The watchdog took the proxy back, or did something that shows nowhere.
Watches ==
  /\ app' = app /\ task' = task /\ kernel' = kernel
  /\ \/ SameCore(runner, runner') /\ proxy'.installed = proxy.installed /\ proxy'.lost = proxy.lost
     \/ /\ SameCore(Release(runner), runner') /\ proxy'.installed = 0
        /\ proxy.reconcile = "clear"
        /\ proxy.lost \/ (runner.proxyTaken /\ OutOfDate) => proxy'.lost

CalmTaskStep(t) ==
  \/ GivesUp(t) \/ Resumed(t) \/ ConnectReturned(t) \/ Builds(t) \/ Enters(t) \/ Registers(t)
  \/ TakesOver(t) \/ Announces(t) \/ Clears(t) \/ TakesDown(t) \/ Exits(t)

LEMMA ShowsStatus ==
  ASSUME TypeOK, NEW s, SetStatus(s)
  PROVE  Shows(s)
  BY DEF SetStatus, Shows, TypeOK, AppType

LEMMA SameCoreSelf == SameCore(runner, runner)
  BY DEF SameCore

LEMMA SteadyKernel ==
  ASSUME NothingFails, kernel' = kernel
  PROVE  SameLife
  BY DEF NothingFails, SameLife

\* Nothing is left for _killStaleCore while a run builds.
LEMMA NothingStale ==
  ASSUME TypeOK, CalmInv, runner.process = 0, kernel' = KillStale \/ kernel' = kernel
  PROVE  SameLife
<1>1. \A k \in Runs : kernel[k].st # "live"
  <2>1. 0 \notin Runs
    BY DEF Runs
  <2> QED BY <2>1 DEF CalmInv, KernelKnown
<1>2. kernel' = kernel
  BY <1>1 DEF KillStale, TypeOK, KernelType
<1> QED BY <1>2, SteadyKernel DEF CalmInv

\* A run of the user's is the newest one, so its cleanup stops the core.
LEMMA AbortHalts ==
  ASSUME TypeOK, CalmInv, NEW t \in Tasks, IsConnect(t), task[t].pc \in StartPcs \ {"start"},
         NEW r \in RunnerType, SameCore(r, runner) \/ r.attemptSeq = runner.attemptSeq,
         AbortCleanup(t, r)
  PROVE  Halts(t) /\ SameCore(r, runner')
<1>1. task[t].seq = r.attemptSeq
  BY DEF CalmInv, SeqCurrent, SameCore
<1>2. StopFrom(t, r, FALSE)
  BY <1>1 DEF AbortCleanup
<1>3. Halts(t) /\ runner' = StopBegins(r)
  BY <1>2, StopFromHalts
<1> QED BY <1>3, StopBeginsCore

LEMMA StopHalts ==
  ASSUME TypeOK, NEW t \in Tasks, NEW b, StopFrom(t, runner, b)
  PROVE  Halts(t) /\ SameCore(runner, runner')
  BY StopFromHalts, StopBeginsCore DEF TypeOK

LEMMA StoppedFinishes ==
  ASSUME TypeOK, NEW t \in Tasks, Stopped(t)
  PROVE  Finishes(t)
  BY GotoMoves, ReturnEnds, ShowsStatus DEF Stopped, Finishes

\* TakeDown, from a runner record that differs from the runner in the proxy fields only.
LEMMA TakeDownFields ==
  ASSUME TypeOK, CalmInv, NEW t \in Tasks, NEW r \in RunnerType, TakeDown(t, r),
         r.process = runner.process
  PROVE  /\ SameCore([r EXCEPT !.process = 0], runner')
         /\ \A k \in Runs : /\ kernel'[k].st # "exited"
                            /\ kernel'[k].st = "live"
                                 <=> kernel[k].st = "live" /\ k # runner.process
                            /\ kernel'[k].prof = kernel[k].prof
         /\ \/ runner.process # 0 /\ Moves(t, "stop_exit") /\ app' = app
            \/ runner.process = 0 /\ Finishes(t)
<1>1. SameCore([r EXCEPT !.process = 0], runner')
  BY DEF TakeDown, SameCore
<1>2. CASE runner.process = 0
  <2>1. kernel' = kernel /\ Finishes(t)
    BY <1>2, StoppedFinishes DEF TakeDown
  <2>2. 0 \notin Runs
    BY DEF Runs
  <2> QED BY <1>1, <1>2, <2>1, <2>2 DEF CalmInv, NothingFails
<1>3. CASE runner.process # 0
  <2>1. kernel' = [kernel EXCEPT ![runner.process].st = "dead"] /\ app' = app
        /\ Moves(t, "stop_exit")
    BY <1>3, GotoMoves DEF TakeDown
  <2>2. runner.process \in Runs
    BY <1>3 DEF TypeOK, RunnerType
  <2>3. \A k \in Runs : /\ k # runner.process => kernel'[k] = kernel[k]
                        /\ k = runner.process => kernel'[k].st = "dead"
                                                 /\ kernel'[k].prof = kernel[k].prof
    BY <2>1, <2>2 DEF TypeOK, KernelType
  <2> QED BY <1>1, <1>3, <2>1, <2>3 DEF CalmInv, NothingFails
<1> QED BY <1>2, <1>3

\* Which call is at which await.
LEMMA CallOfPc ==
  ASSUME OnlyUserCalls, NEW t \in Tasks
  PROVE  /\ task[t].pc \in {"await_prev", "done"} \cup StartPcs => IsConnect(t)
         /\ task[t].pc # "release" /\ task[t].pc # "exit_clear"
         /\ task[t].pc \in StopPcs => IsConnect(t) \/ task[t].kind = "disconnect"
         /\ task[t].pc = "await_prev" => task[t].then = "start"
  BY DEF OnlyUserCalls, StartPcs, StopPcs, IsConnect

\* A new round of the core takes back the hang-up and the timer, and leaves the rest.
LEMMA CoreConnectEffect ==
  ASSUME runner \in RunnerType, NEW p, CoreConnect(p)
  PROVE  SameCore([runner EXCEPT !.userDisconnect = FALSE, !.timer = FALSE], runner')
  BY DEF CoreConnect, StopBegins, SameCore, RunnerType

LEMMA CalmTaskSteps ==
  ASSUME TypeOK, CalmInv, NEW t \in Tasks, TaskStep(t)
  PROVE  CalmTaskStep(t)
<1> OnlyUserCalls /\ NothingFails
  BY DEF CalmInv
<1> runner \in RunnerType /\ task[t] \in TaskRec
  BY DEF TypeOK
<1> DEFINE pc == task[t].pc
<1> USE DEF Resumes, At, CalmTaskStep
<1>1. CASE AwaitPrevious(t)
  <2>1. Waiting(t) /\ app.inflight = NoTask /\ proxy' = proxy /\ kernel' = kernel
    BY <1>1 DEF AwaitPrevious, Waiting
  <2>2. CASE task[t].att \in app.cancelled
    <3>1. Frees(t)
      BY <1>1, <2>2 DEF AwaitPrevious, Frees, Others, Free, TypeOK
    <3> QED BY <1>1, <2>1, <2>2, <3>1, SameCoreSelf, SteadyKernel DEF AwaitPrevious, GivesUp, Steady
  <2>3. CASE task[t].att \notin app.cancelled
    <3>1. Moves(t, "stop_idle") \/ Moves(t, "stop_host")
      <4>1. StopPc(runner) \in {"stop_idle", "stop_host"}
        BY DEF StopPc
      <4>2. Goto(t, StopPc(runner))
        BY <1>1, <2>3 DEF AwaitPrevious
      <4>3. Moves(t, StopPc(runner))
        BY <4>2, GotoMoves
      <4> QED BY <4>1, <4>3
    <3>2. SameCore([runner EXCEPT !.userDisconnect = FALSE, !.timer = FALSE], runner')
      <4>1. CoreConnect(task[t].prof)
        BY <1>1, <2>3 DEF AwaitPrevious
      <4> QED BY <4>1, CoreConnectEffect
    <3> QED BY <1>1, <2>1, <2>3, <3>1, <3>2, SteadyKernel DEF AwaitPrevious, Resumed
  <2> QED BY <2>2, <2>3
<1>2. CASE ConnectReturned(t)
  BY <1>2
<1>3. CASE StartTunnel(t)
  <2> DEFINE seq == runner.attemptSeq + 1
             next == [runner EXCEPT !.attemptSeq = seq]
  <2>1. pc = "start" /\ IsConnect(t) /\ proxy' = proxy /\ EnterTunnel(t, task[t], runner)
    BY <1>3, CallOfPc DEF StartTunnel, StartPcs
  <2>2. runner.process = 0
    BY <2>1 DEF CalmInv, BuildsAlone, BuildPcs
  <2>3. SameLife
    BY <2>1, <2>2, NothingStale DEF EnterTunnel
  <2>4. SameCore(next, runner')
    BY <2>1 DEF EnterTunnel, SameCore, RunnerType
  <2>5. task' = [task EXCEPT ![t] = Returned(task[t])] => Ends(t)
    BY ReturnEnds DEF Return
  <2>6. ASSUME task' = [task EXCEPT ![t] = [task[t] EXCEPT !.seq = seq,
                          !.pc = IF runner.indexLoaded THEN "ports" ELSE "index"]]
        PROVE  Same(t) /\ task'[t].pc \in {"index", "ports"} /\ task'[t].seq = seq
    <3>1. task'[t] = [task[t] EXCEPT !.seq = seq,
                        !.pc = IF runner.indexLoaded THEN "ports" ELSE "index"] /\ Others(t)
      BY <2>6 DEF Others, TypeOK
    <3> QED BY <3>1 DEF Same, TaskRec
  <2>7. \/ Unwanted(runner, task[t].att) /\ app' = app /\ Ends(t)
        \/ ~Unwanted(runner, task[t].att) /\ Shows("disconnected") /\ Ends(t)
        \/ /\ ~Unwanted(runner, task[t].att) /\ Shows("connecting")
           /\ Same(t) /\ task'[t].pc \in {"index", "ports"} /\ task'[t].seq = seq
    BY <2>1, <2>5, <2>6, ShowsStatus DEF EnterTunnel
  <2> QED BY <2>1, <2>3, <2>4, <2>7 DEF Enters
<1>4. CASE IndexLoaded(t)
  <2>1. pc = "index" /\ IsConnect(t) /\ app' = app /\ proxy' = proxy
    BY <1>4, CallOfPc DEF IndexLoaded, StartPcs
  <2>2. SameLife
    BY <1>4, <2>1, NothingStale DEF IndexLoaded, CalmInv, BuildsAlone, BuildPcs
  <2>3. SameCore(runner, runner')
    BY <1>4 DEF IndexLoaded, SameCore, RunnerType
  <2>4. Ends(t) \/ Moves(t, "ports")
    BY <1>4, ReturnEnds, GotoMoves DEF IndexLoaded
  <2> QED BY <2>1, <2>2, <2>3, <2>4 DEF Builds, Steady, StartPcs
<1>5. CASE PortsAllocated(t)
  <2>1. /\ pc = "ports" /\ IsConnect(t) /\ app' = app /\ proxy' = proxy /\ SameLife
    BY <1>5, CallOfPc, SteadyKernel DEF PortsAllocated, StartPcs
  <2>2. SameCore(runner, [runner EXCEPT !.port = task[t].seq])
    BY DEF SameCore, RunnerType
  <2>3. /\ SameCore(runner, runner')
        /\ Ends(t) \/ Halts(t) \/ Moves(t, "bind") \/ Moves(t, "spawn")
    BY <1>5, <2>2, ReturnEnds, StopHalts, GotoMoves, SameCoreSelf DEF PortsAllocated
  <2> QED BY <2>1, <2>3 DEF Builds, Steady, StartPcs
<1>6. CASE HostBound(t)
  <2>1. /\ pc = "bind" /\ IsConnect(t) /\ app' = app /\ proxy' = proxy /\ SameLife
    BY <1>6, CallOfPc, SteadyKernel DEF HostBound, StartPcs
  <2>2. SameCore(runner, runner') /\ Moves(t, "verify")
    BY <1>6, GotoMoves DEF HostBound, SameCore, RunnerType
  <2> QED BY <2>1, <2>2 DEF Builds, Steady, StartPcs
<1>7. CASE HostStarted(t)
  <2>1. /\ pc = "verify" /\ IsConnect(t) /\ app' = app /\ proxy' = proxy /\ SameLife
    BY <1>7, CallOfPc, SteadyKernel DEF HostStarted, StartPcs
  <2>2. SameCore(runner, runner') /\ (Ends(t) \/ Moves(t, "spawn"))
    BY <1>7, GotoMoves, ReturnEnds DEF HostStarted, SameCore, RunnerType
  <2> QED BY <2>1, <2>2 DEF Builds, Steady, StartPcs
<1>8. CASE Spawned(t)
  <2>1. /\ pc = "spawn" /\ IsConnect(t) /\ app' = app /\ proxy' = proxy
    BY <1>8, CallOfPc DEF Spawned, StartPcs
  <2>2. CASE Aborted(t)
    <3>1. runner.process = 0
      BY <2>1 DEF CalmInv, BuildsAlone, BuildPcs
    <3>2. \A k \in Runs : kernel[k].st # "live"
      BY <3>1 DEF CalmInv, KernelKnown, Runs
    <3>3. kernel' = [kernel EXCEPT ![task[t].seq] =
                       [st |-> "dead", att |-> task[t].att, prof |-> task[t].prof]]
      BY <1>8, <2>2 DEF Spawned
    <3>4. SameLife
      BY <3>2, <3>3 DEF SameLife, NothingFails, TypeOK, KernelType
    <3> QED BY <1>8, <2>1, <2>2, <3>4, ReturnEnds, SameCoreSelf
            DEF Spawned, Builds, Steady, StartPcs
  <2>3. CASE ~Aborted(t)
    <3>1. SameCore([runner EXCEPT !.process = task[t].seq], runner')
      BY <1>8, <2>3 DEF Spawned, SameCore, RunnerType
    <3> QED BY <1>8, <2>1, <2>3, <3>1, GotoMoves DEF Spawned, Registers
  <2> QED BY <2>2, <2>3
<1>9. CASE SpawnThrows(t)
  <2>1. /\ pc = "spawn" /\ IsConnect(t) /\ app' = app /\ proxy' = proxy /\ SameLife
    BY <1>9, CallOfPc, SteadyKernel DEF SpawnThrows, StartPcs
  <2>2. Halts(t) /\ SameCore(runner, runner')
    BY <1>9, <2>1, AbortHalts, StopHalts DEF SpawnThrows, StartPcs
  <2> QED BY <2>1, <2>2 DEF Builds, Steady, StartPcs
<1>10. CASE ApiAnswered(t)
  <2>1. /\ pc = "api" /\ IsConnect(t) /\ app' = app /\ proxy' = proxy /\ SameLife
    BY <1>10, CallOfPc, SteadyKernel DEF ApiAnswered, StartPcs
  <2>2. /\ SameCore(runner, runner')
        /\ \/ Halts(t)
           \/ ~Aborted(t) /\ Moves(t, "set_proxy")
           \/ ~Aborted(t) /\ runner.process = 0 /\ Ends(t)
    BY <1>10, <2>1, AbortHalts, StopHalts, GotoMoves, ReturnEnds, SameCoreSelf
       DEF ApiAnswered, StartPcs
  <2> QED BY <2>1, <2>2 DEF Builds, Steady, StartPcs
<1>11. CASE ProxySet(t)
  <2> DEFINE r(ok) == IF ok THEN [runner EXCEPT !.proxyTaken = TRUE, !.proxyOwner = task[t].seq]
                      ELSE [runner EXCEPT !.proxyTaken = FALSE]
  <2>1. pc = "set_proxy" /\ IsConnect(t) /\ kernel' = kernel
    BY <1>11, CallOfPc DEF ProxySet, StartPcs
  <2>2. PICK ok \in BOOLEAN :
          /\ ok \/ budget.proxyFaults > 0
          /\ \E written \in IF ok THEN {task[t].seq} ELSE {task[t].seq, proxy.installed} :
               proxy' = Taken(ok, written)
          /\ IF Aborted(t) THEN AbortCleanup(t, r(ok)) /\ UNCHANGED app
             ELSE Goto(t, "gate") /\ runner' = r(ok) /\ SetStatus("warmingUp")
    BY <1>11 DEF ProxySet
  <2>3. r(ok) \in RunnerType /\ r(ok).attemptSeq = runner.attemptSeq
    BY DEF TaskRec, RunnerType
  <2>4. ok => proxy'.installed = task[t].seq
    BY <2>2 DEF Taken, TypeOK, ProxyType
  <2> HIDE DEF r
  <2>5. SameCore(r(ok), runner') /\ \/ Aborted(t) /\ Halts(t) /\ app' = app
                                    \/ ~Aborted(t) /\ Moves(t, "gate") /\ Shows("warmingUp")
    <3>1. CASE Aborted(t)
      BY <2>1, <2>2, <2>3, <3>1, AbortHalts DEF StartPcs
    <3>2. CASE ~Aborted(t)
      BY <2>2, <3>2, GotoMoves, ShowsStatus DEF SameCore
    <3> QED BY <3>1, <3>2
  <2> QED BY <2>1, <2>2, <2>4, <2>5 DEF TakesOver, r
<1>12. CASE GatePassed(t)
  <2>1. /\ pc = "gate" /\ IsConnect(t) /\ proxy' = proxy /\ kernel' = kernel /\ SameLife
    BY <1>12, CallOfPc, SteadyKernel DEF GatePassed, StartPcs
  <2>2. CASE Aborted(t)
    <3>1. Halts(t) /\ SameCore(runner, runner') /\ app' = app
      BY <1>12, <2>1, <2>2, AbortHalts DEF GatePassed, StartPcs
    <3> QED BY <2>1, <3>1 DEF Builds, Steady, StartPcs
  <2>3. CASE ~Aborted(t)
    <3>1. SameCore(runner, runner')
      BY <1>12, <2>3 DEF GatePassed, SameCore, RunnerType
    <3> QED BY <1>12, <2>1, <2>3, <3>1, ReturnEnds, ShowsStatus DEF GatePassed, Announces
  <2> QED BY <2>2, <2>3
<1>13. CASE ProxyReleased(t) \/ ExitCleared(t)
  BY <1>13, CallOfPc DEF ProxyReleased, ExitCleared
<1>14. CASE HostStopped(t)
  <2>1. pc \in {"stop_idle", "stop_host"} /\ proxy' = proxy
    BY <1>14 DEF HostStopped
  <2>2. CASE runner.proxyTaken
    BY <1>14, <2>1, <2>2, GotoMoves, SameCoreSelf, SteadyKernel DEF HostStopped, Clears, Steady
  <2>3. CASE ~runner.proxyTaken
    BY <1>14, <2>1, <2>3, TakeDownFields DEF HostStopped, TakesDown, HaltPcs
  <2> QED BY <2>2, <2>3
<1>15. CASE ProxyCleared(t)
  <2>1. Release(runner) \in RunnerType /\ Release(runner).process = runner.process
    BY DEF Release, RunnerType
  <2>2. pc = "stop_clear" /\ TakeDown(t, Release(runner))
    BY <1>15 DEF ProxyCleared
  <2>3. proxy'.installed = 0 \/ (budget.proxyFaults > 0 /\ proxy'.installed = proxy.installed)
    BY <1>15 DEF ProxyCleared, Cleared, ClearedProxy, TypeOK, ProxyType
  <2> QED BY <2>1, <2>2, <2>3, TakeDownFields DEF TakesDown, HaltPcs
<1>16. CASE KernelGone(t)
  <2>1. SameCore(runner, runner')
    BY <1>16 DEF KernelGone, SameCore, RunnerType
  <2> QED BY <1>16, <2>1, StoppedFinishes DEF KernelGone, Exits
<1> QED BY <1>1, <1>2, <1>3, <1>4, <1>5, <1>6, <1>7, <1>8, <1>9, <1>10, <1>11, <1>12,
          <1>13, <1>14, <1>15, <1>16 DEF TaskStep

LEMMA CalmSteps ==
  ASSUME TypeOK, CalmInv, [Next]_vars
  PROVE  \/ UserStep
         \/ \E t \in Tasks : CalmTaskStep(t)
         \/ Watches
<1> runner \in RunnerType /\ NothingFails
  BY DEF TypeOK, CalmInv
<1>1. CASE RecoveryStep
  BY <1>1 DEF RecoveryStep, NothingFails, KernelCrashes, ExitCallback, TimerFires, TickStarts,
              TickHealthy, TickUnhealthy
<1>2. CASE WatchdogStep
  <2>1. CASE Looks
    BY <2>1, SameCoreSelf DEF Looks, Watches
  <2>2. CASE WatchdogCleared
    <3>1. PICK ok \in BOOLEAN : /\ proxy' = TakenBack(ok)
                                /\ runner' = IF ok THEN Release(runner) ELSE runner
      BY <2>2 DEF WatchdogCleared
    <3>2. /\ proxy'.installed = IF ok THEN 0 ELSE proxy.installed
          /\ proxy'.lost = (proxy.lost \/ (ok /\ runner.proxyTaken /\ OutOfDate))
      BY <3>1, TakenBackFields
    <3>3. CASE ok
      <4>1. SameCore(Release(runner), runner')
        BY <3>1, <3>3 DEF SameCore
      <4> QED BY <2>2, <3>2, <3>3, <4>1 DEF WatchdogCleared, Watches
    <3>4. CASE ~ok
      <4>1. SameCore(runner, runner') /\ proxy'.lost = proxy.lost
        BY <3>1, <3>2, <3>4, SameCoreSelf DEF TypeOK, ProxyType
      <4> QED BY <2>2, <3>2, <3>4, <4>1 DEF WatchdogCleared, Watches
    <3> QED BY <3>3, <3>4
  <2> QED BY <1>2, <2>1, <2>2, ReconcileSteps
<1>3. CASE UNCHANGED vars
  BY <1>3, SameCoreSelf DEF vars, Watches
<1> QED BY <1>1, <1>2, <1>3, CalmTaskSteps DEF Next

-----------------------------------------------------------------------------
(***************************************************************************)
(* The commands of the user, by what they change.                          *)
(***************************************************************************)
\* A patient user gives no command but a cancel while a hang-up runs, and while
\* disconnected waits for everything in flight.
Patiently == PatientUser => \A t \in Tasks : /\ task[t].kind # "disconnect"
                                             /\ app.status = "disconnected" => At(t, "free")

HangsUp(t) ==
  /\ At(t, "free") /\ Others(t)
  /\ task'[t].kind = "disconnect" /\ task'[t].pc \in {"stop_idle", "stop_host"}
  /\ ~app'.want /\ app'.attempt = 0 /\ app'.generation = app.generation
  /\ app'.inflight = app.inflight /\ app'.status = app.status
  /\ app'.cancelled = app.cancelled \cup ({app.attempt} \ {0})
  /\ SameCore([runner EXCEPT !.userDisconnect = TRUE, !.timer = FALSE], runner')

DialsAnew(t) ==
  /\ At(t, "free") /\ Others(t) /\ Patiently
  /\ task'[t].kind = "connect" /\ task'[t].att = app.generation + 1
  /\ task'[t].prof = app'.active /\ task'[t].then = "start"
  /\ app'.want /\ app'.attempt = app.generation + 1 /\ app'.generation = app.generation + 1
  /\ app'.status = app.status
  /\ app'.cancelled = app.cancelled \cup ({app.attempt} \ {0})
  /\ \/ /\ app.inflight # NoTask /\ app'.inflight = app.inflight
        /\ task'[t].pc = "await_prev" /\ SameCore(runner, runner')
     \/ /\ app.inflight = NoTask /\ app'.inflight = t
        /\ task'[t].pc \in {"stop_idle", "stop_host"}
        /\ SameCore([runner EXCEPT !.userDisconnect = FALSE, !.timer = FALSE], runner')

Stores == SameRound(app') /\ UNCHANGED <<runner, task>> /\ Patiently

CalmUserStep == /\ kernel' = kernel /\ proxy' = proxy
                /\ (\E t \in Tasks : HangsUp(t) \/ DialsAnew(t)) \/ Stores

LEMMA HangUpEffect ==
  ASSUME TypeOK, NEW a, SameRound(a), HangUp(a)
  PROVE  \E t \in Tasks : HangsUp(t)
<1>1. PICK t \in Tasks : HangUpIn(t, a)
  BY DEF HangUp
<1>2. At(t, "free")
  BY <1>1 DEF HangUpIn, IsFirstFree, FreeTasks, At
<1>3. /\ ~app'.want /\ app'.attempt = 0 /\ app'.generation = app.generation
      /\ app'.inflight = app.inflight /\ app'.status = app.status
      /\ app'.cancelled = app.cancelled \cup ({app.attempt} \ {0})
  BY <1>1 DEF HangUpIn, CancelAttempt, SameRound, AppType
<1>4. SameCore([runner EXCEPT !.userDisconnect = TRUE, !.timer = FALSE], runner')
  BY <1>1 DEF HangUpIn, StopBegins, SameCore, TypeOK, RunnerType
<1>5. Others(t) /\ task'[t].kind = "disconnect" /\ task'[t].pc \in {"stop_idle", "stop_host"}
  BY <1>1 DEF HangUpIn, Others, Call, Free, StopPc, TypeOK
<1> QED BY <1>2, <1>3, <1>4, <1>5 DEF HangsUp

LEMMA DialEffect ==
  ASSUME TypeOK, NEW a, SameRound(a), NEW t \in Tasks, DialIn(t, a), Patiently
  PROVE  DialsAnew(t)
<1> DEFINE g == app.generation + 1
           me(pc) == Call("connect", pc, g, a.active, "start")
<1>1. At(t, "free")
  BY DEF DialIn, IsFirstFree, FreeTasks, At
<1>2. /\ app'.want /\ app'.attempt = g /\ app'.generation = g /\ app'.status = app.status
      /\ app'.cancelled = app.cancelled \cup ({app.attempt} \ {0})
      /\ app'.inflight = (IF app.inflight = NoTask THEN t ELSE app.inflight)
      /\ app'.active = a.active
  BY DEF DialIn, CancelAttempt, SameRound, AppType
<1>3. \A pc : /\ me(pc).kind = "connect" /\ me(pc).att = g /\ me(pc).pc = pc
              /\ me(pc).prof = a.active /\ me(pc).then = "start"
  BY DEF Call, Free
<1>4. CASE app.inflight # NoTask
  <2>1. task' = [task EXCEPT ![t] = me("await_prev")] /\ runner' = runner
    BY <1>4 DEF DialIn, MustWait, SameRound
  <2>2. task'[t] = me("await_prev") /\ Others(t)
    BY <2>1 DEF Others, TypeOK
  <2> HIDE DEF me
  <2> QED BY <1>1, <1>2, <1>3, <1>4, <2>1, <2>2, SameCoreSelf DEF DialsAnew
<1>5. CASE app.inflight = NoTask
  <2>1. task' = [task EXCEPT ![t] = me(StopPc(runner))] /\ CoreConnect(a.active)
    BY <1>5 DEF DialIn, MustWait, SameRound
  <2>2. task'[t] = me(StopPc(runner)) /\ Others(t)
    BY <2>1 DEF Others, TypeOK
  <2>3. SameCore([runner EXCEPT !.userDisconnect = FALSE, !.timer = FALSE], runner')
    BY <2>1, CoreConnectEffect DEF TypeOK
  <2>4. StopPc(runner) \in {"stop_idle", "stop_host"}
    BY DEF StopPc
  <2> HIDE DEF me
  <2> QED BY <1>1, <1>2, <1>3, <1>5, <2>2, <2>3, <2>4 DEF DialsAnew
<1> QED BY <1>4, <1>5

LEMMA CalmUserSteps ==
  ASSUME TypeOK, UserStep
  PROVE  CalmUserStep
<1>1. PICK a \in AppType, c \in Commands : CommandCase(a, c)
  BY CommandCases
<1>2. SameRound(a) /\ kernel' = kernel /\ proxy' = proxy
  BY <1>1 DEF CommandCase, Command
<1>3. CASE CancelConnect
  BY <1>2, <1>3, HangUpEffect DEF CancelConnect, SameRound, TypeOK, CalmUserStep
<1>4. CASE ~CancelConnect
  <2>1. Patiently
    BY <1>4 DEF UserStep, ToggleConnection, SetActiveProfile, SetProfileCredentials,
                RemoveProfile, ImportConf, Command, Patiently
  <2>2. CASE HangUp(a)
    BY <1>2, <2>2, HangUpEffect DEF CalmUserStep
  <2>3. CASE Dial(a)
    BY <1>2, <2>1, <2>3, DialEffect DEF Dial, CalmUserStep, Stores
  <2>4. CASE app' = a /\ UNCHANGED <<runner, task>>
    BY <1>2, <2>1, <2>4 DEF CalmUserStep, Stores
  <2> QED BY <1>1, <2>2, <2>3, <2>4 DEF CommandCase
<1> QED BY <1>3, <1>4

-----------------------------------------------------------------------------
(***************************************************************************)
(* CalmInv is inductive.  First the tokens: who holds the current attempt, *)
(* and which round AppState waits for.                                     *)
(***************************************************************************)
CalmState == TypeInv /\ RoundInv /\ CalmInv

TokenInv == InflightRuns /\ TokensCurrent /\ AttemptHeld

\* AppState keeps everything but the status.
TokenFields ==
  /\ app'.want = app.want /\ app'.attempt = app.attempt /\ app'.active = app.active
  /\ app'.generation = app.generation /\ app'.cancelled = app.cancelled
  /\ app'.inflight = app.inflight

\* The caller of the core has its answer: the round is over.
Leaves(t) ==
  /\ IsConnect(t) /\ task[t].pc = "done" /\ Frees(t) /\ app.inflight = t
  /\ app'.inflight = NoTask
  /\ app'.attempt = IF app.attempt = task[t].att THEN 0 ELSE app.attempt
  /\ app'.want = app.want /\ app'.active = app.active /\ app'.status = app.status
  /\ app'.generation = app.generation /\ app'.cancelled = app.cancelled
  /\ runner' = runner /\ kernel' = kernel /\ proxy' = proxy

LEMMA ShowsTokens ==
  ASSUME TypeOK, NEW s, Shows(s) \/ app' = app
  PROVE  TokenFields
  BY DEF Shows, TokenFields, TypeOK, AppType

LEMMA ReturnLeaves ==
  ASSUME TypeOK, RoundInv, NEW t \in Tasks, ConnectReturned(t)
  PROVE  Leaves(t)
<1>1. task[t].pc = "done" /\ IsConnect(t)
  BY DEF ConnectReturned, Resumes, At, RoundInv, WaitersConnect
<1>2. app.inflight = t
  BY <1>1 DEF RoundInv, OnlyInflightRuns, Waiting
<1>3. Frees(t)
  BY DEF ConnectReturned, Frees, Others, Free, TypeOK
<1> QED BY <1>1, <1>2, <1>3 DEF ConnectReturned, Leaves, TypeOK, AppType

LEMMA TokenSteps ==
  ASSUME TypeOK, RoundInv, NEW t \in Tasks, CalmTaskStep(t)
  PROVE  \/ Resumed(t) /\ Same(t)
         \/ Leaves(t)
         \/ TokenFields /\ Same(t) /\ ~Waiting(t) /\ ~Waiting(t)'
         \/ TokenFields /\ Frees(t) /\ task[t].kind # "connect"
         \/ TokenFields /\ Frees(t) /\ Waiting(t) /\ task[t].att \in app.cancelled
<1> USE ShowsTokens DEF Waiting
<1> DEFINE goes == Same(t) /\ ~Waiting(t)'
<1>1. Ends(t) => goes \/ (Frees(t) /\ task[t].kind # "connect")
  BY DEF Ends, IsConnect
<1>2. \A pc : Moves(t, pc) /\ pc # "await_prev" => goes
  BY DEF Moves
<1>3. Halts(t) => goes
  BY DEF Halts
<1> HIDE DEF goes
<1>4. Finishes(t) => TokenFields /\ (goes \/ (Frees(t) /\ task[t].kind # "connect"))
  BY <1>1, <1>2 DEF Finishes
<1> goes => Same(t) /\ ~Waiting(t)'
  BY DEF goes
<1>5. CASE GivesUp(t)
  BY <1>5 DEF GivesUp, Steady
<1>6. CASE Resumed(t)
  BY <1>2, <1>6 DEF Resumed
<1>7. CASE ConnectReturned(t)
  BY <1>7, ReturnLeaves
<1>8. CASE Builds(t)
  BY <1>1, <1>2, <1>3, <1>8 DEF Builds, Steady, StartPcs
<1>9. CASE Enters(t)
  BY <1>1, <1>9 DEF Enters, goes
<1>10. CASE Registers(t) \/ Announces(t)
  BY <1>1, <1>2, <1>10 DEF Registers, Announces
<1>11. CASE TakesOver(t)
  BY <1>2, <1>3, <1>11 DEF TakesOver
<1>12. CASE Clears(t)
  BY <1>2, <1>12 DEF Clears, Steady
<1>13. CASE TakesDown(t)
  BY <1>2, <1>4, <1>13 DEF TakesDown, HaltPcs
<1>14. CASE Exits(t)
  BY <1>4, <1>14 DEF Exits
<1> QED BY <1>5, <1>6, <1>7, <1>8, <1>9, <1>10, <1>11, <1>12, <1>13, <1>14 DEF CalmTaskStep

\* What every round relies on, together.
LEMMA RoundFacts ==
  ASSUME TypeOK, RoundInv
  PROVE  /\ \A u, v \in Tasks : /\ IsConnect(u) => task[u].att # 0
                                /\ IsConnect(u) /\ IsConnect(v) /\ u # v
                                     => task[u].att # task[v].att
                                /\ IsConnect(u) /\ ~Waiting(u) => app.inflight = u
         /\ NoTask \notin Tasks /\ 0 \notin app.cancelled
         /\ app.generation \in Nat /\ app.attempt \in Nat
         /\ \A c \in app.cancelled : c \in Nat
  BY DEF RoundInv, TokensDistinct, OnlyInflightRuns, NoTask, Tasks, TypeOK, AppType, Attempts

LEMMA TaskKeepsTokens ==
  ASSUME CalmState, NEW t \in Tasks, CalmTaskStep(t), OnlyUserCalls'
  PROVE  TokenInv'
<1> TypeOK /\ RoundInv /\ InflightRuns /\ TokensCurrent /\ AttemptHeld
  BY DEF CalmState, TypeInv, CalmInv
<1> USE RoundFacts
<1> SUFFICES InflightRuns' /\ TokensCurrent' /\ AttemptHeld'
  BY DEF TokenInv
<1>1. CASE Resumed(t) /\ Same(t)
  <2>1. /\ app'.inflight = t /\ app'.attempt = app.attempt /\ app'.want = app.want
        /\ app'.generation = app.generation /\ app'.cancelled = app.cancelled
    BY <1>1 DEF Resumed, TypeOK, AppType
  <2>2. IsConnect(t) /\ task[t].att = app.attempt
    BY <1>1 DEF Resumed, RoundInv, WaitersConnect, TokensCurrent, Waiting
  <2>3. ~Waiting(t)'
    BY <1>1 DEF Resumed, Moves, Waiting
  <2>4. \A u \in Tasks : (IsConnect(u)' <=> IsConnect(u)) /\ task'[u].att = task[u].att
    BY <1>1 DEF Same, Others, IsConnect
  <2>5. InflightRuns'
    BY <2>1, <2>2, <2>3, <2>4 DEF InflightRuns, Running
  <2>6. TokensCurrent'
    BY <2>1, <2>4 DEF TokensCurrent
  <2>7. AttemptHeld'
    BY <2>1, <2>2, <2>4 DEF AttemptHeld
  <2> QED BY <2>5, <2>6, <2>7
<1>2. CASE Leaves(t)
  <2>1. \A u \in Tasks : /\ IsConnect(u)' => u # t /\ IsConnect(u)
                         /\ u # t => task'[u] = task[u] /\ (IsConnect(u)' <=> IsConnect(u))
    BY <1>2 DEF Leaves, Frees, Others, IsConnect
  <2>2. TokensCurrent'
    BY <1>2, <2>1 DEF Leaves, TokensCurrent
  <2> QED BY <1>2, <2>1, <2>2 DEF Leaves, InflightRuns, AttemptHeld
<1>3. CASE TokenFields /\ Same(t) /\ ~Waiting(t) /\ ~Waiting(t)'
  <2>1. \A u \in Tasks : (IsConnect(u)' <=> IsConnect(u)) /\ task'[u].att = task[u].att
    BY <1>3 DEF Same, Others, IsConnect
  <2>2. \A u \in Tasks : ~Waiting(u) => ~Waiting(u)'
    BY <1>3 DEF Same, Others, Waiting
  <2>3. InflightRuns'
    BY <1>3, <2>1, <2>2 DEF TokenFields, InflightRuns, Running
  <2>4. TokensCurrent'
    BY <1>3, <2>1 DEF TokenFields, TokensCurrent
  <2>5. AttemptHeld'
    BY <1>3, <2>1 DEF TokenFields, AttemptHeld
  <2> QED BY <2>3, <2>4, <2>5
<1>4. CASE TokenFields /\ Frees(t) /\ task[t].kind # "connect"
  <2>1. \A u \in Tasks : IsConnect(u) => u # t /\ task'[u] = task[u]
    BY <1>4 DEF Frees, Others, IsConnect
  <2>2. \A u \in Tasks : IsConnect(u)' => IsConnect(u)
    BY <1>4 DEF Frees, Others, IsConnect
  <2> QED BY <1>4, <2>1, <2>2 DEF TokenFields, InflightRuns, Running, TokensCurrent,
                                  AttemptHeld, IsConnect, Waiting
<1>5. CASE TokenFields /\ Frees(t) /\ Waiting(t) /\ task[t].att \in app.cancelled
  <2>1. \A u \in Tasks : u # t => task'[u] = task[u]
    BY <1>5 DEF Frees, Others
  <2>2. ~IsConnect(t)' /\ ~Running(t)
    BY <1>5 DEF Frees, IsConnect, Running
  <2> QED BY <1>5, <2>1, <2>2 DEF TokenFields, InflightRuns, Running, TokensCurrent,
                                  AttemptHeld, IsConnect, Waiting
<1> QED BY <1>1, <1>2, <1>3, <1>4, <1>5, TokenSteps

LEMMA TaskKeepsCalls ==
  ASSUME CalmState, NEW t \in Tasks, CalmTaskStep(t)
  PROVE  OnlyUserCalls'
<1> TypeOK /\ RoundInv /\ OnlyUserCalls
  BY DEF CalmState, TypeInv, CalmInv
<1> DEFINE calls == {"done"} \cup StartPcs \cup StopPcs
           fine == \/ task'[t].kind = "none" /\ task'[t].pc = "free"
                   \/ task'[t].kind = "disconnect" /\ task'[t].pc \in StopPcs
                   \/ IsConnect(t)' /\ task'[t].pc \in calls
<1> SUFFICES Others(t) /\ fine
  BY DEF OnlyUserCalls, Others, IsConnect, StartPcs, StopPcs
<1>1. Ends(t) => Others(t) /\ fine
  BY DEF Ends, Frees, Same, IsConnect
<1>2. Halts(t) /\ (IsConnect(t) \/ task[t].kind = "disconnect") => Others(t) /\ fine
  BY DEF Halts, Same, IsConnect, StopPcs
<1>3. \A pc : Moves(t, pc) /\ (\/ IsConnect(t) /\ pc \in calls
                               \/ task[t].kind = "disconnect" /\ pc \in StopPcs)
               => Others(t) /\ fine
  BY DEF Moves, Same, IsConnect
<1>4. task[t].pc \in StopPcs =>
        IsConnect(t) \/ (task[t].kind = "disconnect" /\ task[t].then = "return")
  BY CallOfPc DEF RoundInv, HangUpsAnnounce
<1>5. task[t].pc \in StopPcs /\ Finishes(t) => Others(t) /\ fine
  <2>1. "start" \in calls
    BY DEF StartPcs
  <2> QED BY <1>1, <1>3, <1>4, <2>1 DEF Finishes
<1>6. CASE GivesUp(t)
  BY <1>6 DEF GivesUp, Frees
<1>7. CASE Resumed(t)
  BY <1>3, <1>7 DEF Resumed, RoundInv, WaitersConnect, Waiting, StopPcs
<1>8. CASE ConnectReturned(t)
  BY <1>8, ReturnLeaves DEF Leaves, Frees
<1>9. CASE Builds(t)
  BY <1>1, <1>2, <1>3, <1>9 DEF Builds, StartPcs
<1>10. CASE Enters(t)
  BY <1>1, <1>10 DEF Enters, Same, IsConnect, StartPcs
<1>11. CASE Registers(t) \/ Announces(t) \/ TakesOver(t)
  BY <1>1, <1>2, <1>3, <1>11 DEF Registers, Announces, TakesOver, StartPcs
<1>12. CASE Clears(t)
  BY <1>3, <1>4, <1>12 DEF Clears, StopPcs
<1>13. CASE TakesDown(t)
  BY <1>3, <1>4, <1>5, <1>13 DEF TakesDown, StopPcs, HaltPcs
<1>14. CASE Exits(t)
  BY <1>5, <1>14 DEF Exits, StopPcs
<1> QED BY <1>6, <1>7, <1>8, <1>9, <1>10, <1>11, <1>12, <1>13, <1>14 DEF CalmTaskStep

\* While a round runs, every other connect waits.
LEMMA OneRuns ==
  ASSUME CalmState, NEW t \in Tasks, IsConnect(t), ~Waiting(t)
  PROVE  /\ \A u \in Tasks : IsConnect(u) /\ u # t => Waiting(u)
         /\ \A u \in Tasks : u # t => task[u].pc \notin {"done"} \cup StartPcs
  BY CallOfPc DEF CalmState, CalmInv, RoundInv, OnlyInflightRuns, Waiting, StartPcs

\* A step of a connect: SeqCurrent and BuildsAlone are about its own slot.
LEMMA OwnSlot ==
  ASSUME CalmState, NEW t \in Tasks, IsConnect(t), ~Waiting(t), Others(t),
         IsConnect(t)' => /\ task'[t].pc \in StartPcs \ {"start"} =>
                               task'[t].seq = runner'.attemptSeq /\ task'[t].seq # 0
                          /\ task'[t].pc \in BuildPcs \cup {"stop_exit"} =>
                               runner'.process = 0 /\ ~runner'.proxyTaken
  PROVE  SeqCurrent' /\ BuildsAlone'
<1>1. \A u \in Tasks : IsConnect(u)' /\ u # t => task'[u].pc = "await_prev"
  BY OneRuns DEF Others, IsConnect, Waiting
<1> QED BY <1>1 DEF SeqCurrent, BuildsAlone, StartPcs, BuildPcs

\* A step of another call that leaves the runs alone.
LEMMA OtherSlot ==
  ASSUME CalmState, NEW t \in Tasks, Others(t),
         IsConnect(t)' => task'[t].pc \notin StartPcs \cup {"stop_exit"},
         runner'.attemptSeq = runner.attemptSeq,
         runner.process = 0 => runner'.process = 0,
         runner'.proxyTaken => runner.proxyTaken
  PROVE  SeqCurrent' /\ BuildsAlone'
<1>1. \A u \in Tasks : IsConnect(u)' /\ u # t => IsConnect(u) /\ task'[u] = task[u]
  BY DEF Others, IsConnect
<1>2. SeqCurrent'
  BY <1>1 DEF CalmState, CalmInv, SeqCurrent
<1>3. BuildsAlone'
  BY <1>1 DEF CalmState, CalmInv, BuildsAlone, BuildPcs, StartPcs
<1> QED BY <1>2, <1>3

LEMMA TaskKeepsRuns ==
  ASSUME CalmState, NEW t \in Tasks, CalmTaskStep(t)
  PROVE  SeqCurrent' /\ BuildsAlone'
<1> TypeOK /\ RoundInv /\ OnlyUserCalls /\ SeqCurrent /\ BuildsAlone
  BY DEF CalmState, TypeInv, CalmInv
<1> runner \in RunnerType
  BY DEF TypeOK
<1> USE DEF SameCore, Waiting
<1>1. Ends(t) => Others(t) /\ (IsConnect(t)' => task'[t].pc = "done")
  BY DEF Ends, Frees, Same, IsConnect
<1>2. Halts(t) => Others(t) /\ task'[t].pc \in {"stop_idle", "stop_host"}
  BY DEF Halts, Same
<1>3. \A pc : Moves(t, pc) => /\ Others(t) /\ task'[t].pc = pc /\ task'[t].seq = task[t].seq
                              /\ IsConnect(t)' <=> IsConnect(t)
  BY DEF Moves, Same, IsConnect
<1>4. CASE GivesUp(t)
  BY <1>4, OtherSlot DEF GivesUp, Frees, Steady, IsConnect
<1>5. CASE Resumed(t)
  BY <1>3, <1>5, OtherSlot DEF Resumed, RunnerType, StartPcs
<1>6. CASE ConnectReturned(t)
  BY <1>6, ReturnLeaves, OtherSlot DEF Leaves, Frees, IsConnect
<1>7. CASE Builds(t)
  <2>1. IsConnect(t) /\ ~Waiting(t) /\ Others(t)
    BY <1>1, <1>2, <1>3, <1>7 DEF Builds, StartPcs
  <2>2. task'[t].pc \in StartPcs => task'[t].seq = task[t].seq /\ task[t].pc \in StartPcs \ {"start"}
    BY <1>1, <1>2, <1>3, <1>7, <2>1 DEF Builds, StartPcs, Ends
  <2>3. task'[t].pc \in BuildPcs \cup {"stop_exit"} => task[t].pc \in BuildPcs
    BY <1>1, <1>2, <1>3, <1>7, <2>1 DEF Builds, StartPcs, BuildPcs, Ends
  <2> QED BY <1>7, <2>1, <2>2, <2>3, OwnSlot DEF Builds, Steady, SeqCurrent, BuildsAlone
<1>8. CASE Enters(t)
  <2>1. IsConnect(t) /\ ~Waiting(t) /\ Others(t)
    BY <1>1, <1>8 DEF Enters, Same
  <2>2. runner'.process = 0 /\ ~runner'.proxyTaken
    BY <1>8 DEF Enters, BuildsAlone, BuildPcs, RunnerType
  <2>3. IsConnect(t)' /\ task'[t].pc \in StartPcs =>
          task'[t].seq = runner'.attemptSeq /\ task'[t].seq # 0
    BY <1>1, <1>8 DEF Enters, RunnerType, Runs, StartPcs
  <2> QED BY <2>1, <2>2, <2>3, OwnSlot
<1>9. CASE Registers(t)
  BY <1>3, <1>9, OwnSlot DEF Registers, SeqCurrent, StartPcs, BuildPcs, RunnerType
<1>10. CASE TakesOver(t)
  <2>1. runner'.attemptSeq = runner.attemptSeq
    BY <1>10 DEF TakesOver, RunnerType
  <2> QED BY <1>2, <1>3, <1>10, <2>1, OwnSlot DEF TakesOver, SeqCurrent, StartPcs, BuildPcs
<1>11. CASE Announces(t)
  BY <1>1, <1>11, OwnSlot DEF Announces, StartPcs, BuildPcs
<1>12. CASE Clears(t)
  BY <1>3, <1>12, OtherSlot DEF Clears, Steady, StartPcs
<1>13. CASE TakesDown(t)
  <2>1. runner'.process = 0 /\ ~runner'.proxyTaken /\ runner'.attemptSeq = runner.attemptSeq
    BY <1>13 DEF TakesDown, Release, RunnerType
  <2>2. Others(t) /\ (IsConnect(t)' => IsConnect(t))
        /\ task'[t].pc \notin StartPcs \ {"start"}
    BY <1>1, <1>3, <1>13 DEF TakesDown, Finishes, Ends, StartPcs, IsConnect, Frees
  <2>3. CASE IsConnect(t)
    BY <1>13, <2>1, <2>2, <2>3, OwnSlot DEF TakesDown, HaltPcs
  <2>4. CASE ~IsConnect(t)
    BY <2>1, <2>2, <2>4, OtherSlot
  <2> QED BY <2>3, <2>4
<1>14. CASE Exits(t)
  <2>1. Others(t) /\ (IsConnect(t)' => IsConnect(t))
        /\ task'[t].pc \notin StartPcs \ {"start"}
    BY <1>1, <1>3, <1>14 DEF Exits, Finishes, Ends, StartPcs, IsConnect, Frees
  <2>2. CASE IsConnect(t)
    BY <1>14, <2>1, <2>2, OwnSlot DEF Exits, BuildsAlone
  <2>3. CASE ~IsConnect(t)
    BY <1>14, <2>1, <2>3, OtherSlot DEF Exits
  <2> QED BY <2>2, <2>3
<1> QED BY <1>4, <1>5, <1>6, <1>7, <1>8, <1>9, <1>10, <1>11, <1>12, <1>13, <1>14
        DEF CalmTaskStep

LEMMA TaskKeepsKernels ==
  ASSUME CalmState, NEW t \in Tasks, CalmTaskStep(t)
  PROVE  KernelKnown' /\ ~runner'.timer /\ \A k \in Runs : kernel'[k].st # "exited"
<1> TypeOK /\ RoundInv /\ NothingFails /\ KernelKnown /\ SeqCurrent /\ BuildsAlone
  BY DEF CalmState, TypeInv, CalmInv
<1> runner \in RunnerType /\ 0 \notin Runs
  BY DEF TypeOK, Runs
<1> USE DEF SameCore
<1>1. ASSUME SameLife, runner'.process = runner.process
      PROVE  KernelKnown' /\ \A k \in Runs : kernel'[k].st # "exited"
  BY <1>1 DEF SameLife, KernelKnown
<1>2. kernel' = kernel => SameLife
  BY SteadyKernel
<1>3. CASE GivesUp(t) \/ Builds(t) \/ Clears(t)
  BY <1>1, <1>3 DEF GivesUp, Builds, Clears, Steady, NothingFails
<1>4. CASE Resumed(t)
  BY <1>1, <1>4 DEF Resumed, RunnerType
<1>5. CASE ConnectReturned(t)
  BY <1>1, <1>2, <1>5, ReturnLeaves DEF Leaves, NothingFails
<1>6. CASE Enters(t)
  BY <1>1, <1>6 DEF Enters, RunnerType, NothingFails
<1>7. CASE Registers(t)
  <2>1. runner.process = 0 /\ task[t].seq # 0
    BY <1>7 DEF Registers, SeqCurrent, BuildsAlone, BuildPcs, StartPcs
  <2>2. \A k \in Runs : kernel[k].st # "live"
    BY <2>1 DEF KernelKnown
  <2>3. \A k \in Runs : kernel'[k].st = IF k = task[t].seq THEN "live" ELSE kernel[k].st
    BY <1>7 DEF Registers, TypeOK, KernelType
  <2>4. runner'.process = task[t].seq /\ ~runner'.timer
    BY <1>7 DEF Registers, NothingFails, RunnerType
  <2> QED BY <2>2, <2>3, <2>4 DEF KernelKnown, NothingFails
<1>8. CASE TakesOver(t)
  <2>1. runner'.process = runner.process /\ runner'.timer = runner.timer
    BY <1>8 DEF TakesOver, RunnerType
  <2> QED BY <1>1, <1>2, <1>8, <2>1 DEF TakesOver, NothingFails
<1>9. CASE Announces(t) \/ Exits(t)
  BY <1>1, <1>2, <1>9 DEF Announces, Exits, NothingFails
<1>10. CASE TakesDown(t)
  <2>1. runner'.process = 0 /\ ~runner'.timer
    BY <1>10 DEF TakesDown, Release, RunnerType, NothingFails
  <2>2. \A k \in Runs : kernel'[k].st # "exited" /\ kernel'[k].st # "live"
    BY <1>10 DEF TakesDown, KernelKnown
  <2> QED BY <2>1, <2>2 DEF KernelKnown
<1> QED BY <1>3, <1>4, <1>5, <1>6, <1>7, <1>8, <1>9, <1>10 DEF CalmTaskStep

\* The commands of the user keep the invariant.
LEMMA UserKeepsCalm ==
  ASSUME CalmState, CalmUserStep, budget'.crashes = 0, budget'.health = 0, ~tick'
  PROVE  CalmInv'
<1> TypeOK /\ RoundInv /\ CalmInv
  BY DEF CalmState, TypeInv
<1> runner \in RunnerType
  BY DEF TypeOK
<1> USE RoundFacts DEF CalmUserStep, SameCore
<1>1. kernel' = kernel /\ runner'.process = runner.process
      /\ runner'.proxyTaken = runner.proxyTaken /\ runner'.attemptSeq = runner.attemptSeq
      /\ ~runner'.timer
  BY DEF HangsUp, DialsAnew, Stores, CalmInv, NothingFails, RunnerType
<1>2. NothingFails' /\ KernelKnown'
  BY <1>1 DEF CalmInv, NothingFails, KernelKnown
<1>3. ASSUME NEW t \in Tasks, HangsUp(t)
      PROVE  CalmInv'
  <2>1. Others(t) /\ ~IsConnect(t)' /\ ~IsConnect(t)
    BY <1>3 DEF HangsUp, CalmInv, OnlyUserCalls, IsConnect, At, StartPcs, StopPcs
  <2>2. \A u \in Tasks : /\ (IsConnect(u)' <=> IsConnect(u))
                         /\ IsConnect(u) => u # t /\ task'[u] = task[u]
    BY <2>1 DEF Others, IsConnect
  <2>3. OnlyUserCalls'
    BY <1>3 DEF HangsUp, CalmInv, OnlyUserCalls, Others, IsConnect, StopPcs
  <2>4. InflightRuns'
    BY <1>3, <2>2 DEF HangsUp, CalmInv, InflightRuns, Running, Waiting
  <2>5. TokensCurrent' /\ AttemptHeld'
    BY <1>3, <2>2 DEF HangsUp, CalmInv, TokensCurrent, AttemptHeld
  <2>6. SeqCurrent' /\ BuildsAlone'
    BY <1>1, <1>3, <2>1, OtherSlot DEF HangsUp
  <2> QED BY <1>2, <2>3, <2>4, <2>5, <2>6 DEF CalmInv
<1>4. ASSUME NEW t \in Tasks, DialsAnew(t)
      PROVE  CalmInv'
  <2>1. Others(t) /\ IsConnect(t)' /\ ~IsConnect(t)
    BY <1>4 DEF DialsAnew, CalmInv, OnlyUserCalls, IsConnect, At, StartPcs, StopPcs
  <2>2. \A u \in Tasks : /\ IsConnect(u) => u # t /\ IsConnect(u)' /\ task'[u] = task[u]
                         /\ IsConnect(u)' => IsConnect(u) \/ u = t
    BY <2>1 DEF Others, IsConnect
  <2>3. OnlyUserCalls'
    <3>1. task'[t].then = "start" /\ task'[t].pc \in {"await_prev"} \cup StopPcs
      BY <1>4 DEF DialsAnew, StopPcs
    <3> QED BY <2>1, <3>1 DEF CalmInv, OnlyUserCalls, Others, IsConnect
  <2>4. InflightRuns'
    <3>1. CASE app.inflight # NoTask
      <4>1. app'.inflight = app.inflight
        BY <1>4, <3>1 DEF DialsAnew
      <4> QED BY <2>2, <3>1, <4>1 DEF CalmInv, InflightRuns, Running, Waiting
    <3>2. CASE app.inflight = NoTask
      BY <1>4, <2>1, <3>2 DEF DialsAnew, InflightRuns, Running, Waiting
    <3> QED BY <3>1, <3>2
  <2>5. TokensCurrent'
    BY <1>4, <2>2 DEF DialsAnew, CalmInv, TokensCurrent
  <2>6. AttemptHeld'
    BY <1>4, <2>1 DEF DialsAnew, AttemptHeld
  <2>7. SeqCurrent' /\ BuildsAlone'
    BY <1>1, <1>4, <2>1, OtherSlot DEF DialsAnew, StartPcs
  <2> QED BY <1>2, <2>3, <2>4, <2>5, <2>6, <2>7 DEF CalmInv
<1>5. CASE Stores
  BY <1>2, <1>5 DEF Stores, SameRound, CalmInv, OnlyUserCalls, InflightRuns, TokensCurrent,
     AttemptHeld, SeqCurrent, BuildsAlone, IsConnect, Running, Waiting
<1> QED BY <1>3, <1>4, <1>5

LEMMA WatchKeepsCalm ==
  ASSUME CalmState, Watches, budget'.crashes = 0, budget'.health = 0, ~tick'
  PROVE  CalmInv'
<1> CalmInv /\ runner \in RunnerType
  BY DEF CalmState, TypeInv, TypeOK
<1>1. /\ app' = app /\ task' = task /\ kernel' = kernel
      /\ runner'.process = runner.process /\ runner'.timer = runner.timer
      /\ runner'.attemptSeq = runner.attemptSeq
      /\ runner'.proxyTaken => runner.proxyTaken
  BY DEF Watches, SameCore, Release, RunnerType
<1> QED BY <1>1 DEF CalmInv, OnlyUserCalls, NothingFails, InflightRuns, TokensCurrent,
     AttemptHeld, SeqCurrent, BuildsAlone, KernelKnown, IsConnect, Running, Waiting

\* No tick starts, for there is no health verdict to come.
LEMMA NoTick ==
  ASSUME CalmInv, [Next]_vars
  PROVE  ~tick'
<1> ~tick /\ budget.health = 0
  BY DEF CalmInv, NothingFails
<1>1. CASE UserStep
  BY <1>1 DEF UserStep, ToggleConnection, CancelConnect, SetActiveProfile,
     SetProfileCredentials, RemoveProfile, ImportConf, Command
<1>2. ASSUME NEW t \in Tasks, TaskStep(t) PROVE ~tick'
  BY <1>2 DEF TaskStep, AwaitPrevious, ConnectReturned, StartTunnel, IndexLoaded,
     PortsAllocated, HostBound, HostStarted, Spawned, SpawnThrows, ApiAnswered, ProxySet,
     GatePassed, ProxyReleased, HostStopped, ProxyCleared, KernelGone, ExitCleared
<1>3. CASE RecoveryStep
  BY <1>3 DEF RecoveryStep, KernelCrashes, ExitCallback, TimerFires, TickStarts, TickHealthy,
     TickUnhealthy
<1>4. CASE WatchdogStep
  BY <1>4 DEF WatchdogStep, ReconcileStarts, PortProbed, BackupProbed, WatchdogCleared, Watchdog
<1> QED BY <1>1, <1>2, <1>3, <1>4 DEF Next, vars

LEMMA CalmInvInductive ==
  ASSUME Calm, CalmState, [Next]_vars
  PROVE  CalmState'
<1>1. TypeInv' /\ RoundInv'
  BY TypeInvInductive, RoundInvInductive DEF CalmState
<1>2. budget'.crashes = 0 /\ budget'.health = 0 /\ ~tick'
  BY <1>1, NoTick DEF CalmState, TypeInv, TypeOK, BudgetType, Calm
<1>3. ASSUME NEW t \in Tasks, CalmTaskStep(t) PROVE CalmInv'
  BY <1>2, <1>3, TaskKeepsCalls, TaskKeepsTokens, TaskKeepsRuns, TaskKeepsKernels
     DEF CalmInv, TokenInv, NothingFails
<1> QED BY <1>1, <1>2, <1>3, CalmSteps, CalmUserSteps, UserKeepsCalm, WatchKeepsCalm
        DEF CalmState, TypeInv

LEMMA InitCalm == ASSUME Calm, Init PROVE CalmState
<1>1. TypeInv /\ RoundInv
  BY InitTyped, InitRounds
<1>2. CalmInv
  BY DEF Calm, Init, Free, CalmInv, OnlyUserCalls, NothingFails, InflightRuns, TokensCurrent,
     AttemptHeld, SeqCurrent, BuildsAlone, KernelKnown, IsConnect, NoTask, StartPcs, BuildPcs, Runs
<1> QED BY <1>1, <1>2 DEF CalmState

LEMMA CalmInvariant == ASSUME Calm PROVE Spec => []CalmState
<1>1. Init => CalmState
  BY InitCalm
<1>2. CalmState /\ [Next]_vars => CalmState'
  BY CalmInvInductive
<1> QED BY <1>1, <1>2, PTL DEF Spec

\* Every kernel that runs is the one the runner knows and can still stop, however fast the
\* user dials, cancels and switches, whichever starts and proxy commands fail: a run that was
\* superseded while its kernel was being spawned kills it.  (SingBoxRunner._startTunnel, the
\* aborted() test after Process.start; _stopCore.)  Kernels that exit by themselves are
\* excluded: one of them does leave an orphan.
THEOREM NoKernelOrphaned == ASSUME Calm PROVE Spec => []NoOrphanKernel
<1>1. CalmState => NoOrphanKernel
  BY DEF CalmState, CalmInv, KernelKnown, NoOrphanKernel, Alive
<1> QED BY <1>1, CalmInvariant, PTL

-----------------------------------------------------------------------------
(***************************************************************************)
(* RestInv is inductive when the user is patient.                          *)
(***************************************************************************)
RestState == CalmState /\ RestInv

LEMMA RestFacts ==
  ASSUME RestState
  PROVE  /\ TypeOK /\ RoundInv /\ CalmInv /\ runner \in RunnerType /\ 0 \notin Runs
         /\ OnlyUserCalls /\ TokensCurrent /\ SeqCurrent /\ BuildsAlone /\ KernelKnown
         /\ WantedIsUp /\ Climbing /\ Serving /\ Down /\ WindsDown
  BY DEF RestState, CalmState, TypeInv, TypeOK, CalmInv, RestInv, Runs

\* A run that was not aborted belongs to a user who wants a connection.
LEMMA NotAborted ==
  ASSUME CalmState, NEW t \in Tasks, IsConnect(t), ~Unwanted(runner, task[t].att)
  PROVE  app.want /\ task[t].att = app.attempt
  BY DEF CalmState, CalmInv, Unwanted, RoundInv, NoIntentNoAttempt, Untouched,
     TokensCurrent, IsConnect

LEMMA AbortedUnwanted ==
  ASSUME NEW t \in Tasks, ~Aborted(t)
  PROVE  ~Unwanted(runner, task[t].att)
  BY DEF Aborted, Superseded, Unwanted

\* A calm step of a task: whose call it is, and what it leaves of the wish.
LEMMA WishSteps ==
  ASSUME CalmState, NEW t \in Tasks, CalmTaskStep(t)
  PROVE  /\ IsConnect(t) \/ task[t].kind = "disconnect"
         /\ Others(t) /\ app'.want = app.want
         /\ \A u \in Tasks : task'[u].kind = "disconnect" => task[u].kind = "disconnect"
         /\ runner'.userDisconnect => runner.userDisconnect
<1> TypeOK /\ RoundInv /\ OnlyUserCalls /\ runner \in RunnerType
  BY DEF CalmState, TypeInv, TypeOK, CalmInv
<1>1. IsConnect(t) \/ task[t].kind = "disconnect"
  BY CallOfPc, ReturnLeaves DEF CalmTaskStep, GivesUp, Resumed, Leaves, Builds, Enters, Registers,
     TakesOver, Announces, Clears, TakesDown, Exits, Waiting, StopPcs, HaltPcs
<1>2. /\ Others(t) /\ app'.want = app.want
      /\ \A u \in Tasks : task'[u].kind = "disconnect" => task[u].kind = "disconnect"
  BY TokenSteps DEF Resumed, Leaves, TokenFields, Same, Frees, Others, TypeOK, AppType
<1>3. runner'.userDisconnect => runner.userDisconnect
  BY ReturnLeaves DEF CalmTaskStep, GivesUp, Resumed, Leaves, Builds, Enters, Registers,
     TakesOver, Announces, Clears, TakesDown, Exits, Steady, SameCore, Release, RunnerType
<1> QED BY <1>1, <1>2, <1>3

\* The step of a user's who wants a connection is a connect's.
LEMMA WantedSteps ==
  ASSUME RestState, app.want, NEW t \in Tasks, CalmTaskStep(t)
  PROVE  IsConnect(t) /\ ~runner.userDisconnect
  BY WishSteps, RestFacts DEF RestState, WantedIsUp

\* While a cancelled round is taken down for one that waits, that one will dial.
LEMMA DialFound ==
  ASSUME RestState, app.want, NEW t \in Tasks, IsConnect(t),
         task[t].pc \in StopPcs, task[t].then = "start"
  PROVE  \E u \in Tasks : Dials(u)
<1> ~Waiting(t)
  BY DEF Waiting, StopPcs
<1>1. app.inflight = t /\ t # NoTask
  BY RoundFacts, RestFacts
<1>2. PICK u \in Tasks : IsConnect(u) /\ task[u].att = app.attempt
  BY <1>1, RestFacts DEF CalmInv, AttemptHeld
<1>3. u = t \/ Waiting(u)
  BY <1>2, OneRuns DEF RestState
<1> QED BY <1>2, <1>3 DEF Dials, Waiting

\* A dial on its way stays on its way until it enters _startTunnel.
LEMMA DialsLast ==
  ASSUME RestState, app.want, NEW t \in Tasks, CalmTaskStep(t),
         app.status = "connected", app'.status = "connected",
         NEW u \in Tasks, Dials(u)
  PROVE  Dials(u)'
<1> TypeOK /\ RoundInv /\ CalmInv /\ IsConnect(t) /\ ~runner.userDisconnect
  BY RestFacts, WantedSteps
<1>1. task[u].att \notin app.cancelled
  BY DEF Dials, CalmInv, TokensCurrent
<1>2. app'.attempt = app.attempt
  <2>1. Leaves(t) => task[t].att # app.attempt
    BY RoundFacts DEF Leaves, Dials, StopPcs
  <2> QED BY <2>1, TokenSteps DEF Resumed, Leaves, TokenFields, TypeOK, AppType
<1>3. CASE u # t
  BY <1>2, <1>3, WishSteps DEF RestState, Others, Dials, IsConnect
<1>4. CASE u = t
  <2>1. \A pc : Moves(t, pc) /\ (pc = "start" \/ (pc \in StopPcs /\ task[t].then = "start"))
                 => Dials(t)'
    BY <1>2, <1>4 DEF Moves, Same, Dials, IsConnect
  <2>2. task[t].pc \in StopPcs => task[t].then = "start"
    BY <1>4 DEF Dials, StopPcs
  <2>3. Finishes(t) /\ task[t].pc \in StopPcs => Dials(t)'
    BY <2>1, <2>2 DEF Finishes
  <2>4. CASE Resumed(t)
    BY <1>4, <2>1, <2>4, CallOfPc DEF Resumed, CalmInv, Waiting, StopPcs
  <2>5. CASE Enters(t)
    BY <1>1, <1>4, <2>5 DEF Enters, Unwanted, Shows
  <2>6. CASE Clears(t)
    BY <1>4, <2>1, <2>2, <2>6 DEF Clears, StopPcs
  <2>7. CASE TakesDown(t)
    BY <1>4, <2>1, <2>2, <2>3, <2>7 DEF TakesDown, HaltPcs, StopPcs
  <2>8. CASE Exits(t)
    BY <1>4, <2>3, <2>8 DEF Exits, StopPcs
  <2>9. GivesUp(t) => FALSE
    BY <1>1, <1>4 DEF GivesUp
  <2>10. ConnectReturned(t) \/ Builds(t) \/ Registers(t) \/ TakesOver(t) \/ Announces(t) => FALSE
    BY <1>4, ReturnLeaves DEF Leaves, Builds, Registers, TakesOver, Announces, Dials,
       StartPcs, StopPcs
  <2> QED BY <1>4, <2>4, <2>5, <2>6, <2>7, <2>8, <2>9, <2>10 DEF CalmTaskStep
<1> QED BY <1>3, <1>4

\* While "connected" lasts, the kernel that serves it lasts, or the next dial is on its way.
LEMMA KernelLasts ==
  ASSUME RestState, app.want, NEW t \in Tasks, CalmTaskStep(t),
         app.status = "connected", app'.status = "connected", runner.process # 0
  PROVE  \/ /\ runner'.process = runner.process
            /\ kernel'[runner.process].prof = kernel[runner.process].prof
         \/ \E u \in Tasks : Dials(u)'
<1> /\ TypeOK /\ RoundInv /\ CalmInv /\ IsConnect(t) /\ runner \in RunnerType
    /\ BuildsAlone /\ Climbs(t)
  BY RestFacts, WantedSteps DEF Climbing
<1>1. runner.process \in Runs /\ kernel[runner.process].st = "live"
  BY RestFacts DEF RunnerType, KernelKnown
<1>2. SameLife => kernel'[runner.process].prof = kernel[runner.process].prof
  BY <1>1 DEF SameLife
<1> USE DEF SameCore
<1>3. CASE GivesUp(t) \/ Builds(t) \/ Clears(t)
  BY <1>2, <1>3 DEF GivesUp, Builds, Clears, Steady
<1>4. CASE Resumed(t)
  BY <1>2, <1>4 DEF Resumed, RunnerType
<1>5. CASE ConnectReturned(t)
  BY <1>5, ReturnLeaves DEF Leaves
<1>6. CASE Enters(t) \/ Registers(t) \/ TakesOver(t) \/ Announces(t) \/ Exits(t)
  BY <1>6 DEF Enters, Registers, TakesOver, Announces, Exits, BuildsAlone, BuildPcs, Climbs,
     StartPcs
<1>7. CASE TakesDown(t)
  <2>1. task[t].pc \in StopPcs /\ task[t].then = "start"
    <3>1. task[t].pc \in StopPcs
      BY <1>7 DEF TakesDown, HaltPcs, StopPcs
    <3>2. task[t].then \in {"start", "return"}
      BY DEF TypeOK, TaskRec
    <3> QED BY <3>1, <3>2 DEF Climbs
  <2> QED BY <2>1, DialFound, DialsLast
<1> QED BY <1>3, <1>4, <1>5, <1>6, <1>7 DEF CalmTaskStep

LEMMA TaskKeepsWanted ==
  ASSUME RestState, NEW t \in Tasks, CalmTaskStep(t)
  PROVE  WantedIsUp'
  BY WishSteps, RestFacts DEF RestState, WantedIsUp

LEMMA TaskKeepsClimbing ==
  ASSUME RestState, NEW t \in Tasks, CalmTaskStep(t)
  PROVE  Climbing'
<1> SUFFICES ASSUME app.want, NEW u \in Tasks, IsConnect(u)'
             PROVE  Climbs(u)'
  BY WishSteps DEF RestState, Climbing
<1> /\ TypeOK /\ RoundInv /\ CalmInv /\ runner \in RunnerType
    /\ IsConnect(t) /\ ~runner.userDisconnect /\ Climbs(t) /\ Others(t)
  BY RestFacts, WantedSteps, WishSteps DEF Climbing, RestState
<1> USE DEF SameCore
<1>1. CASE u # t
  <2>1. IsConnect(u) /\ task'[u] = task[u]
    BY <1>1 DEF Others, IsConnect
  <2>2. CASE Waiting(u)
    BY <2>1, <2>2 DEF Waiting, Climbs, StartPcs, StopPcs, UpPcs
  <2>3. CASE ~Waiting(u)
    <3>1. Waiting(t)
      BY <1>1, <2>1, <2>3, OneRuns DEF RestState
    <3>2. GivesUp(t)
      <4>1. app.inflight # NoTask
        BY <2>1, <2>3, RoundFacts
      <4>2. ConnectReturned(t) => FALSE
        BY <3>1, ReturnLeaves DEF Leaves, Waiting
      <4> QED BY <3>1, <4>1, <4>2
              DEF CalmTaskStep, Resumed, Builds, Enters, Registers, TakesOver, Announces,
                  Clears, TakesDown, Exits, Waiting, StartPcs, HaltPcs
    <3> QED BY <2>1, <3>2, RestFacts DEF GivesUp, Steady, Climbing, Climbs
  <2> QED BY <2>2, <2>3
<1>2. CASE u = t
  <2>1. Ends(t) => Climbs(t)'
    BY DEF Ends, Climbs, StartPcs, StopPcs, UpPcs
  <2>2. Halts(t) /\ app'.status # "connected" => Climbs(t)'
    BY DEF Halts, Climbs, StartPcs, StopPcs, UpPcs
  <2>3. \A pc : Moves(t, pc) /\ pc \in StopPcs
                  /\ (task[t].then = "return" => app'.status # "connected") => Climbs(t)'
    BY DEF Moves, Climbs, StartPcs, StopPcs, UpPcs
  <2>4. task[t].pc \in StopPcs /\ Finishes(t) => Climbs(t)'
    BY <2>1 DEF Finishes, Moves, Climbs, StartPcs, StopPcs, UpPcs
  <2>5. CASE GivesUp(t) \/ ConnectReturned(t)
    BY <1>2, <2>5, ReturnLeaves DEF GivesUp, Leaves, Frees, IsConnect
  <2>6. CASE Resumed(t)
    <3>1. task[t].then = "start"
      BY <2>6, CallOfPc DEF Resumed, Waiting, CalmInv
    <3> QED BY <1>2, <2>3, <2>6, <3>1 DEF Resumed, StopPcs
  <2>7. CASE Builds(t)
    <3>1. app'.status = app.status /\ app.status # "connected" /\ runner'.process = runner.process
      BY <2>7 DEF Builds, Steady, Climbs, StartPcs
    <3>2. CASE task[t].pc = "api" /\ Moves(t, "set_proxy")
      BY <1>2, <3>1, <3>2 DEF Moves, Climbs, StartPcs, StopPcs, UpPcs
    <3>3. ASSUME task[t].pc \in StartPcs \ {"start", "api", "set_proxy", "gate"},
                 NEW pc \in StartPcs \ {"start", "api", "set_proxy", "gate"}, Moves(t, pc)
          PROVE  Climbs(t)'
      BY <3>1, <3>3 DEF Moves, Climbs, StartPcs, StopPcs, UpPcs
    <3> QED BY <1>2, <2>1, <2>2, <2>7, <3>1, <3>2, <3>3 DEF Builds
  <2>8. CASE Enters(t)
    BY <1>2, <2>1, <2>8 DEF Enters, Shows, Climbs, StartPcs, StopPcs, UpPcs
  <2>9. CASE Registers(t)
    BY <1>2, <2>9 DEF Registers, Moves, Climbs, StartPcs, StopPcs, UpPcs, RunnerType
  <2>10. CASE TakesOver(t)
    <3>1. app.status # "connected" /\ runner'.process = runner.process
      BY <2>10 DEF TakesOver, Climbs, StartPcs, RunnerType
    <3> QED BY <1>2, <2>2, <2>10, <3>1 DEF TakesOver, Shows, Moves, Climbs, StartPcs, StopPcs, UpPcs
  <2>11. CASE Announces(t)
    BY <1>2, <2>1, <2>11 DEF Announces
  <2>12. CASE Clears(t)
    BY <1>2, <2>3, <2>12 DEF Clears, Steady, Climbs, StopPcs
  <2>13. CASE TakesDown(t)
    BY <1>2, <2>3, <2>4, <2>13 DEF TakesDown, Climbs, StopPcs, HaltPcs
  <2>14. CASE Exits(t)
    BY <1>2, <2>4, <2>14 DEF Exits, StopPcs
  <2> QED BY <2>5, <2>6, <2>7, <2>8, <2>9, <2>10, <2>11, <2>12, <2>13, <2>14 DEF CalmTaskStep
<1> QED BY <1>1, <1>2

\* Only the readiness gate lifts the status to "connected".
LEMMA LiftedByGate ==
  ASSUME TypeOK, RoundInv, NEW t \in Tasks, CalmTaskStep(t),
         app.status # "connected", app'.status = "connected"
  PROVE  Announces(t)
  BY ReturnLeaves DEF CalmTaskStep, GivesUp, Resumed, Leaves, Builds, Enters, Registers,
     TakesOver, Clears, TakesDown, Exits, Steady, Finishes, Shows, TypeOK, AppType

LEMMA TaskKeepsServing ==
  ASSUME RestState, NEW t \in Tasks, CalmTaskStep(t)
  PROVE  Serving'
<1> SUFFICES ASSUME app.want, app'.status = "connected"
             PROVE  runner'.process # 0 \/ \E u \in Tasks : Dials(u)'
  BY WishSteps DEF RestState, Serving
<1> /\ TypeOK /\ RoundInv /\ CalmInv /\ runner \in RunnerType
    /\ IsConnect(t) /\ Climbs(t) /\ SeqCurrent
  BY RestFacts, WantedSteps DEF Climbing
<1>1. CASE app.status = "connected"
  BY <1>1, DialsLast, KernelLasts, RestFacts DEF Serving
<1>2. CASE app.status # "connected"
  BY <1>2, LiftedByGate DEF Announces, Climbs, UpPcs, SeqCurrent, StartPcs, SameCore
<1> QED BY <1>1, <1>2

LEMMA TaskKeepsDown ==
  ASSUME RestState, NEW t \in Tasks, CalmTaskStep(t)
  PROVE  Down'
<1> SUFFICES ASSUME app.want, app'.status = "disconnected"
             PROVE  runner'.process = 0 /\ ~runner'.proxyTaken
  BY WishSteps DEF RestState, Down
<1> /\ TypeOK /\ RoundInv /\ CalmInv /\ runner \in RunnerType /\ BuildsAlone
    /\ IsConnect(t) /\ Climbs(t) /\ Down
  BY RestFacts, WantedSteps DEF Climbing
<1> USE DEF SameCore
<1>1. CASE GivesUp(t) \/ Builds(t) \/ Clears(t)
  BY <1>1 DEF GivesUp, Builds, Clears, Steady, Down
<1>2. CASE Resumed(t)
  BY <1>2 DEF Resumed, Down, TypeOK, AppType, RunnerType
<1>3. CASE ConnectReturned(t)
  BY <1>3, ReturnLeaves DEF Leaves, Down
<1>4. CASE Enters(t)
  BY <1>4 DEF Enters, BuildsAlone, BuildPcs, RunnerType
<1>5. CASE Registers(t) \/ TakesOver(t) \/ Announces(t)
  BY <1>5 DEF Registers, TakesOver, Announces, Shows, Climbs, StartPcs
<1>6. CASE TakesDown(t)
  BY <1>6 DEF TakesDown, Release, RunnerType
<1>7. CASE Exits(t)
  BY <1>7 DEF Exits, BuildsAlone
<1> QED BY <1>1, <1>2, <1>3, <1>4, <1>5, <1>6, <1>7 DEF CalmTaskStep

LEMMA TaskKeepsWindingDown ==
  ASSUME RestState, NEW t \in Tasks, CalmTaskStep(t)
  PROVE  WindsDown'
<1> DEFINE winds(u) == task[u].pc \in HaltPcs \/ (IsConnect(u) /\ task[u].pc \in UpPcs)
<1> SUFFICES ASSUME ~app.want, runner'.process # 0 \/ runner'.proxyTaken
             PROVE  \E u \in Tasks : winds(u)'
  BY WishSteps DEF RestState, WindsDown
<1> /\ TypeOK /\ RoundInv /\ CalmInv /\ runner \in RunnerType /\ BuildsAlone
    /\ WindsDown /\ Others(t)
  BY RestFacts, WishSteps DEF RestState
<1> USE DEF SameCore
<1>1. IsConnect(t) => Unwanted(runner, task[t].att)
  BY NotAborted DEF RestState
<1>2. IsConnect(t) => Aborted(t)
  BY <1>1 DEF Unwanted, Aborted, Superseded
<1>3. \A pc : Moves(t, pc) /\ pc \in HaltPcs => winds(t)'
  BY DEF Moves
<1>4. Halts(t) => winds(t)'
  BY DEF Halts, HaltPcs
<1>5. ASSUME runner'.process = runner.process, runner'.proxyTaken = runner.proxyTaken,
             ~winds(t)
      PROVE  \E u \in Tasks : winds(u)'
  <2>1. PICK u \in Tasks : winds(u)
    BY <1>5 DEF WindsDown
  <2>2. task'[u] = task[u]
    BY <1>5, <2>1 DEF Others
  <2> QED BY <2>1, <2>2 DEF IsConnect
<1>6. CASE GivesUp(t)
  BY <1>5, <1>6 DEF GivesUp, Steady, Waiting, HaltPcs, UpPcs
<1>7. CASE Resumed(t)
  BY <1>3, <1>7 DEF Resumed, HaltPcs
<1>8. CASE ConnectReturned(t)
  BY <1>5, <1>8, ReturnLeaves DEF Leaves, HaltPcs, UpPcs
<1>9. CASE Builds(t)
  <2>1. task[t].pc \in StartPcs \ {"start", "api", "set_proxy", "gate"} => ~winds(t)
    BY DEF StartPcs, HaltPcs, UpPcs
  <2> QED BY <1>2, <1>4, <1>5, <1>9, <2>1 DEF Builds, Steady
<1>10. CASE Enters(t)
  BY <1>10 DEF Enters, BuildsAlone, BuildPcs, RunnerType
<1>11. CASE Registers(t) \/ TakesOver(t) \/ Announces(t)
  BY <1>2, <1>4, <1>11 DEF Registers, TakesOver, Announces
<1>12. CASE Clears(t)
  BY <1>3, <1>12 DEF Clears, HaltPcs
<1>13. CASE TakesDown(t)
  BY <1>13 DEF TakesDown, Release, RunnerType
<1>14. CASE Exits(t)
  BY <1>5, <1>14 DEF Exits, HaltPcs, UpPcs
<1> QED BY <1>6, <1>7, <1>8, <1>9, <1>10, <1>11, <1>12, <1>13, <1>14 DEF CalmTaskStep

LEMMA UserKeepsRest ==
  ASSUME Patience, RestState, CalmUserStep
  PROVE  RestInv'
<1> /\ TypeOK /\ RoundInv /\ CalmInv /\ OnlyUserCalls /\ runner \in RunnerType
    /\ WantedIsUp /\ Climbing /\ Serving /\ Down /\ WindsDown /\ PatientUser
  BY RestFacts DEF Patience
<1> USE RoundFacts DEF CalmUserStep, SameCore
<1>1. /\ runner'.process = runner.process /\ runner'.proxyTaken = runner.proxyTaken
      /\ app'.status = app.status
  BY DEF HangsUp, DialsAnew, Stores, SameRound, RunnerType
<1>2. ASSUME NEW t \in Tasks, HangsUp(t) PROVE RestInv'
  BY <1>2 DEF HangsUp, RestInv, WantedIsUp, Climbing, Serving, Down, WindsDown, HaltPcs
<1>3. ASSUME NEW t \in Tasks, DialsAnew(t) PROVE RestInv'
  <2>1. /\ \A u \in Tasks : task[u].kind # "disconnect"
        /\ app.status = "disconnected" => \A u \in Tasks : At(u, "free")
    BY <1>3 DEF DialsAnew, Patiently
  <2>2. /\ Others(t) /\ IsConnect(t)' /\ task'[t].then = "start" /\ app'.want
        /\ task'[t].att = app'.attempt
        /\ task'[t].pc \in {"await_prev", "stop_idle", "stop_host"}
    BY <1>3 DEF DialsAnew, IsConnect
  <2>3. ~app.want => app.status = "disconnected" /\ \A u \in Tasks : At(u, "free")
    BY <2>1 DEF RoundInv, IntentHonoured
  <2>4. app.inflight # NoTask => app.want
    BY <2>3 DEF CalmInv, InflightRuns, Running, At, IsConnect, OnlyUserCalls, StartPcs, StopPcs
  <2>5. ~runner'.userDisconnect
    BY <1>3, <2>4 DEF DialsAnew, WantedIsUp, RunnerType
  <2>6. WantedIsUp'
    BY <2>1, <2>2, <2>5 DEF WantedIsUp, Others, IsConnect
  <2>7. Climbing'
    <3>1. Climbs(t)'
      BY <2>2 DEF Climbs, StartPcs, StopPcs, UpPcs
    <3>2. ASSUME NEW u \in Tasks, u # t, IsConnect(u)' PROVE Climbs(u)'
      <4>1. IsConnect(u) /\ task'[u] = task[u]
        BY <2>2, <3>2 DEF Others, IsConnect
      <4>2. app.want
        BY <2>3, <4>1 DEF OnlyUserCalls, At, IsConnect, StartPcs, StopPcs
      <4> QED BY <1>1, <4>1, <4>2 DEF Climbing, Climbs
    <3> QED BY <3>1, <3>2 DEF Climbing
  <2>8. Serving'
    BY <2>2 DEF Serving, Dials, StopPcs
  <2>9. Down'
    BY <1>1, <2>3 DEF Down, WindsDown, At, HaltPcs, UpPcs
  <2>10. WindsDown'
    BY <2>2 DEF WindsDown
  <2> QED BY <2>6, <2>7, <2>8, <2>9, <2>10 DEF RestInv
<1>4. CASE Stores
  BY <1>4 DEF Stores, SameRound, RestInv, WantedIsUp, Climbing, Climbs, Serving, Dials, Down,
     WindsDown, IsConnect
<1> QED BY <1>2, <1>3, <1>4

LEMMA WatchKeepsRest ==
  ASSUME RestState, Watches
  PROVE  RestInv'
<1> RestInv /\ runner \in RunnerType
  BY RestFacts DEF RestState
<1>1. /\ app' = app /\ task' = task
      /\ runner'.process = runner.process /\ runner'.userDisconnect = runner.userDisconnect
      /\ runner'.proxyTaken => runner.proxyTaken
  BY DEF Watches, SameCore, Release, RunnerType
<1> QED BY <1>1 DEF RestInv, WantedIsUp, Climbing, Climbs, Serving, Dials, Down, WindsDown,
     IsConnect

LEMMA RestInvInductive ==
  ASSUME Patience, RestState, [Next]_vars
  PROVE  RestState'
<1>1. CalmState'
  BY CalmInvInductive DEF RestState, Patience
<1>2. ASSUME NEW t \in Tasks, CalmTaskStep(t) PROVE RestInv'
  BY <1>2, TaskKeepsWanted, TaskKeepsClimbing, TaskKeepsServing, TaskKeepsDown,
     TaskKeepsWindingDown DEF RestInv
<1> QED BY <1>1, <1>2, CalmSteps, CalmUserSteps, UserKeepsRest, WatchKeepsRest, RestFacts
        DEF RestState

LEMMA InitRest == ASSUME Patience, Init PROVE RestState
<1>1. CalmState
  BY InitCalm DEF Patience
<1>2. RestInv
  BY DEF Init, RestInv, WantedIsUp, Climbing, Serving, Down, WindsDown
<1> QED BY <1>1, <1>2 DEF RestState

LEMMA RestInvariant == ASSUME Patience PROVE Spec => []RestState
<1>1. Init => RestState
  BY InitRest
<1>2. RestState /\ [Next]_vars => RestState'
  BY RestInvInductive
<1> QED BY <1>1, <1>2, PTL DEF Spec

\* Every step of the lifecycle is a step of the ring, or leaves it alone.
LEMMA RingSteps ==
  ASSUME Patience, RestState, [Next]_vars
  PROVE  [Ring!Next]_<<app.want, app.status>>
<1> /\ TypeOK /\ RoundInv /\ CalmInv /\ TypeOK'
  BY RestFacts, RestInvInductive DEF RestState, CalmState, TypeInv
<1> USE DEF Ring!Next, Ring!Decide, Ring!Dial, Ring!KernelUp, Ring!TunnelUp, Ring!Disconnect
<1>1. CASE UserStep
  <2>1. app'.status = app.status /\ app'.want \in BOOLEAN
    BY <1>1, CalmUserSteps DEF CalmUserStep, HangsUp, DialsAnew, Stores, SameRound, TypeOK, AppType
  <2> QED BY <2>1
<1>2. ASSUME NEW t \in Tasks, CalmTaskStep(t)
      PROVE  [Ring!Next]_<<app.want, app.status>>
  <2>1. app'.want = app.want
    BY <1>2, WishSteps DEF RestState
  <2>2. IsConnect(t) /\ ~Aborted(t) => app.want
    BY AbortedUnwanted, NotAborted DEF RestState
  <2>3. app'.status \in {app.status, "disconnected"} \/ Enters(t) \/ TakesOver(t) \/ Announces(t)
    BY <1>2, ReturnLeaves DEF CalmTaskStep, GivesUp, Resumed, Leaves, Builds, Registers, Clears,
       TakesDown, Exits, Steady, Finishes, Shows, TypeOK, AppType
  <2>4. CASE Enters(t)
    BY <2>1, <2>4, NotAborted DEF RestState, Enters, Shows
  <2>5. CASE TakesOver(t)
    BY <2>1, <2>2, <2>5, RestFacts DEF TakesOver, Shows, Climbing, Climbs, StartPcs
  <2>6. CASE Announces(t)
    BY <2>1, <2>2, <2>6, RestFacts DEF Announces, Shows, Climbing, Climbs
  <2> QED BY <2>1, <2>3, <2>4, <2>5, <2>6
<1>3. CASE Watches
  BY <1>3 DEF Watches
<1> QED BY <1>1, <1>2, <1>3, CalmSteps

\* The lifecycle implements the ring of TunnelStatus: the status climbs one step at a time,
\* and only for a user who wants a connection, whatever fails on the way and however a
\* cancelled round is replaced by the next one.  (VpnStatus; SingBoxRunner._setStatus as
\* _startTunnel, runTunnelReadyGate and _stopCore call it.)
THEOREM RingImplemented == ASSUME Patience PROVE Spec => RingSpec
<1>1. Init => Ring!Init
  BY DEF Init, Ring!Init
<1>2. RestState /\ [Next]_vars => [Ring!Next]_<<app.want, app.status>>
  BY RingSteps
<1> QED BY <1>1, <1>2, RestInvariant, PTL DEF Spec, RingSpec, Ring!Spec

-----------------------------------------------------------------------------
(***************************************************************************)
(* What a reconcile knows: a port is probed only after its kernel was      *)
(* spawned, so a kernel that is found dead stays dead.                     *)
(***************************************************************************)
PortPcs == {"bind", "verify", "spawn"} \cup UpPcs

\* A run has no kernel before it spawns one, and its port is the runner's by then.
RunsFresh ==
  /\ \A k \in Runs : kernel[k].st # "none" => k <= runner.attemptSeq
  /\ \A t \in Tasks : IsConnect(t) =>
       /\ task[t].pc \in BuildPcs \ {"start"} => kernel[task[t].seq].st = "none"
       /\ task[t].pc \in PortPcs => runner.port = task[t].seq
       /\ task[t].pc \in UpPcs => kernel[task[t].seq].st # "none"
  /\ runner.proxyTaken /\ runner.port # 0 => kernel[runner.port].st # "none"

\* The kernel behind the port of the reconcile in flight was spawned, and is not alive
\* once the probe has failed.
ProbeKnows ==
  /\ proxy.reconcile \in {"idle", "backup"} => proxy.port = 0
  /\ proxy.reconcile \in {"probe", "clear"} /\ proxy.port # 0 => kernel[proxy.port].st # "none"
  /\ proxy.reconcile = "clear" /\ proxy.port # 0 => kernel[proxy.port].st # "live"

\* No kernel is born, none comes back to life.
NoBirth == \A k \in Runs : /\ kernel'[k].st = "none" <=> kernel[k].st = "none"
                           /\ kernel'[k].st = "live" => kernel[k].st = "live"

\* A task's step gives birth to the kernel of its run.
Birth(t) ==
  /\ IsConnect(t) /\ task[t].pc = "spawn" /\ task'[t].pc \notin BuildPcs
  /\ \A k \in Runs : /\ k # task[t].seq => kernel'[k] = kernel[k]
                     /\ k = task[t].seq => kernel'[k].st # "none"

\* What a task's step does to the ports and to the kernels' births.
PortStep(t) ==
  /\ runner'.port = runner.port
       \/ (IsConnect(t) /\ task[t].pc = "ports" /\ runner'.port = task[t].seq)
  /\ task'[t].pc \in PortPcs => task[t].pc \in PortPcs \/ runner'.port = task[t].seq
  /\ NoBirth \/ Birth(t)
  /\ proxy'.reconcile = proxy.reconcile /\ proxy'.port = proxy.port

LEMMA KillStaleBirth ==
  ASSUME TypeOK, kernel' = KillStale \/ kernel' = kernel
  PROVE  NoBirth
<1>1. \A k \in Runs : KillStale[k].st = IF k = runner.pidFile /\ kernel[k].st = "live"
                                        THEN "exited" ELSE kernel[k].st
  BY DEF KillStale, TypeOK, KernelType
<1> QED BY <1>1 DEF NoBirth

LEMMA OffPorts ==
  ASSUME NEW t \in Tasks
  PROVE  /\ Ends(t) \/ Halts(t) \/ Frees(t) => task'[t].pc \notin PortPcs
         /\ \A pc : Moves(t, pc) => task'[t].pc = pc
  BY DEF Ends, Halts, Frees, Moves, PortPcs, UpPcs

LEMMA TaskPorts ==
  ASSUME TypeOK, CalmInv, NEW t \in Tasks, TaskStep(t)
  PROVE  PortStep(t)
<1> OnlyUserCalls /\ runner \in RunnerType /\ proxy \in ProxyType
  BY DEF CalmInv, TypeOK
<1> DEFINE pc == task[t].pc
<1> USE OffPorts DEF Resumes, At
<1>0. ASSUME kernel' = kernel PROVE NoBirth
  BY <1>0, KillStaleBirth
<1>1. ASSUME runner'.port = runner.port, kernel' = kernel \/ kernel' = KillStale,
             proxy' = proxy \/ (\E ok \in BOOLEAN, written \in {0} \cup Runs :
                                  proxy' = Taken(ok, written))
                            \/ (\E ok \in BOOLEAN :
                                  proxy' = [ClearedProxy(ok) EXCEPT !.watchdog = FALSE]),
             task'[t].pc \in PortPcs => pc \in PortPcs
      PROVE  PortStep(t)
  <2>1. NoBirth
    BY <1>1, KillStaleBirth
  <2>2. ASSUME NEW ok \in BOOLEAN, NEW written \in {0} \cup Runs, proxy' = Taken(ok, written)
        PROVE  proxy'.reconcile = proxy.reconcile /\ proxy'.port = proxy.port
    BY <2>2 DEF Taken, ProxyType
  <2>3. ASSUME NEW ok \in BOOLEAN, proxy' = [ClearedProxy(ok) EXCEPT !.watchdog = FALSE]
        PROVE  proxy'.reconcile = proxy.reconcile /\ proxy'.port = proxy.port
    BY <2>3 DEF ClearedProxy, ProxyType
  <2>4. proxy'.reconcile = proxy.reconcile /\ proxy'.port = proxy.port
    BY <1>1, <2>2, <2>3
  <2> QED BY <1>1, <2>1, <2>4 DEF PortStep
<1>2. \A r \in RunnerType : /\ StopBegins(r).port = r.port /\ Release(r).port = r.port
                            /\ Release(r) \in RunnerType
  BY DEF StopBegins, Release, RunnerType
<1>3. ASSUME NEW r \in RunnerType, AbortCleanup(t, r), r.port = runner.port,
             pc \in StartPcs \ {"start"}
      PROVE  runner'.port = runner.port /\ task'[t].pc \notin PortPcs
  <2>1. CASE StopFrom(t, r, FALSE)
    BY <1>2, <1>3, <2>1, StopFromHalts
  <2>2. CASE Goto(t, "release") /\ runner' = Release(r)
    BY <1>2, <1>3, <2>2, GotoMoves DEF PortPcs, UpPcs
  <2>3. CASE Return(t) /\ runner' = r
    BY <1>3, <2>3, ReturnEnds
  <2> QED BY <1>3, <2>1, <2>2, <2>3 DEF AbortCleanup
<1>4. ASSUME NEW r \in RunnerType, NEW b, StopFrom(t, r, b), r.port = runner.port
      PROVE  runner'.port = runner.port /\ task'[t].pc \notin PortPcs
  BY <1>2, <1>4, StopFromHalts
<1>5. CASE AwaitPrevious(t)
  <2>1. runner'.port = runner.port
    BY <1>5 DEF AwaitPrevious, CoreConnect, StopBegins, RunnerType
  <2>2. task'[t].pc \in {"free", "stop_idle", "stop_host"}
    BY <1>5, GotoMoves DEF AwaitPrevious, Free, StopPc, TypeOK
  <2> QED BY <1>1, <1>5, <2>1, <2>2 DEF AwaitPrevious, PortPcs, UpPcs
<1>6. CASE ConnectReturned(t)
  <2>1. task'[t].pc = "free"
    BY <1>6 DEF ConnectReturned, Free, TypeOK
  <2> QED BY <1>1, <1>6, <2>1 DEF ConnectReturned, PortPcs, UpPcs
<1>7. CASE StartTunnel(t)
  <2>1. EnterTunnel(t, task[t], runner) /\ proxy' = proxy
    BY <1>7 DEF StartTunnel
  <2>2. runner'.port = runner.port /\ (kernel' = kernel \/ kernel' = KillStale)
    BY <2>1 DEF EnterTunnel, RunnerType
  <2>3. task' = [task EXCEPT ![t] = Returned(task[t])] => task'[t].pc \notin PortPcs
    BY ReturnEnds DEF Return
  <2>4. ASSUME task' = [task EXCEPT ![t] = [task[t] EXCEPT !.seq = runner.attemptSeq + 1,
                          !.pc = IF runner.indexLoaded THEN "ports" ELSE "index"]]
        PROVE  task'[t].pc \notin PortPcs
    <3>1. task'[t].pc \in {"ports", "index"}
      BY <2>4 DEF TypeOK, TaskRec
    <3> QED BY <3>1 DEF PortPcs, UpPcs
  <2> QED BY <1>1, <2>1, <2>2, <2>3, <2>4 DEF EnterTunnel
<1>8. CASE IndexLoaded(t)
  <2>1. task'[t].pc \notin PortPcs
    BY <1>8, GotoMoves, ReturnEnds DEF IndexLoaded, PortPcs, UpPcs
  <2> QED BY <1>1, <1>8, <2>1 DEF IndexLoaded, RunnerType
<1>9. CASE PortsAllocated(t)
  <2>1. pc = "ports" /\ IsConnect(t) /\ kernel' = kernel /\ proxy' = proxy
    BY <1>9, CallOfPc DEF PortsAllocated, StartPcs
  <2>2. \/ runner'.port = runner.port /\ task'[t].pc \notin PortPcs
        \/ runner'.port = task[t].seq
    BY <1>4, <1>9, ReturnEnds DEF PortsAllocated, RunnerType
  <2> QED BY <1>0, <2>1, <2>2 DEF PortStep
<1>10. CASE HostBound(t) \/ HostStarted(t)
  <2>1. runner'.port = runner.port /\ pc \in PortPcs /\ kernel' = kernel /\ proxy' = proxy
    BY <1>10 DEF HostBound, HostStarted, RunnerType, PortPcs
  <2> QED BY <1>1, <2>1
<1>11. CASE Spawned(t)
  <2>1. pc = "spawn" /\ IsConnect(t) /\ proxy' = proxy /\ runner'.port = runner.port
    BY <1>11, CallOfPc DEF Spawned, StartPcs, RunnerType
  <2>2. task'[t].pc \notin BuildPcs
    <3>1. Ends(t) \/ Moves(t, "api")
      BY <1>11, ReturnEnds, GotoMoves DEF Spawned
    <3> QED BY <3>1, <2>1 DEF Ends, Moves, BuildPcs
  <2>3. Birth(t)
    BY <1>11, <2>1, <2>2 DEF Spawned, Birth, TypeOK, KernelType
  <2> QED BY <2>1, <2>3 DEF PortStep, PortPcs
<1>12. CASE SpawnThrows(t)
  <2>1. pc = "spawn" /\ kernel' = kernel /\ proxy' = proxy
    BY <1>12 DEF SpawnThrows
  <2>2. runner'.port = runner.port /\ task'[t].pc \notin PortPcs
    BY <1>3, <1>4, <1>12, <2>1 DEF SpawnThrows, StartPcs
  <2> QED BY <1>1, <2>1, <2>2
<1>13. CASE ApiAnswered(t)
  <2>1. pc = "api" /\ kernel' = kernel /\ proxy' = proxy
    BY <1>13 DEF ApiAnswered
  <2>2. runner'.port = runner.port
    BY <1>3, <1>4, <1>13, <2>1 DEF ApiAnswered, StartPcs
  <2> QED BY <1>1, <2>1, <2>2 DEF PortPcs, UpPcs
<1>14. CASE ProxySet(t)
  <2> DEFINE r(ok) == IF ok THEN [runner EXCEPT !.proxyTaken = TRUE, !.proxyOwner = task[t].seq]
                      ELSE [runner EXCEPT !.proxyTaken = FALSE]
  <2>1. pc = "set_proxy" /\ IsConnect(t) /\ kernel' = kernel
    BY <1>14, CallOfPc DEF ProxySet, StartPcs
  <2>2. PICK ok \in BOOLEAN :
          /\ \E written \in IF ok THEN {task[t].seq} ELSE {task[t].seq, proxy.installed} :
               proxy' = Taken(ok, written)
          /\ IF Aborted(t) THEN AbortCleanup(t, r(ok)) /\ UNCHANGED app
             ELSE Goto(t, "gate") /\ runner' = r(ok) /\ SetStatus("warmingUp")
    BY <1>14 DEF ProxySet
  <2>3. r(ok) \in RunnerType /\ r(ok).port = runner.port
    BY DEF TypeOK, TaskRec, RunnerType
  <2> HIDE DEF r
  <2>4. runner'.port = runner.port
    BY <1>3, <2>1, <2>2, <2>3 DEF StartPcs
  <2>5. \E written \in {0} \cup Runs : proxy' = Taken(ok, written)
    BY <2>2 DEF TypeOK, TaskRec, ProxyType
  <2> QED BY <1>1, <2>1, <2>4, <2>5 DEF PortPcs, UpPcs
<1>15. CASE GatePassed(t)
  <2>1. pc = "gate" /\ kernel' = kernel /\ proxy' = proxy
    BY <1>15 DEF GatePassed
  <2>2. runner'.port = runner.port
    BY <1>3, <1>15, <2>1 DEF GatePassed, StartPcs, RunnerType
  <2> QED BY <1>1, <2>1, <2>2 DEF PortPcs, UpPcs
<1>16. CASE ProxyReleased(t) \/ ExitCleared(t)
  BY <1>16, CallOfPc DEF ProxyReleased, ExitCleared
<1>17. ASSUME NEW r \in RunnerType, TakeDown(t, r), r.port = runner.port,
              r.process = runner.process
       PROVE  runner'.port = runner.port /\ NoBirth /\ task'[t].pc \notin PortPcs
  <2>1. runner'.port = runner.port
    BY <1>17 DEF TakeDown, RunnerType
  <2>2. NoBirth
    <3>1. CASE r.process = 0
      BY <1>0, <1>17, <3>1 DEF TakeDown
    <3>2. CASE r.process # 0
      <4>1. r.process \in Runs /\ kernel[r.process].st = "live"
        BY <1>17, <3>2 DEF RunnerType, CalmInv, KernelKnown
      <4>2. \A k \in Runs : kernel'[k].st = IF k = r.process THEN "dead" ELSE kernel[k].st
        BY <1>17, <3>2 DEF TakeDown, TypeOK, KernelType
      <4> QED BY <4>1, <4>2 DEF NoBirth
    <3> QED BY <3>1, <3>2
  <2>3. task'[t].pc \notin PortPcs
    BY <1>17, GotoMoves, ReturnEnds DEF TakeDown, Stopped, PortPcs, UpPcs
  <2> QED BY <2>1, <2>2, <2>3
<1>18. CASE HostStopped(t)
  <2>1. CASE runner.proxyTaken
    BY <1>1, <1>18, <2>1, GotoMoves DEF HostStopped, PortPcs, UpPcs
  <2>2. CASE ~runner.proxyTaken
    BY <1>17, <1>18, <2>2 DEF HostStopped, PortStep
  <2> QED BY <2>1, <2>2
<1>19. CASE ProxyCleared(t)
  <2>1. TakeDown(t, Release(runner))
    BY <1>19 DEF ProxyCleared
  <2>2. runner'.port = runner.port /\ NoBirth /\ task'[t].pc \notin PortPcs
    <3>1. Release(runner).process = runner.process
      BY DEF Release, RunnerType
    <3> QED BY <1>2, <1>17, <2>1, <3>1
  <2>3. proxy'.reconcile = proxy.reconcile /\ proxy'.port = proxy.port
    BY <1>19 DEF ProxyCleared, ClearedProxy, ProxyType
  <2> QED BY <2>2, <2>3 DEF PortStep
<1>20. CASE KernelGone(t)
  <2>1. task'[t].pc \notin PortPcs
    BY <1>20, GotoMoves, ReturnEnds DEF KernelGone, Stopped, PortPcs, UpPcs
  <2> QED BY <1>1, <1>20, <2>1 DEF KernelGone, RunnerType
<1> QED BY <1>5, <1>6, <1>7, <1>8, <1>9, <1>10, <1>11, <1>12, <1>13, <1>14, <1>15, <1>16, <1>18,
           <1>19, <1>20 DEF TaskStep

\* A run that goes on keeps its number; one that enters takes the next.
LEMMA RunGoesOn ==
  ASSUME CalmState, NEW t \in Tasks, CalmTaskStep(t), IsConnect(t)',
         task'[t].pc \in StartPcs \ {"start"}
  PROVE  /\ IsConnect(t) /\ ~Waiting(t)
         /\ \/ task'[t].seq = task[t].seq /\ task[t].pc \in StartPcs \ {"start"}
               /\ (task'[t].pc \in BuildPcs => task[t].pc \in BuildPcs)
            \/ Enters(t) /\ task'[t].pc \in {"index", "ports"}
  BY ReturnLeaves DEF CalmState, TypeInv, CalmTaskStep, GivesUp, Resumed, Leaves, Builds, Enters,
     Registers, TakesOver, Announces, Clears, TakesDown, Exits, Finishes, Frees, Ends, Halts,
     Moves, IsConnect, Waiting, StartPcs, StopPcs, HaltPcs, BuildPcs

\* A run comes up by the birth of its kernel.
LEMMA UpByBirth ==
  ASSUME CalmState, NEW t \in Tasks, CalmTaskStep(t), IsConnect(t)', task'[t].pc \in UpPcs,
         ~Birth(t)
  PROVE  task[t].pc \in UpPcs
<1> TypeOK /\ RoundInv
  BY DEF CalmState, TypeInv
<1>1. ~Registers(t)
  BY DEF Registers, Birth, Moves, BuildPcs, TypeOK, KernelType
<1> QED BY <1>1, ReturnLeaves DEF CalmTaskStep, GivesUp, Resumed, Leaves, Builds, Enters, TakesOver,
     Announces, Clears, TakesDown, Exits, Finishes, Frees, Ends, Halts, Moves, StartPcs, UpPcs

LEMMA TaskKeepsPorts ==
  ASSUME CalmState, CalmState', RunsFresh, ProbeKnows, NEW t \in Tasks, TaskStep(t)
  PROVE  RunsFresh' /\ ProbeKnows'
<1> /\ TypeOK /\ CalmInv /\ RoundInv /\ SeqCurrent /\ BuildsAlone /\ runner \in RunnerType
    /\ TypeOK' /\ SeqCurrent' /\ runner' \in RunnerType
  BY DEF CalmState, TypeInv, TypeOK, CalmInv
<1>1. CalmTaskStep(t) /\ PortStep(t) /\ Others(t)
  BY CalmTaskSteps, TaskPorts, WishSteps
<1>2. \A u \in Tasks : u # t /\ IsConnect(u)' => IsConnect(u) /\ task'[u] = task[u]
  BY <1>1 DEF Others, IsConnect
<1>3. \A u \in Tasks : u # t /\ IsConnect(u) /\ task[u].pc \in StartPcs
        => ~(IsConnect(t) /\ ~Waiting(t))
  BY OneRuns
<1>4. Birth(t) => /\ IsConnect(t) /\ ~Waiting(t) /\ task[t].pc \in BuildPcs \ {"start"}
                  /\ task[t].seq \in Runs /\ task[t].seq = runner.attemptSeq
                  /\ kernel[task[t].seq].st = "none" /\ ~runner.proxyTaken
  BY DEF Birth, Waiting, SeqCurrent, StartPcs, BuildPcs, RunsFresh, BuildsAlone, TypeOK, TaskRec
<1>5. \A k \in Runs : kernel[k].st # "none" => kernel'[k].st # "none"
  BY <1>1 DEF PortStep, NoBirth, Birth
<1>6. runner'.attemptSeq \in Nat /\ runner.attemptSeq \in Nat
      /\ runner.attemptSeq <= runner'.attemptSeq
  <2>1. runner'.attemptSeq \in Nat /\ runner.attemptSeq \in Nat
    BY DEF RunnerType, Runs
  <2>2. runner'.attemptSeq \in {runner.attemptSeq, runner.attemptSeq + 1}
    BY <1>1, ReturnLeaves DEF CalmTaskStep, GivesUp, Resumed, Leaves, Builds, Enters,
       Registers, TakesOver, Announces, Clears, TakesDown, Exits, Steady, SameCore, Release,
       RunnerType
  <2> QED BY <2>1, <2>2
<1>7. \A k \in Runs : kernel'[k].st # "none" => k <= runner'.attemptSeq
  <2>1. \A k \in Runs : kernel'[k].st # "none" => kernel[k].st # "none" \/ k = runner.attemptSeq
    BY <1>1, <1>4 DEF PortStep, NoBirth, Birth
  <2> QED BY <1>6, <2>1 DEF RunsFresh, Runs
<1>8. ASSUME NEW u \in Tasks, IsConnect(u)'
      PROVE  /\ task'[u].pc \in BuildPcs \ {"start"} => kernel'[task'[u].seq].st = "none"
             /\ task'[u].pc \in PortPcs => runner'.port = task'[u].seq
             /\ task'[u].pc \in UpPcs => kernel'[task'[u].seq].st # "none"
  <2> SUFFICES ASSUME task'[u].pc \in StartPcs \ {"start"}
               PROVE  /\ task'[u].pc \in BuildPcs => kernel'[task'[u].seq].st = "none"
                      /\ task'[u].pc \in PortPcs => runner'.port = task'[u].seq
                      /\ task'[u].pc \in UpPcs => kernel'[task'[u].seq].st # "none"
    BY DEF BuildPcs, PortPcs, UpPcs, StartPcs
  <2>0. task'[u].seq \in Runs
    BY <1>8 DEF SeqCurrent, TypeOK, TaskRec
  <2>1. CASE u # t
    <3>1. IsConnect(u) /\ task'[u] = task[u] /\ ~(IsConnect(t) /\ ~Waiting(t))
      BY <1>2, <1>3, <1>8, <2>1
    <3>2. NoBirth /\ runner'.port = runner.port
      BY <1>1, <1>4, <3>1 DEF PortStep, Waiting
    <3> QED BY <2>0, <3>1, <3>2 DEF RunsFresh, NoBirth, BuildPcs, PortPcs, UpPcs
  <2>2. CASE u = t
    <3>1. CASE Enters(t) /\ task'[t].pc \in {"index", "ports"}
      <4>1. task'[t].seq = runner.attemptSeq + 1
        BY <1>8, <2>2, <3>1 DEF Enters, Ends
      <4>2. kernel[task'[t].seq].st = "none"
        BY <1>6, <2>0, <2>2, <4>1 DEF RunsFresh
      <4>3. NoBirth
        BY <1>1, <3>1 DEF PortStep, Birth, Enters
      <4> QED BY <2>0, <2>2, <3>1, <4>2, <4>3 DEF NoBirth, PortPcs, UpPcs
    <3>2. CASE /\ task'[t].seq = task[t].seq /\ task[t].pc \in StartPcs \ {"start"}
               /\ task'[t].pc \in BuildPcs => task[t].pc \in BuildPcs
      <4>0. IsConnect(t)
        BY <1>1, <1>8, <2>2, RunGoesOn
      <4>1. task'[t].pc \in BuildPcs => kernel'[task'[t].seq].st = "none"
        BY <1>1, <2>0, <2>2, <3>2, <4>0 DEF RunsFresh, PortStep, NoBirth, Birth, StartPcs
      <4>2. task'[t].pc \in PortPcs => runner'.port = task'[t].seq
        BY <1>1, <3>2, <4>0 DEF RunsFresh, PortStep
      <4>3. task'[t].pc \in UpPcs => kernel'[task'[t].seq].st # "none"
        <5>1. CASE Birth(t)
          BY <2>0, <2>2, <3>2, <5>1 DEF Birth
        <5>2. CASE ~Birth(t)
          <6>1. task'[t].pc \in UpPcs => task[t].pc \in UpPcs
            BY <1>1, <1>8, <2>2, <5>2, UpByBirth
          <6> QED BY <1>5, <2>0, <2>2, <3>2, <4>0, <6>1 DEF RunsFresh
        <5> QED BY <5>1, <5>2
      <4> QED BY <2>2, <4>1, <4>2, <4>3
    <3> QED BY <1>1, <1>8, <2>2, <3>1, <3>2, RunGoesOn
  <2> QED BY <2>1, <2>2
<1>9. runner'.proxyTaken /\ runner'.port # 0 => kernel'[runner'.port].st # "none"
  <2> SUFFICES ASSUME runner'.proxyTaken, runner'.port # 0
               PROVE  kernel'[runner'.port].st # "none"
    OBVIOUS
  <2>1. runner.proxyTaken \/ (IsConnect(t) /\ task[t].pc = "set_proxy")
    BY <1>1, ReturnLeaves DEF CalmTaskStep, GivesUp, Resumed, Leaves, Builds, Enters,
       Registers, TakesOver, Announces, Clears, TakesDown, Exits, Steady, SameCore, Release,
       RunnerType
  <2>2. runner'.port = runner.port
    BY <1>1, <2>1 DEF PortStep, BuildsAlone, BuildPcs
  <2>3. kernel[runner.port].st # "none"
    BY <2>1, <2>2 DEF RunsFresh, PortPcs, UpPcs
  <2>4. runner.port \in Runs
    BY <2>2 DEF RunnerType
  <2> QED BY <1>5, <2>2, <2>3, <2>4
<1>10. ProbeKnows'
  <2>1. proxy'.reconcile = proxy.reconcile /\ proxy'.port = proxy.port
    BY <1>1 DEF PortStep
  <2>2. proxy.port \in {0} \cup Runs
    BY DEF TypeOK, ProxyType
  <2>3. proxy.port # 0 /\ kernel[proxy.port].st # "none" /\ kernel[proxy.port].st # "live"
          => kernel'[proxy.port].st # "live"
    BY <1>1, <1>4, <2>2 DEF PortStep, NoBirth, Birth
  <2> QED BY <1>5, <2>1, <2>2, <2>3 DEF ProbeKnows
<1> QED BY <1>7, <1>8, <1>9, <1>10 DEF RunsFresh

LEMMA UserKeepsPorts ==
  ASSUME CalmState, RunsFresh, ProbeKnows, UserStep
  PROVE  RunsFresh' /\ ProbeKnows'
<1> TypeOK /\ runner \in RunnerType
  BY DEF CalmState, TypeInv, TypeOK
<1>1. PICK a \in AppType, c \in Commands : CommandCase(a, c)
  BY CommandCases
<1>2. runner'.port = runner.port
  <2>1. CASE HangUp(a)
    BY <2>1 DEF HangUp, HangUpIn, StopBegins, RunnerType
  <2>2. CASE Dial(a)
    BY <2>2 DEF Dial, DialIn, CoreConnect, StopBegins, RunnerType
  <2> QED BY <1>1, <2>1, <2>2 DEF CommandCase
<1>3. CalmUserStep
  BY CalmUserSteps
<1>4. /\ runner'.attemptSeq = runner.attemptSeq /\ runner'.proxyTaken = runner.proxyTaken
      /\ kernel' = kernel /\ proxy' = proxy
  BY <1>3 DEF CalmUserStep, HangsUp, DialsAnew, Stores, SameCore, RunnerType
<1>5. \A u \in Tasks : IsConnect(u)' => \/ IsConnect(u) /\ task'[u] = task[u]
                                        \/ task'[u].pc \notin StartPcs
  BY <1>3 DEF CalmUserStep, HangsUp, DialsAnew, Stores, Others, IsConnect, StartPcs
<1> QED BY <1>2, <1>4, <1>5
        DEF RunsFresh, ProbeKnows, StartPcs, BuildPcs, PortPcs, UpPcs, IsConnect

LEMMA WatchKeepsPorts ==
  ASSUME CalmState, RunsFresh, ProbeKnows, WatchdogStep
  PROVE  RunsFresh' /\ ProbeKnows'
<1> TypeOK /\ runner \in RunnerType /\ proxy \in ProxyType
  BY DEF CalmState, TypeInv, TypeOK
<1>1. /\ task' = task /\ kernel' = kernel /\ runner'.port = runner.port
      /\ runner'.attemptSeq = runner.attemptSeq /\ (runner'.proxyTaken => runner.proxyTaken)
  BY ReconcileSteps DEF Looks, WatchdogCleared, Release, RunnerType
<1>2. RunsFresh'
  BY <1>1 DEF RunsFresh, IsConnect
<1>3. \A p \in ProxyType, c \in {"backup", "clear"} :
        LET q == [p EXCEPT !.reconcile = c] IN q.reconcile = c /\ q.port = p.port
  BY DEF ProxyType
<1>4. Reconciled(proxy).reconcile = "idle" /\ Reconciled(proxy).port = 0
  BY DEF Reconciled, ProxyType
<1>5. CASE ReconcileStarts
  <2>1. CASE runner.proxyTaken
    <3>1. proxy'.reconcile = "probe" /\ proxy'.port = runner.port
      BY <1>5, <2>1 DEF ReconcileStarts, Watchdog, Probing, ProxyType
    <3> QED BY <1>2, <1>1, <2>1, <3>1 DEF RunsFresh, ProbeKnows
  <2>2. CASE ~runner.proxyTaken
    <3>1. proxy.reconcile = "idle" /\ proxy'.reconcile = "backup" /\ proxy'.port = proxy.port
      BY <1>3, <1>5, <2>2 DEF ReconcileStarts, Watchdog, Reconciles
    <3> QED BY <1>2, <3>1 DEF ProbeKnows
  <2> QED BY <2>1, <2>2
<1>6. CASE PortProbed
  <2>1. CASE PortAlive
    <3>1. proxy' = Reconciled(proxy)
      BY <1>6, <2>1 DEF PortProbed, Watchdog
    <3> QED BY <1>2, <1>4, <3>1 DEF ProbeKnows
  <2>2. CASE ~PortAlive
    <3>1. proxy.reconcile = "probe" /\ proxy'.reconcile = "clear" /\ proxy'.port = proxy.port
      BY <1>3, <1>6, <2>2 DEF PortProbed, Watchdog, Reconciles
    <3> QED BY <1>2, <1>1, <2>2, <3>1 DEF PortAlive, ProbeKnows
  <2> QED BY <2>1, <2>2
<1>7. CASE BackupProbed
  <2>1. CASE proxy.installed # 0
    <3>1. proxy.reconcile = "backup" /\ proxy'.reconcile = "clear" /\ proxy'.port = proxy.port
      BY <1>3, <1>7, <2>1 DEF BackupProbed, Watchdog, Reconciles
    <3> QED BY <1>2, <3>1 DEF ProbeKnows
  <2>2. CASE proxy.installed = 0
    <3>1. proxy' = Reconciled(proxy)
      BY <1>7, <2>2 DEF BackupProbed, Watchdog
    <3> QED BY <1>2, <1>4, <3>1 DEF ProbeKnows
  <2> QED BY <2>1, <2>2
<1>8. CASE WatchdogCleared
  <2>1. PICK ok \in BOOLEAN : proxy' = TakenBack(ok)
    BY <1>8 DEF WatchdogCleared
  <2>2. proxy'.reconcile = "idle" /\ proxy'.port = 0
    BY <2>1, TakenBackFields
  <2> QED BY <1>2, <2>2 DEF ProbeKnows
<1> QED BY <1>2, <1>5, <1>6, <1>7, <1>8 DEF WatchdogStep

-----------------------------------------------------------------------------
(***************************************************************************)
(* The system proxy, when no command on it fails.                          *)
(***************************************************************************)
NoProxyFaults == MaxProxyFaults = 0

OwnedState == RestState /\ ProxyOwned

LEMMA TaskKeepsOwned ==
  ASSUME NoProxyFaults, OwnedState, NEW t \in Tasks, CalmTaskStep(t)
  PROVE  ProxyOwned'
<1> /\ TypeOK /\ RoundInv /\ CalmInv /\ runner \in RunnerType /\ ProxyOwned
    /\ BuildsAlone /\ SeqCurrent /\ ~(budget.proxyFaults > 0)
  BY RestFacts DEF OwnedState, NoProxyFaults, TypeOK, BudgetType
<1>0. app'.want = app.want
  BY WishSteps DEF OwnedState, RestState
<1> USE DEF SameCore
<1>1. ASSUME runner'.proxyTaken = runner.proxyTaken, runner'.proxyOwner = runner.proxyOwner,
             proxy' = proxy, ~runner.proxyTaken \/ runner'.process = runner.process
      PROVE  ProxyOwned'
  BY <1>0, <1>1 DEF ProxyOwned
<1>2. CASE GivesUp(t) \/ Builds(t) \/ Clears(t)
  BY <1>1, <1>2 DEF GivesUp, Builds, Clears, Steady
<1>3. CASE Resumed(t)
  BY <1>1, <1>3 DEF Resumed, RunnerType
<1>4. CASE ConnectReturned(t)
  BY <1>1, <1>4, ReturnLeaves DEF Leaves
<1>5. CASE Enters(t)
  BY <1>1, <1>5 DEF Enters, RunnerType
<1>6. CASE Registers(t)
  BY <1>1, <1>6 DEF Registers, BuildsAlone, BuildPcs, RunnerType
<1>7. CASE TakesOver(t)
  <2>1. /\ runner'.proxyTaken /\ runner'.proxyOwner = task[t].seq
        /\ runner'.process = runner.process /\ proxy'.installed = task[t].seq
    BY <1>7 DEF TakesOver, RunnerType
  <2>2. task[t].seq # 0
    BY <1>7 DEF TakesOver, SeqCurrent, StartPcs
  <2>3. app.want => runner.process = task[t].seq
    BY <1>7, RestFacts DEF OwnedState, TakesOver, Climbing, Climbs, UpPcs
  <2> QED BY <1>0, <2>1, <2>2, <2>3 DEF ProxyOwned
<1>8. CASE Announces(t) \/ Exits(t)
  BY <1>1, <1>8 DEF Announces, Exits
<1>9. CASE TakesDown(t)
  <2>1. CASE task[t].pc = "stop_clear"
    <3>1. proxy'.installed = 0 /\ ~runner'.proxyTaken
      BY <1>9, <2>1 DEF TakesDown, Release, RunnerType
    <3> QED BY <3>1 DEF ProxyOwned
  <2>2. CASE task[t].pc # "stop_clear"
    BY <1>1, <1>9, <2>2 DEF TakesDown, RunnerType
  <2> QED BY <2>1, <2>2
<1> QED BY <1>2, <1>3, <1>4, <1>5, <1>6, <1>7, <1>8, <1>9 DEF CalmTaskStep

LEMMA UserKeepsOwned ==
  ASSUME Patience, OwnedState, CalmUserStep
  PROVE  ProxyOwned'
<1> /\ RoundInv /\ CalmInv /\ runner \in RunnerType /\ ProxyOwned /\ WindsDown /\ PatientUser
  BY RestFacts DEF OwnedState, Patience
<1>1. /\ runner'.proxyTaken = runner.proxyTaken /\ runner'.proxyOwner = runner.proxyOwner
      /\ runner'.process = runner.process /\ proxy' = proxy
  BY DEF CalmUserStep, HangsUp, DialsAnew, Stores, SameCore, RunnerType
<1>2. app'.want /\ ~app.want => ~runner.proxyTaken
  <2>1. SUFFICES ASSUME app'.want, ~app.want PROVE ~runner.proxyTaken
    OBVIOUS
  <2>2. PICK t \in Tasks : DialsAnew(t)
    BY <2>1 DEF CalmUserStep, HangsUp, Stores, SameRound
  <2>3. \A u \in Tasks : At(u, "free")
    BY <2>1, <2>2 DEF DialsAnew, Patiently, RoundInv, IntentHonoured
  <2> QED BY <2>1, <2>3 DEF WindsDown, At, HaltPcs, UpPcs
<1> QED BY <1>1, <1>2 DEF ProxyOwned

LEMMA WatchKeepsOwned ==
  ASSUME OwnedState, Watches
  PROVE  ProxyOwned'
<1> ProxyOwned /\ runner \in RunnerType /\ app' = app
  BY RestFacts DEF OwnedState, Watches
<1>1. CASE SameCore(runner, runner') /\ proxy'.installed = proxy.installed
  BY <1>1 DEF ProxyOwned, SameCore
<1>2. CASE SameCore(Release(runner), runner') /\ proxy'.installed = 0
  <2>1. ~runner'.proxyTaken
    BY <1>2 DEF SameCore, Release, RunnerType
  <2> QED BY <1>2, <2>1 DEF ProxyOwned
<1> QED BY <1>1, <1>2 DEF Watches

LEMMA OwnedInvariant == ASSUME Patience, NoProxyFaults PROVE Spec => []OwnedState
<1>1. Init => OwnedState
  <2>1. Init => ProxyOwned
    BY DEF Init, ProxyOwned
  <2> QED BY <2>1, InitRest DEF OwnedState
<1>2. ASSUME OwnedState, [Next]_vars PROVE OwnedState'
  <2>1. RestState'
    BY <1>2, RestInvInductive DEF OwnedState
  <2>2. ProxyOwned'
    BY <1>2, RestFacts, CalmSteps, CalmUserSteps, TaskKeepsOwned, UserKeepsOwned, WatchKeepsOwned
       DEF OwnedState
  <2> QED BY <2>1, <2>2 DEF OwnedState
<1> QED BY <1>1, <1>2, PTL DEF Spec

\* While the user wants a connection: a round that announces the tunnel has taken the system
\* proxy over, and "connected" keeps it, unless an out-of-date reconcile took it back or the
\* next dial is on its way.
Holds == runner.proxyTaken \/ proxy.lost

Wired ==
  app.want => /\ \A t \in Tasks : IsConnect(t) /\ task[t].pc = "gate" => Holds
              /\ app.status = "connected" => Holds \/ \E t \in Tasks : Dials(t)

WiredState == RestState /\ RunsFresh /\ ProbeKnows /\ Wired

\* The steps of a task that lose the setting: the clear of _stopCore.
LEMMA HoldsLast ==
  ASSUME NoProxyFaults, RestState, NEW t \in Tasks, CalmTaskStep(t), Holds
  PROVE  Holds' \/ (TakesDown(t) /\ task[t].pc = "stop_clear")
<1> /\ TypeOK /\ RoundInv /\ runner \in RunnerType /\ ~(budget.proxyFaults > 0)
  BY RestFacts DEF NoProxyFaults, TypeOK, BudgetType
<1> USE DEF SameCore
<1>1. CASE TakesOver(t)
  BY <1>1 DEF TakesOver, Holds, RunnerType
<1>2. CASE ~TakesOver(t) /\ ~(TakesDown(t) /\ task[t].pc = "stop_clear")
  <2>1. runner'.proxyTaken = runner.proxyTaken /\ proxy' = proxy
    BY <1>2, ReturnLeaves DEF CalmTaskStep, GivesUp, Resumed, Leaves, Builds, Enters,
       Registers, Announces, Clears, TakesDown, Exits, Steady, RunnerType
  <2> QED BY <2>1 DEF Holds
<1> QED BY <1>1, <1>2

LEMMA TaskKeepsWired ==
  ASSUME NoProxyFaults, RestState, Wired, NEW t \in Tasks, CalmTaskStep(t)
  PROVE  Wired'
<1> SUFFICES ASSUME app.want
             PROVE  /\ \A u \in Tasks : IsConnect(u)' /\ task'[u].pc = "gate" => Holds'
                    /\ app'.status = "connected" => Holds' \/ \E u \in Tasks : Dials(u)'
  BY WishSteps DEF RestState, Wired
<1> /\ TypeOK /\ RoundInv /\ CalmInv /\ runner \in RunnerType
    /\ IsConnect(t) /\ Climbs(t) /\ Others(t)
  BY RestFacts, WantedSteps, WishSteps DEF Climbing, RestState
<1> ~(budget.proxyFaults > 0)
  BY DEF NoProxyFaults, TypeOK, BudgetType
<1>1. ASSUME NEW u \in Tasks, IsConnect(u)', task'[u].pc = "gate"
      PROVE  Holds'
  <2>1. CASE u # t
    <3>1. IsConnect(u) /\ task[u].pc = "gate"
      BY <1>1, <2>1 DEF Others, IsConnect
    <3>2. Waiting(t)
      BY <2>1, <3>1, OneRuns DEF RestState, StartPcs
    <3>3. Holds
      BY <3>1 DEF Wired
    <3> QED BY <3>2, <3>3, HoldsLast DEF Waiting
  <2>2. CASE u = t
    <3>1. TakesOver(t)
      BY <1>1, <2>2, ReturnLeaves DEF CalmTaskStep, GivesUp, Resumed, Leaves, Builds, Enters,
         Registers, Announces, Clears, TakesDown, Exits, Finishes, Frees, Ends, Halts, Moves,
         IsConnect, StartPcs
    <3> QED BY <3>1 DEF TakesOver, Holds, SameCore, RunnerType
  <2> QED BY <2>1, <2>2
<1>2. ASSUME app'.status = "connected"
      PROVE  Holds' \/ \E u \in Tasks : Dials(u)'
  <2>1. CASE app.status = "connected" /\ Holds
    <3>1. CASE TakesDown(t) /\ task[t].pc = "stop_clear"
      <4>1. task[t].pc \in StopPcs /\ task[t].then = "start"
        <5>1. task[t].then \in {"start", "return"}
          BY DEF TypeOK, TaskRec
        <5> QED BY <2>1, <3>1, <5>1 DEF Climbs, StopPcs
      <4> QED BY <1>2, <2>1, <4>1, DialFound, DialsLast
    <3> QED BY <2>1, <3>1, HoldsLast
  <2>2. CASE app.status = "connected" /\ ~Holds
    BY <1>2, <2>2, DialsLast DEF Wired
  <2>3. CASE app.status # "connected"
    <3>1. Announces(t)
      BY <1>2, <2>3, LiftedByGate
    <3> QED BY <3>1, HoldsLast DEF Announces, Wired, TakesDown, HaltPcs
  <2> QED BY <2>1, <2>2, <2>3
<1> QED BY <1>1, <1>2

LEMMA UserKeepsWired ==
  ASSUME Patience, RestState, Wired, CalmUserStep
  PROVE  Wired'
<1> /\ RoundInv /\ CalmInv /\ OnlyUserCalls /\ runner \in RunnerType /\ PatientUser
  BY RestFacts DEF Patience
<1>1. Holds' = Holds /\ app'.status = app.status
  BY DEF Holds, CalmUserStep, HangsUp, DialsAnew, Stores, SameRound, SameCore, RunnerType
<1>2. ASSUME NEW t \in Tasks, HangsUp(t) PROVE Wired'
  BY <1>2 DEF HangsUp, Wired
<1>3. ASSUME NEW t \in Tasks, DialsAnew(t) PROVE Wired'
  <2>1. Others(t) /\ Dials(t)' /\ task'[t].pc # "gate"
    BY <1>3 DEF DialsAnew, Dials, IsConnect, StopPcs
  <2>2. ~app.want => \A u \in Tasks : At(u, "free")
    BY <1>3 DEF DialsAnew, Patiently, RoundInv, IntentHonoured
  <2>3. ASSUME NEW u \in Tasks, IsConnect(u)', task'[u].pc = "gate" PROVE Holds'
    <3>1. IsConnect(u) /\ task[u].pc = "gate"
      BY <2>1, <2>3 DEF Others, IsConnect
    <3> QED BY <1>1, <2>2, <3>1 DEF At, Wired
  <2> QED BY <2>1, <2>3 DEF Wired
<1>4. CASE Stores
  BY <1>1, <1>4 DEF Stores, SameRound, Wired, Dials, IsConnect
<1> QED BY <1>2, <1>3, <1>4 DEF CalmUserStep

\* A reconcile that clears did not look at the kernel that runs: that one is alive.
LEMMA WatchKeepsWired ==
  ASSUME RestState, ProbeKnows, Wired, Watches
  PROVE  Wired'
<1> /\ TypeOK /\ CalmInv /\ KernelKnown /\ Climbing /\ Serving /\ SeqCurrent
    /\ runner \in RunnerType /\ proxy \in ProxyType
  BY RestFacts DEF TypeOK
<1>1. app' = app /\ task' = task
  BY DEF Watches
<1>2. app.want /\ runner.process # 0 /\ Holds => Holds'
  <2>1. CASE SameCore(runner, runner') /\ proxy'.lost = proxy.lost
    BY <2>1 DEF SameCore, Holds
  <2>2. CASE /\ proxy.reconcile = "clear"
             /\ proxy.lost \/ (runner.proxyTaken /\ OutOfDate) => proxy'.lost
    <3>1. runner.process # 0 => OutOfDate
      BY <2>2 DEF OutOfDate, ProbeKnows, KernelKnown, RunnerType
    <3> QED BY <2>2, <3>1 DEF Holds
  <2> QED BY <2>1, <2>2 DEF Watches
<1>3. ASSUME app.want, NEW u \in Tasks, IsConnect(u), task[u].pc = "gate" PROVE Holds'
  <2>1. runner.process # 0
    BY <1>3 DEF Climbing, Climbs, UpPcs, SeqCurrent, StartPcs
  <2> QED BY <1>2, <1>3, <2>1 DEF Wired
<1>4. ASSUME app.want, app.status = "connected" PROVE Holds' \/ \E t \in Tasks : Dials(t)
  BY <1>2, <1>4 DEF Wired, Serving
<1> QED BY <1>1, <1>3, <1>4 DEF Wired, Dials, IsConnect

LEMMA WiredInvariant == ASSUME Patience, NoProxyFaults PROVE Spec => []WiredState
<1>1. Init => WiredState
  <2>1. Init => RunsFresh /\ ProbeKnows /\ Wired
    BY DEF Init, RunsFresh, ProbeKnows, Wired, Free, IsConnect
  <2> QED BY <2>1, InitRest DEF WiredState
<1>2. ASSUME WiredState, [Next]_vars PROVE WiredState'
  <2>1. RestState'
    BY <1>2, RestInvInductive DEF WiredState
  <2>2. /\ TypeOK /\ CalmInv /\ CalmState /\ CalmState' /\ RestState
        /\ RunsFresh /\ ProbeKnows /\ Wired
    BY <1>2, <2>1, RestFacts DEF WiredState, RestState
  <2>3. Wired'
    BY <1>2, <2>2, CalmSteps, CalmUserSteps, TaskKeepsWired, UserKeepsWired, WatchKeepsWired
  <2>4. RunsFresh' /\ ProbeKnows'
    <3>1. CASE UNCHANGED vars
      BY <2>2, <3>1 DEF vars, RunsFresh, ProbeKnows, IsConnect
    <3>2. CASE RecoveryStep
      BY <2>2, <3>2 DEF CalmInv, NothingFails, RecoveryStep, KernelCrashes, ExitCallback,
         TimerFires, TickStarts, TickHealthy, TickUnhealthy
    <3> QED BY <1>2, <2>2, <3>1, <3>2, UserKeepsPorts, TaskKeepsPorts, WatchKeepsPorts DEF Next
  <2> QED BY <2>1, <2>3, <2>4 DEF WiredState
<1> QED BY <1>1, <1>2, PTL DEF Spec

\* At rest, "connected" means that a kernel runs and that the system proxy points to it,
\* although kernel, setting and status are written at three different awaits.  The one
\* exception is named: a reconcile of the watchdog that had looked at an earlier kernel
\* clears the setting after the take-over, and the runner knows that it has it no more.
\* (SingBoxRunner: proxy.set before the readiness gate, the aborted() test after it, the
\* watchdog's onRestored.)  Kernels that exit by themselves are excluded: one that does so
\* during the readiness gate leaves "connected" without a kernel.
THEOREM ConnectedAlwaysWired ==
  ASSUME Patience, NoProxyFaults PROVE Spec => []ConnectedIsWired
<1>1. ASSUME OwnedState, WiredState, Settled, app.status = "connected"
      PROVE  /\ Alive(runner.process)
             /\ proxy.installed = IF runner.proxyTaken THEN runner.process ELSE 0
             /\ runner.proxyTaken \/ proxy.lost
  <2>1. /\ RoundInv /\ KernelKnown /\ Serving /\ ProxyOwned /\ runner \in RunnerType
        /\ OnlyUserCalls /\ Wired
    BY <1>1, RestFacts DEF OwnedState, WiredState
  <2>2. \A t \in Tasks : task[t].pc = "free"
    BY <1>1 DEF Settled, At
  <2>3. \A t \in Tasks : task[t].kind = "none"
    BY <2>1, <2>2 DEF OnlyUserCalls, StartPcs, StopPcs
  <2>4. app.want
    BY <1>1, <2>1, <2>3 DEF RoundInv, IntentHonoured
  <2>5. ~\E t \in Tasks : Dials(t)
    BY <2>3 DEF Dials, IsConnect
  <2>6. runner.process # 0 /\ Holds
    BY <1>1, <2>1, <2>4, <2>5 DEF Serving, Wired
  <2> QED BY <2>1, <2>4, <2>6 DEF ProxyOwned, Alive, KernelKnown, RunnerType, Holds
<1> QED BY <1>1, OwnedInvariant, WiredInvariant, PTL DEF ConnectedIsWired

\* At rest, "disconnected" means that no kernel runs and that the system proxy is the user's
\* again, whether a hang-up, a cancel or a start that failed led there.
\* (SingBoxRunner._stopCore: clear before the kernel is killed; _abortCleanup.)
THEOREM DisconnectedAlwaysClean ==
  ASSUME Patience, NoProxyFaults PROVE Spec => []DisconnectedIsClean
<1>1. ASSUME OwnedState, Settled, app.status = "disconnected"
      PROVE  ~Alive(runner.process) /\ proxy.installed = 0
  <2>1. Down /\ WindsDown /\ ProxyOwned
    BY <1>1, RestFacts DEF OwnedState
  <2>2. \A t \in Tasks : task[t].pc \notin HaltPcs \cup UpPcs
    BY <1>1 DEF Settled, At, HaltPcs, UpPcs
  <2>3. runner.process = 0 /\ ~runner.proxyTaken
    BY <1>1, <2>1, <2>2 DEF Down, WindsDown
  <2> QED BY <2>1, <2>3 DEF ProxyOwned, Alive
<1> QED BY <1>1, OwnedInvariant, PTL DEF DisconnectedIsClean

-----------------------------------------------------------------------------
(***************************************************************************)
(* The profile of the tunnel, when every profile can be dialled.           *)
(***************************************************************************)
AllDialled == NeedsCredentials = {} /\ "import" \notin UserCommands

ProfileState == RestState /\ ProfilesDialled /\ ServesActive

\* A command that only stores its change moves the active profile only while disconnected.
LEMMA StoreKeepsProfile ==
  ASSUME AllDialled, TypeOK, UserStep, task' = task
  PROVE  app'.active = app.active \/ app.status = "disconnected"
<1>1. \A a : SameRound(a) /\ HangUp(a) => FALSE
  <2> SUFFICES ASSUME NEW a, SameRound(a), HangUp(a) PROVE FALSE
    OBVIOUS
  <2>1. PICK t \in Tasks : HangUpIn(t, a)
    BY DEF HangUp
  <2>2. task'[t].kind = "disconnect" /\ task'[t].pc # "free" /\ task[t].pc = "free"
    BY <2>1 DEF HangUpIn, IsFirstFree, FreeTasks, Call, Free, StopPc, TypeOK
  <2> QED BY <2>2
<1>2. \A a : SameRound(a) /\ a.active # NoProfile /\ Dial(a) => FALSE
  <2> SUFFICES ASSUME NEW a, SameRound(a), a.active # NoProfile, Dial(a) PROVE FALSE
    OBVIOUS
  <2>1. PICK t \in Tasks : DialIn(t, a)
    BY DEF Dial, AllDialled
  <2>2. task'[t].pc # "free" /\ task[t].pc = "free"
    <3> DEFINE me(pc) == Call("connect", pc, a.generation + 1, a.active, "start")
    <3>1. task[t].pc = "free"
      BY <2>1 DEF DialIn, IsFirstFree, FreeTasks
    <3>2. \A pc : me(pc).pc = pc
      BY DEF Call, Free
    <3>3. \/ task' = [task EXCEPT ![t] = me("await_prev")]
          \/ task' = [task EXCEPT ![t] = me(StopPc(runner))]
      BY <2>1 DEF DialIn
    <3> HIDE DEF me
    <3>4. task'[t] \in {me("await_prev"), me(StopPc(runner))}
      BY <3>3 DEF TypeOK
    <3>5. StopPc(runner) # "free"
      BY DEF StopPc
    <3> QED BY <3>1, <3>2, <3>4, <3>5
  <2> QED BY <2>2
<1>3. \A p \in Profiles : SameRound([app EXCEPT !.active = p])
                          /\ [app EXCEPT !.active = p].active = p /\ p # NoProfile
  BY ProfileAssumption DEF SameRound, TypeOK, AppType
<1>4. app.profiles \subseteq Profiles
  BY DEF TypeOK, AppType
<1>5. CASE ToggleConnection
  <2>1. SameRound(app)
    BY DEF SameRound, TypeOK
  <2>2. app.status = "disconnected" \/ HangUp(app)
    BY <1>5 DEF ToggleConnection
  <2> QED BY <1>1, <2>1, <2>2
<1>6. CASE CancelConnect
  BY <1>1, <1>6 DEF CancelConnect, SameRound, TypeOK
<1>7. CASE SetActiveProfile
  <2>1. PICK p \in app.profiles : Redial([app EXCEPT !.active = p])
    BY <1>7 DEF SetActiveProfile
  <2>2. app.status # "disconnected" => Dial([app EXCEPT !.active = p])
    BY <2>1 DEF Redial, TypeOK, AppType
  <2> QED BY <1>2, <1>3, <1>4, <2>2
<1>8. CASE SetProfileCredentials
  <2>1. SameRound(app) /\ app.active # NoProfile
    BY <1>4, <1>8, ProfileAssumption DEF SetProfileCredentials, SameRound, TypeOK
  <2>2. app.status # "disconnected" => Dial(app)
    BY <1>8 DEF SetProfileCredentials, Redial
  <2> QED BY <1>2, <2>1, <2>2
<1>9. CASE RemoveProfile
  <2>1. PICK p \in app.profiles :
          LET rest == [app EXCEPT !.profiles = @ \ {p}] IN
          IF p # app.active THEN app' = rest /\ UNCHANGED <<runner, task>>
          ELSE IF rest.profiles = {} THEN HangUp([rest EXCEPT !.active = NoProfile])
          ELSE \E q \in rest.profiles : Redial([rest EXCEPT !.active = q])
    BY <1>9 DEF RemoveProfile
  <2> DEFINE rest == [app EXCEPT !.profiles = @ \ {p}]
  <2>2. rest.active = app.active /\ rest.profiles \subseteq Profiles
    BY <1>4 DEF TypeOK, AppType
  <2>3. \A q \in Profiles \cup {NoProfile} :
          SameRound([rest EXCEPT !.active = q]) /\ [rest EXCEPT !.active = q].active = q
    BY DEF SameRound, TypeOK, AppType
  <2> HIDE DEF rest
  <2>4. CASE p # app.active
    BY <2>1, <2>2, <2>4 DEF rest
  <2>5. CASE p = app.active /\ rest.profiles = {}
    BY <1>1, <2>1, <2>3, <2>5 DEF rest
  <2>6. CASE p = app.active /\ rest.profiles # {}
    <3>1. PICK q \in rest.profiles : Redial([rest EXCEPT !.active = q])
      BY <2>1, <2>6 DEF rest
    <3>2. SameRound([rest EXCEPT !.active = q]) /\ [rest EXCEPT !.active = q].active # NoProfile
      BY <2>2, <2>3, ProfileAssumption
    <3>3. [rest EXCEPT !.active = q].status = app.status
      BY <3>2 DEF SameRound
    <3> QED BY <1>2, <3>1, <3>2, <3>3 DEF Redial
  <2> QED BY <2>4, <2>5, <2>6
<1>10. CASE ImportConf
  BY <1>10 DEF ImportConf, Command, AllDialled
<1> QED BY <1>5, <1>6, <1>7, <1>8, <1>9, <1>10 DEF UserStep

LEMMA TaskKeepsDialled ==
  ASSUME ProfileState, NEW t \in Tasks, CalmTaskStep(t)
  PROVE  ProfilesDialled'
<1> /\ TypeOK /\ RoundInv /\ CalmInv /\ runner \in RunnerType /\ ProfilesDialled /\ Others(t)
    /\ KernelKnown /\ SeqCurrent /\ RestState
  BY RestFacts, WishSteps DEF ProfileState, RestState
<1> USE DEF SameCore
<1>1. app'.active = app.active /\ app'.attempt \in {app.attempt, 0}
  BY TokenSteps DEF Resumed, Leaves, TokenFields, TypeOK, AppType
<1>2. \A u \in Tasks : IsConnect(u)' => /\ IsConnect(u) /\ task'[u].att = task[u].att
                                        /\ task'[u].prof = task[u].prof
  BY TokenSteps DEF Leaves, Same, Frees, Others, IsConnect
<1>3. \A u \in Tasks : IsConnect(u)' /\ task'[u].att = app'.attempt => task'[u].prof = app'.active
  BY <1>1, <1>2, RoundFacts DEF ProfilesDialled
<1>4. ASSUME app.want, NEW u \in Tasks, IsConnect(u)', task'[u].pc \in UpPcs
      PROVE  kernel'[task'[u].seq].prof = task'[u].prof
  <2>1. IsConnect(t) /\ Climbs(t) /\ ~runner.userDisconnect
    BY <1>4, WantedSteps, RestFacts DEF Climbing
  <2>2. IsConnect(u) /\ Climbs(u)
    BY <1>2, <1>4, RestFacts DEF Climbing
  <2>3. CASE u # t
    \* Then t was not running: a waiting connect gives up.
    <3>1. task'[u] = task[u] /\ ~Waiting(u)
      BY <1>4, <2>3 DEF Others, Waiting, UpPcs
    <3>2. Waiting(t) /\ app.inflight # NoTask
      BY <2>1, <2>2, <2>3, <3>1, OneRuns, RoundFacts DEF RestState
    <3>3. ConnectReturned(t) => FALSE
      BY <3>2, ReturnLeaves DEF Leaves, Waiting
    <3>4. SameLife
      BY <3>2, <3>3 DEF CalmTaskStep, GivesUp, Resumed, Builds, Enters, Registers, TakesOver,
           Announces, Clears, TakesDown, Exits, Waiting, StartPcs, HaltPcs, Steady
    <3>5. task[u].seq = runner.process /\ task[u].seq # 0
      BY <1>4, <2>2, <3>1 DEF Climbs, SeqCurrent, UpPcs, StartPcs
    <3> QED BY <1>4, <2>2, <3>1, <3>4, <3>5
            DEF SameLife, KernelKnown, ProfilesDialled, RunnerType
  <2>4. CASE u = t
    <3>1. Ends(t) \/ Halts(t) \/ Frees(t) => task'[t].pc \notin UpPcs
      BY <2>1 DEF Ends, Halts, Frees, UpPcs
    <3>2. \A pc : Moves(t, pc) => task'[t].pc = pc /\ task'[t].seq = task[t].seq
      BY DEF Moves
    <3>3. CASE Registers(t)
      <4>1. task[t].seq \in Runs
        BY <3>3 DEF Registers, SeqCurrent, StartPcs, TypeOK, TaskRec
      <4> QED BY <1>2, <1>4, <2>4, <3>2, <3>3, <4>1 DEF Registers, TypeOK, KernelType
    <3>4. CASE TakesOver(t)
      BY <1>2, <1>4, <2>1, <2>4, <3>1, <3>2, <3>4 DEF TakesOver, ProfilesDialled, UpPcs
    <3>5. CASE Builds(t)
      <4>1. task[t].pc = "api" /\ task'[t].seq = task[t].seq
        BY <1>4, <2>4, <3>1, <3>2, <3>5 DEF Builds, StartPcs, UpPcs
      <4>2. task[t].seq = runner.process /\ task[t].seq # 0
        BY <2>1, <4>1 DEF Climbs, SeqCurrent, UpPcs, StartPcs
      <4>3. kernel[task[t].seq].st = "live" /\ task[t].seq \in Runs
        BY <4>2 DEF KernelKnown, RunnerType
      <4> QED BY <1>2, <1>4, <2>1, <2>4, <3>5, <4>1, <4>3
              DEF Builds, Steady, SameLife, ProfilesDialled, UpPcs
    <3>6. Finishes(t) => task'[t].pc \notin UpPcs
      BY <3>1, <3>2 DEF Finishes, UpPcs
    <3>7. CASE ~Registers(t) /\ ~TakesOver(t) /\ ~Builds(t)
      <4>1. task'[t].pc \notin UpPcs
        <5>1. \A pc \in StopPcs : Moves(t, pc) => task'[t].pc \notin UpPcs
          BY <3>2 DEF StopPcs, UpPcs
        <5>2. GivesUp(t) \/ ConnectReturned(t) \/ Announces(t) => task'[t].pc \notin UpPcs
          BY <3>1, ReturnLeaves DEF GivesUp, Leaves, Announces
        <5>3. Enters(t) => task'[t].pc \notin UpPcs
          BY <3>1 DEF Enters, UpPcs
        <5>4. Resumed(t) \/ Clears(t) \/ TakesDown(t) \/ Exits(t) => task'[t].pc \notin UpPcs
          BY <3>6, <5>1 DEF Resumed, Clears, TakesDown, Exits, StopPcs
        <5> QED BY <3>7, <5>2, <5>3, <5>4 DEF CalmTaskStep
      <4> QED BY <1>4, <2>4, <4>1
    <3> QED BY <3>3, <3>4, <3>5, <3>7
  <2> QED BY <2>3, <2>4
<1>5. app'.want = app.want
  BY WishSteps DEF RestState
<1> QED BY <1>3, <1>4, <1>5 DEF ProfilesDialled

LEMMA TaskKeepsServed ==
  ASSUME ProfileState, NEW t \in Tasks, CalmTaskStep(t)
  PROVE  ServesActive'
<1> /\ TypeOK /\ RoundInv /\ CalmInv /\ RestState /\ ServesActive /\ ProfilesDialled
    /\ SeqCurrent
  BY RestFacts DEF ProfileState
<1>1. app'.active = app.active /\ app'.want = app.want
  BY TokenSteps DEF Resumed, Leaves, TokenFields, TypeOK, AppType
<1> SUFFICES ASSUME app.want, app'.status = "connected"
             PROVE  \/ runner'.process # 0 /\ kernel'[runner'.process].prof = app.active
                    \/ \E u \in Tasks : Dials(u)'
  BY <1>1 DEF ServesActive
<1>2. CASE app.status = "connected"
  BY <1>2, DialsLast, KernelLasts DEF ServesActive
<1>3. CASE app.status # "connected"
  <2>1. Announces(t)
    BY <1>3, LiftedByGate
  <2>2. IsConnect(t) /\ task[t].att = app.attempt /\ Climbs(t)
    BY <2>1, AbortedUnwanted, NotAborted, RestFacts DEF RestState, Announces, Climbing
  <2>3. runner.process = task[t].seq /\ task[t].seq # 0
        /\ kernel[task[t].seq].prof = app.active
    BY <2>1, <2>2 DEF Announces, Climbs, UpPcs, SeqCurrent, StartPcs, ProfilesDialled
  <2> QED BY <2>1, <2>3 DEF Announces, SameCore
<1> QED BY <1>2, <1>3

LEMMA UserKeepsProfile ==
  ASSUME Patience, AllDialled, ProfileState, UserStep
  PROVE  ProfilesDialled' /\ ServesActive'
<1> /\ TypeOK /\ RoundInv /\ CalmInv /\ RestState /\ ServesActive /\ ProfilesDialled
    /\ OnlyUserCalls /\ runner \in RunnerType /\ PatientUser /\ WantedIsUp
  BY RestFacts DEF ProfileState, Patience
<1> USE RoundFacts
<1>1. CalmUserStep /\ kernel' = kernel /\ runner'.process = runner.process
  BY CalmUserSteps DEF CalmUserStep, HangsUp, DialsAnew, Stores, SameCore, RunnerType
<1>2. ASSUME NEW t \in Tasks, HangsUp(t)
      PROVE  ProfilesDialled' /\ ServesActive'
  <2>1. \A u \in Tasks : IsConnect(u)' => IsConnect(u) /\ task'[u] = task[u]
    BY <1>2 DEF HangsUp, Others, IsConnect
  <2> QED BY <1>2, <2>1 DEF HangsUp, ProfilesDialled, ServesActive
<1>3. ASSUME NEW t \in Tasks, DialsAnew(t)
      PROVE  ProfilesDialled' /\ ServesActive'
  <2>1. /\ IsConnect(t)' /\ task'[t].att = app'.attempt /\ task'[t].prof = app'.active
        /\ task'[t].pc \in {"await_prev", "stop_idle", "stop_host"} /\ task'[t].then = "start"
        /\ Others(t) /\ app'.attempt = app.generation + 1
    BY <1>3 DEF DialsAnew, IsConnect
  <2>2. ServesActive'
    BY <2>1 DEF ServesActive, Dials, StopPcs
  <2>3. \A u \in Tasks : u # t /\ IsConnect(u)' =>
          /\ IsConnect(u) /\ task'[u] = task[u]
          /\ task[u].att \in Nat /\ task[u].att <= app.generation
    BY <2>1 DEF Others, IsConnect, RoundInv, TokensDistinct, TypeOK, TaskRec, Attempts
  <2>4. \A u \in Tasks : IsConnect(u) => app.want
    BY <1>3 DEF DialsAnew, Patiently, RoundInv, IntentHonoured, OnlyUserCalls, At, IsConnect,
       StartPcs, StopPcs
  <2>5. \A u \in Tasks : IsConnect(u)' /\ task'[u].att = app'.attempt
          => task'[u].prof = app'.active
    BY <2>1, <2>3
  <2>6. \A u \in Tasks : IsConnect(u)' /\ task'[u].pc \in UpPcs
          => kernel'[task'[u].seq].prof = task'[u].prof
    BY <1>1, <2>1, <2>3, <2>4 DEF ProfilesDialled, UpPcs
  <2> QED BY <2>2, <2>5, <2>6 DEF ProfilesDialled
<1>4. CASE Stores
  <2>1. /\ runner' = runner /\ task' = task /\ app'.want = app.want
        /\ app'.status = app.status /\ app'.attempt = app.attempt
    BY <1>4 DEF Stores, SameRound
  <2>2. app'.active = app.active \/ app.status = "disconnected"
    BY <2>1, StoreKeepsProfile
  <2>3. app.status = "disconnected" => \A u \in Tasks : ~IsConnect(u)
    BY <1>4 DEF Stores, Patiently, OnlyUserCalls, At, IsConnect, StartPcs, StopPcs
  <2>4. ProfilesDialled'
    BY <1>1, <2>1, <2>2, <2>3 DEF ProfilesDialled, IsConnect
  <2>5. ServesActive'
    BY <1>1, <2>1, <2>2 DEF ServesActive, Dials, IsConnect
  <2> QED BY <2>4, <2>5
<1> QED BY <1>1, <1>2, <1>3, <1>4 DEF CalmUserStep

LEMMA ProfileInvariant == ASSUME Patience, AllDialled PROVE Spec => []ProfileState
<1>1. Init => ProfileState
  <2>1. Init => ProfilesDialled /\ ServesActive
    BY DEF Init, ProfilesDialled, ServesActive, IsConnect, Free
  <2> QED BY <2>1, InitRest DEF ProfileState
<1>2. ASSUME ProfileState, [Next]_vars PROVE ProfileState'
  <2>1. RestState'
    BY <1>2, RestInvInductive DEF ProfileState
  <2>2. CASE Watches
    <3>1. app' = app /\ task' = task /\ kernel' = kernel /\ runner'.process = runner.process
      BY <1>2, <2>2, RestFacts DEF ProfileState, Watches, SameCore, Release, RunnerType
    <3> QED BY <1>2, <2>1, <3>1
            DEF ProfileState, ProfilesDialled, ServesActive, Dials, IsConnect
  <2>3. ASSUME NEW t \in Tasks, CalmTaskStep(t) PROVE ProfileState'
    BY <1>2, <2>1, <2>3, TaskKeepsDialled, TaskKeepsServed DEF ProfileState
  <2>4. CASE UserStep
    BY <1>2, <2>1, <2>4, UserKeepsProfile DEF ProfileState
  <2> QED BY <1>2, <2>2, <2>3, <2>4, RestFacts, CalmSteps DEF ProfileState
<1> QED BY <1>1, <1>2, PTL DEF Spec

\* At rest, the tunnel that is up is the one of the profile the user sees as active, for any
\* number of switches, removals and cancels at any await, starts and proxy commands that fail
\* included: a switch while a round is in flight cancels it and dials the new profile.
\* (AppState.setActive, removeProfile, connect.)  Importing while up and switching to a
\* profile without credentials are excluded: both leave the old tunnel up.
THEOREM ProfilesAlwaysAgree ==
  ASSUME Patience, AllDialled PROVE Spec => []ProfileAgreement
<1>1. ASSUME ProfileState, Settled, app.status = "connected"
      PROVE  kernel[runner.process].prof = app.active
  <2>1. /\ RoundInv /\ ServesActive /\ OnlyUserCalls
    BY <1>1, RestFacts DEF ProfileState
  <2>2. \A t \in Tasks : task[t].kind = "none"
    BY <1>1, <2>1 DEF Settled, At, OnlyUserCalls, StartPcs, StopPcs
  <2>3. app.want
    BY <1>1, <2>1, <2>2 DEF RoundInv, IntentHonoured
  <2> QED BY <1>1, <2>1, <2>2, <2>3 DEF ServesActive, Dials, IsConnect
<1> QED BY <1>1, ProfileInvariant, PTL DEF ProfileAgreement

-----------------------------------------------------------------------------
(***************************************************************************)
(* The watchdog, with every actor at large and no command that fails.      *)
(***************************************************************************)
Watched == proxy.installed # 0 => proxy.watchdog

WatchedState == TypeInv /\ Watched

LEMMA ClearedLeavesNothing ==
  ASSUME NoProxyFaults, TypeOK, NEW ok \in BOOLEAN, Cleared(ok)
  PROVE  /\ ClearedProxy(ok).installed = 0
         /\ [ClearedProxy(ok) EXCEPT !.watchdog = FALSE].installed = 0
         /\ TakenBack(ok).installed = 0
<1>1. ok \/ proxy.installed = 0
  BY DEF Cleared, NoProxyFaults, TypeOK, BudgetType
<1> QED BY <1>1, TakenBackFields DEF ClearedProxy, TypeOK, ProxyType

LEMMA WatchedInductive ==
  ASSUME NoProxyFaults, WatchedState, [Next]_vars
  PROVE  Watched'
<1> TypeOK /\ Watched /\ proxy \in ProxyType
  BY DEF WatchedState, TypeInv, TypeOK
<1>1. proxy' = proxy => Watched'
  BY DEF Watched
<1>2. CASE UserStep
  BY <1>1, <1>2 DEF UserStep, ToggleConnection, CancelConnect, SetActiveProfile,
     SetProfileCredentials, RemoveProfile, ImportConf, Command
<1>3. ASSUME NEW t \in Tasks, TaskStep(t) PROVE Watched'
  <2>1. CASE ProxySet(t)
    <3>1. PICK ok \in BOOLEAN :
            /\ ok \/ budget.proxyFaults > 0
            /\ \E written \in IF ok THEN {task[t].seq} ELSE {task[t].seq, proxy.installed} :
                 proxy' = Taken(ok, written)
      BY <2>1 DEF ProxySet
    <3>2. ok
      BY <3>1 DEF NoProxyFaults, TypeOK, BudgetType
    <3> QED BY <3>1, <3>2 DEF Taken, Watched, ProxyType
  <2>2. CASE ProxyReleased(t) \/ ProxyCleared(t) \/ ExitCleared(t)
    <3>1. PICK ok \in BOOLEAN : /\ Cleared(ok)
                                /\ proxy' = [ClearedProxy(ok) EXCEPT !.watchdog = FALSE]
      BY <2>2 DEF ProxyReleased, ProxyCleared, ExitCleared
    <3> QED BY <3>1, ClearedLeavesNothing DEF Watched
  <2>3. CASE ~ProxySet(t) /\ ~ProxyReleased(t) /\ ~ProxyCleared(t) /\ ~ExitCleared(t)
    <3>1. proxy' = proxy
      BY <1>3, <2>3 DEF TaskStep, AwaitPrevious, ConnectReturned, StartTunnel, IndexLoaded,
         PortsAllocated, HostBound, HostStarted, Spawned, SpawnThrows, ApiAnswered, GatePassed,
         HostStopped, KernelGone
    <3> QED BY <1>1, <3>1
  <2> QED BY <2>1, <2>2, <2>3
<1>4. CASE RecoveryStep
  BY <1>1, <1>4 DEF RecoveryStep, KernelCrashes, ExitCallback, TimerFires, TickStarts,
     TickHealthy, TickUnhealthy
<1>5. CASE WatchdogStep
  <2>1. CASE Looks
    BY <2>1 DEF Looks, Watched
  <2>2. CASE WatchdogCleared
    BY <2>2, ClearedLeavesNothing DEF WatchdogCleared, Watched
  <2> QED BY <1>5, <2>1, <2>2, ReconcileSteps
<1> QED BY <1>1, <1>2, <1>3, <1>4, <1>5 DEF Next, vars

\* A system proxy that is set has a running watchdog, also while kernels crash, health
\* verdicts restart them and an impatient user dials and hangs up over all of it: each of the
\* three clears that stop the watchdog has taken the setting back first.
\* (ProxyWatchdog.start and stop; SingBoxRunner: proxy.set, _stopCore, the exit callback,
\* _abortCleanup.)
THEOREM NeverStranded == ASSUME NoProxyFaults PROVE Spec => []NoStrandedProxy
<1>1. Init => WatchedState
  <2>1. Init => Watched
    BY DEF Init, Watched
  <2> QED BY <2>1, InitTyped DEF WatchedState
<1>2. WatchedState /\ [Next]_vars => WatchedState'
  BY TypeInvInductive, WatchedInductive DEF WatchedState
<1>3. WatchedState => NoStrandedProxy
  BY DEF WatchedState, Watched, NoStrandedProxy
<1> QED BY <1>1, <1>2, <1>3, PTL DEF Spec
=============================================================================
