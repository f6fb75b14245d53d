--------------------------- MODULE TunnelLifecycle ---------------------------
(***************************************************************************)
(* The desktop connection lifecycle: AppState's connection control (what   *)
(* the user asked for) on top of SingBoxRunner (kernel process, system     *)
(* proxy, reconnect timer, proxy watchdog).                                *)
(*                                                                         *)
(* Dart runs one event loop, so an action is the code between two awaits.  *)
(* Every call of an async function that is still running is a task; its pc *)
(* names the await it is suspended at.  All interleavings of the tasks,    *)
(* the user, kernel exits, health verdicts and the watchdog are explored,  *)
(* except that an await which needs no I/O resumes as a microtask: before  *)
(* the event loop takes any other event.                                   *)
(*                                                                         *)
(* A kernel process is named by the sequence number of the _startTunnel    *)
(* run that spawned it, and so is the port it listens on: two runs never   *)
(* share a port while both kernels live.                                   *)
(***************************************************************************)
EXTENDS Naturals, FiniteSets

CONSTANTS
  Profiles,          \* configurations the user may import
  NeedsCredentials,  \* the ones whose account and password are not filled in
  NoProfile,         \* "no configuration selected"
  MaxTasks,          \* slots for async calls in flight at once
  UserCommands,      \* which commands this user gives
  PatientUser,       \* TRUE: lets a hang-up finish before the next command
  StartFaults,       \* TRUE: files may be missing, ports taken, spawn may fail
  FaultyCalls,       \* which calls on the system proxy may fail
  MaxCommands, MaxCrashes, MaxHealth, MaxProxyFaults   \* environment budgets

Commands == {"toggle", "cancel", "switch", "credentials", "remove", "import"}

ASSUME ProfileAssumption == NoProfile \notin Profiles /\ NeedsCredentials \subseteq Profiles
ASSUME TaskAssumption == MaxTasks \in Nat
ASSUME SwitchAssumption == /\ UserCommands \subseteq Commands
                           /\ FaultyCalls \subseteq {"set", "clear"}
                           /\ PatientUser \in BOOLEAN /\ StartFaults \in BOOLEAN
ASSUME BudgetAssumption == /\ MaxCommands \in Nat /\ MaxCrashes \in Nat
                           /\ MaxHealth \in Nat /\ MaxProxyFaults \in Nat

VARIABLES
  app,      \* AppState: profiles, active, want, status, attempt, generation, ...
  runner,   \* SingBoxRunner's fields
  task,     \* the async calls in flight
  kernel,   \* every kernel process ever spawned
  proxy,    \* the system proxy setting and its watchdog; lost is history: a reconcile
            \* took the last take-over back on what it knew of an earlier kernel
  tick,     \* TRUE while a CoreMonitor tick is in flight
  budget    \* what the environment may still do

vars == <<app, runner, task, kernel, proxy, tick, budget>>

\* Each dial, crash and health restart starts at most one run.
Tasks == 1 .. MaxTasks
Runs == 1 .. (MaxCommands + MaxCrashes + MaxHealth)
Attempts == 1 .. MaxCommands
NoTask == 0

Kinds == {"none", "connect", "disconnect", "restart", "reconnect", "exit"}
StartPcs == {"start", "index", "ports", "bind", "verify", "spawn", "api", "set_proxy", "gate"}
StopPcs == {"stop_idle", "stop_host", "stop_clear", "stop_exit"}
Pcs == {"free", "await_prev", "release", "exit_clear", "done"} \cup StartPcs \cup StopPcs

TaskRec == [kind : Kinds, pc : Pcs, seq : {0} \cup Runs, att : {0} \cup Attempts,
            prof : Profiles \cup {NoProfile}, notify : BOOLEAN, then : {"start", "return"}]

Free == [kind |-> "none", pc |-> "free", seq |-> 0, att |-> 0,
         prof |-> NoProfile, notify |-> FALSE, then |-> "return"]

\* A fresh call of the given kind for profile p under attempt token a.
Call(kind, pc, a, p, then) ==
  [Free EXCEPT !.kind = kind, !.pc = pc, !.att = a, !.prof = p, !.then = then]

FreeTasks == {t \in Tasks : task[t].pc = "free"}
IsFirstFree(t) == t \in FreeTasks /\ \A u \in FreeTasks : t <= u

Statuses == {"disconnected", "connecting", "warmingUp", "connected"}

AppType ==
  [profiles : SUBSET Profiles, active : Profiles \cup {NoProfile}, want : BOOLEAN,
   status : Statuses, attempt : {0} \cup Attempts, generation : {0} \cup Attempts,
   cancelled : SUBSET Attempts, inflight : {NoTask} \cup Tasks]

RunnerType ==
  [attemptSeq : {0} \cup Runs, userDisconnect : BOOLEAN, lastProfile : Profiles \cup {NoProfile},
   process : {0} \cup Runs, port : {0} \cup Runs, proxyTaken : BOOLEAN,
   proxyOwner : {0} \cup Runs, timer : BOOLEAN, pidFile : {0} \cup Runs,
   indexLoaded : BOOLEAN, monitorOn : BOOLEAN, host : {"down", "bound", "up"}]

KernelType == [Runs -> [st : {"none", "live", "exited", "dead"},
                        att : {0} \cup Attempts, prof : Profiles \cup {NoProfile}]]

ProxyType == [installed : {0} \cup Runs, watchdog : BOOLEAN,
              reconcile : {"idle", "backup", "probe", "clear"}, port : {0} \cup Runs,
              lost : BOOLEAN]

BudgetType == [commands : 0..MaxCommands, crashes : 0..MaxCrashes,
               health : 0..MaxHealth, proxyFaults : 0..MaxProxyFaults]

TypeOK ==
  /\ app \in AppType
  /\ runner \in RunnerType
  /\ task \in [Tasks -> TaskRec]
  /\ kernel \in KernelType
  /\ proxy \in ProxyType
  /\ tick \in BOOLEAN
  /\ budget \in BudgetType

Init ==
  /\ \E p \in Profiles \ NeedsCredentials :
       app = [profiles |-> Profiles, active |-> p, want |-> FALSE,
              status |-> "disconnected", attempt |-> 0, generation |-> 0,
              cancelled |-> {}, inflight |-> NoTask]
  /\ runner = [attemptSeq |-> 0, userDisconnect |-> FALSE, lastProfile |-> NoProfile,
               process |-> 0, port |-> 0, proxyTaken |-> FALSE, proxyOwner |-> 0,
               timer |-> FALSE, pidFile |-> 0, indexLoaded |-> FALSE, monitorOn |-> FALSE,
               host |-> "down"]
  /\ task = [t \in Tasks |-> Free]
  /\ kernel = [k \in Runs |-> [st |-> "none", att |-> 0, prof |-> NoProfile]]
  /\ proxy = [installed |-> 0, watchdog |-> FALSE, reconcile |-> "idle", port |-> 0,
              lost |-> FALSE]
  /\ tick = FALSE
  /\ budget = [commands |-> MaxCommands, crashes |-> MaxCrashes,
               health |-> MaxHealth, proxyFaults |-> MaxProxyFaults]

-----------------------------------------------------------------------------
(***************************************************************************)
(* Helpers.                                                                *)
(***************************************************************************)
At(t, pc) == task[t].pc = pc
Goto(t, pc) == task' = [task EXCEPT ![t].pc = pc]

\* Tasks whose await is already answered: they resume before the
\* event loop takes the next event.
Microtasks == {t \in Tasks : \/ task[t].pc \in {"start", "done", "stop_idle"}
                             \/ At(t, "await_prev") /\ app.inflight = NoTask}

Event == Microtasks = {}
Resumes(t, pc) == At(t, pc) /\ (Event \/ t \in Microtasks)

\* An async call returns.  For a connect the caller, AppState.connect, still
\* has a continuation to run.
Returned(me) == IF me.kind = "connect" THEN [me EXCEPT !.pc = "done"] ELSE Free
Return(t) == task' = [task EXCEPT ![t] = Returned(@)]

SetStatus(s) == app' = [app EXCEPT !.status = s]

\* Mutant: the flag of the hang-up is not consulted.
SupersededByToken(seq, att) == att \in app.cancelled \/ seq # runner.attemptSeq

\* aborted(): the closure _startTunnel tests after every await.
Superseded(seq, att) ==
  runner.userDisconnect \/ att \in app.cancelled \/ seq # runner.attemptSeq
Aborted(t) == Superseded(task[t].seq, task[t].att)

\* _stopCore up to its first await: the monitor stops, the rule-set host is told
\* to stop.  Awaiting a host that is not running is only a microtask.
StopBegins(r) == [r EXCEPT !.monitorOn = FALSE, !.host = "down"]
StopPc(r) == IF r.host = "down" THEN "stop_idle" ELSE "stop_host"
StopFrom(t, r, notify) ==
  /\ runner' = StopBegins(r)
  /\ task' = [task EXCEPT ![t].pc = StopPc(r), ![t].notify = notify, ![t].then = "return"]

\* proxy.clear() completes with result ok; a failure leaves the setting as it was.
Cleared(ok) ==
  /\ ok \/ proxy.installed = 0 \/ ("clear" \in FaultyCalls /\ budget.proxyFaults > 0)
  /\ budget' = IF ok \/ proxy.installed = 0 THEN budget
               ELSE [budget EXCEPT !.proxyFaults = @ - 1]
ClearedProxy(ok) == [proxy EXCEPT !.installed = IF ok THEN 0 ELSE @]

Release(r) == [r EXCEPT !.proxyTaken = FALSE, !.proxyOwner = 0]

-----------------------------------------------------------------------------
(***************************************************************************)
(* AppState: the user's commands.                                          *)
(***************************************************************************)
\* A patient user waits for a hang-up, and while disconnected for everything in
\* flight, before any command but a cancel.
Command(c) ==
  /\ Event
  /\ c \in UserCommands
  /\ PatientUser /\ c # "cancel" =>
       \A t \in Tasks : /\ task[t].kind # "disconnect"
                        /\ app.status = "disconnected" => At(t, "free")
  /\ budget.commands > 0
  /\ budget' = [budget EXCEPT !.commands = @ - 1]
  /\ UNCHANGED <<proxy, tick, kernel>>

\* SingBoxRunner.connect up to its first await: the user's new round.
CoreConnect(p) ==
  runner' = [StopBegins(runner) EXCEPT !.userDisconnect = FALSE, !.timer = FALSE,
                                       !.lastProfile = p]

\* Cancelling a token that does not exist (0) does nothing.
CancelAttempt(a) == [a EXCEPT !.cancelled = @ \cup ({a.attempt} \ {0}), !.attempt = 0]

\* Mutant: the new round does not wait for the round in flight.
NeverWaits(a) == FALSE

\* _inFlightConnect: the previous round has not returned yet.
MustWait(a) == a.inflight # NoTask

\* The new round of AppState.connect in slot t: the previous token is cancelled, and
\* the core is called once the round still in flight has returned.
DialIn(t, a) ==
  LET g == a.generation + 1
      me(pc) == Call("connect", pc, g, a.active, "start") IN
  /\ IsFirstFree(t)
  /\ app' = [CancelAttempt(a) EXCEPT !.attempt = g, !.generation = g, !.want = TRUE,
                                     !.inflight = IF @ = NoTask THEN t ELSE @]
  /\ IF MustWait(a)
     THEN task' = [task EXCEPT ![t] = me("await_prev")] /\ UNCHANGED runner
     ELSE task' = [task EXCEPT ![t] = me(StopPc(runner))] /\ CoreConnect(a.active)

\* AppState.connect, from an AppState a that the command may already have changed.
\* Without a usable profile it only reports.
Dial(a) ==
  IF a.active = NoProfile \/ a.active \in NeedsCredentials
  THEN app' = a /\ UNCHANGED <<runner, task>>
  ELSE \E t \in Tasks : DialIn(t, a)

\* AppState.disconnect in slot t, on to SingBoxRunner.disconnect and _stopCore's
\* first await.
HangUpIn(t, a) ==
  /\ IsFirstFree(t)
  /\ app' = [CancelAttempt(a) EXCEPT !.want = FALSE]
  /\ runner' = [StopBegins(runner) EXCEPT !.userDisconnect = TRUE, !.timer = FALSE]
  /\ task' = [task EXCEPT ![t] = [Call("disconnect", StopPc(runner), 0, NoProfile, "return")
                                    EXCEPT !.notify = TRUE]]

HangUp(a) == \E t \in Tasks : HangUpIn(t, a)

\* Mutant: only a tunnel that is already up is dialled again.
RedialIfUp(a) == IF a.status = "connected" THEN Dial(a)
                 ELSE app' = a /\ UNCHANGED <<runner, task>>

\* Dial if a tunnel is up or coming up, else only store the change.
Redial(a) == IF a.status # "disconnected" THEN Dial(a)
             ELSE app' = a /\ UNCHANGED <<runner, task>>

ToggleConnection ==
  /\ Command("toggle")
  /\ \/ app.status = "disconnected" /\ Dial(app)
     \/ app.status \in {"connected", "warmingUp"} /\ HangUp(app)

CancelConnect ==
  /\ Command("cancel")
  /\ app.attempt # 0 \/ app.status # "disconnected"
  /\ HangUp(app)

SetActiveProfile ==
  /\ Command("switch")
  /\ \E p \in app.profiles \ {app.active} : Redial([app EXCEPT !.active = p])

SetProfileCredentials ==
  /\ Command("credentials")
  /\ app.active \in app.profiles \ NeedsCredentials
  /\ Redial(app)

\* Removing the active profile selects another one, or hangs up when none is left.
RemoveProfile ==
  /\ Command("remove")
  /\ \E p \in app.profiles :
       LET rest == [app EXCEPT !.profiles = @ \ {p}] IN
       IF p # app.active THEN app' = rest /\ UNCHANGED <<runner, task>>
       ELSE IF rest.profiles = {} THEN HangUp([rest EXCEPT !.active = NoProfile])
       ELSE \E q \in rest.profiles : Redial([rest EXCEPT !.active = q])

\* Importing (a new profile, or one imported before) selects it, and dials only when
\* disconnected.
ImportConf ==
  /\ Command("import")
  /\ \E p \in Profiles :
       LET a == [app EXCEPT !.profiles = @ \cup {p}, !.active = p] IN
       IF a.status = "disconnected" THEN Dial(a) ELSE app' = a /\ UNCHANGED <<runner, task>>

\* AppState.connect resumes once the previous round has returned.
AwaitPrevious(t) ==
  /\ Resumes(t, "await_prev")
  /\ app.inflight = NoTask
  /\ UNCHANGED <<kernel, proxy, tick, budget>>
  /\ IF task[t].att \in app.cancelled
     THEN task' = [task EXCEPT ![t] = Free] /\ UNCHANGED <<app, runner>>
     ELSE /\ app' = [app EXCEPT !.inflight = t]
          /\ CoreConnect(task[t].prof)
          /\ Goto(t, StopPc(runner))

\* AppState.connect resumes after the core's connect returned.
ConnectReturned(t) ==
  /\ Resumes(t, "done")
  /\ app' = [app EXCEPT !.inflight = IF @ = t THEN NoTask ELSE @,
                        !.attempt = IF @ = task[t].att THEN 0 ELSE @]
  /\ task' = [task EXCEPT ![t] = Free]
  /\ UNCHANGED <<runner, kernel, proxy, tick, budget>>

-----------------------------------------------------------------------------
(***************************************************************************)
(* SingBoxRunner._startTunnel: one action per await.                       *)
(***************************************************************************)
\* _killStaleCore: kill whatever kernel the pid file names, drop the file.
KillStale == [k \in Runs |-> IF k = runner.pidFile /\ kernel[k].st = "live"
                             THEN [kernel[k] EXCEPT !.st = "exited"] ELSE kernel[k]]

\* Mutant: the token is not tested before "connecting" is announced.
NeverUnwanted(r, att) == FALSE

\* aborted() on entry: no newer run can exist yet.
Unwanted(r, att) == r.userDisconnect \/ att \in app.cancelled

\* _startTunnel on behalf of call `me` in slot t, with runner fields r, up to its
\* first await.  The token is tested before "connecting" is announced.
EnterTunnel(t, me, r) ==
  LET seq == r.attemptSeq + 1
      next == [r EXCEPT !.attemptSeq = seq] IN
  /\ seq \in Runs
  /\ \/ /\ Unwanted(r, me.att)
        /\ runner' = next
        /\ task' = [task EXCEPT ![t] = Returned(me)]
        /\ UNCHANGED <<app, kernel>>
     \/ /\ ~Unwanted(r, me.att)
        /\ \/ /\ StartFaults      \* kernel or rule-set file missing
              /\ runner' = next
              /\ SetStatus("disconnected")
              /\ task' = [task EXCEPT ![t] = Returned(me)]
              /\ UNCHANGED kernel
           \/ /\ SetStatus("connecting")
              /\ task' = [task EXCEPT ![t] = [me EXCEPT !.seq = seq,
                            !.pc = IF r.indexLoaded THEN "ports" ELSE "index"]]
              /\ IF r.indexLoaded
                 THEN kernel' = KillStale /\ runner' = [next EXCEPT !.pidFile = 0]
                 ELSE UNCHANGED kernel /\ runner' = next

StartTunnel(t) ==
  /\ Resumes(t, "start")
  /\ EnterTunnel(t, task[t], runner)
  /\ UNCHANGED <<proxy, tick, budget>>

IndexLoaded(t) ==
  /\ Resumes(t, "index")
  /\ IF Aborted(t)
     THEN /\ Return(t)
          /\ runner' = [runner EXCEPT !.indexLoaded = TRUE]
          /\ UNCHANGED kernel
     ELSE /\ Goto(t, "ports")
          /\ runner' = [runner EXCEPT !.indexLoaded = TRUE, !.pidFile = 0]
          /\ kernel' = KillStale
  /\ UNCHANGED <<app, proxy, tick, budget>>

PortsAllocated(t) ==
  /\ Resumes(t, "ports")
  /\ \/ Aborted(t) /\ Return(t) /\ UNCHANGED runner
     \/ ~Aborted(t) /\ StartFaults /\ StopFrom(t, runner, TRUE)
     \/ /\ ~Aborted(t)
        /\ Goto(t, IF runner.host = "up" THEN "spawn" ELSE "bind")
        /\ runner' = [runner EXCEPT !.port = task[t].seq]
  /\ UNCHANGED <<app, kernel, proxy, tick, budget>>

\* The rule-set host is started in two awaits: bind the port, then fetch its own
\* documents.  A stop between them makes the second fail.
HostBound(t) ==
  /\ Resumes(t, "bind")
  /\ Goto(t, "verify")
  /\ runner' = [runner EXCEPT !.host = "bound"]
  /\ UNCHANGED <<app, kernel, proxy, tick, budget>>

HostStarted(t) ==
  /\ Resumes(t, "verify")
  /\ runner' = [runner EXCEPT !.host = IF @ = "bound" THEN "up" ELSE @]
  /\ IF Aborted(t) THEN Return(t) ELSE Goto(t, "spawn")
  /\ UNCHANGED <<app, kernel, proxy, tick, budget>>

\* Mutant: an aborted run returns without killing the process it just got.
SpawnedForgotten(t) ==
  LET k == task[t].seq IN
  /\ Resumes(t, "spawn")
  /\ kernel' = [kernel EXCEPT ![k] = [st |-> "live", att |-> task[t].att, prof |-> task[t].prof]]
  /\ IF Aborted(t)
     THEN Return(t) /\ UNCHANGED runner
     ELSE Goto(t, "api") /\ runner' = [runner EXCEPT !.process = k, !.pidFile = k]
  /\ UNCHANGED <<app, proxy, tick, budget>>

\* Process.start completes.  An aborted run kills the process it just got and does
\* not register it; a run still wanted registers it and waits for the API.
Spawned(t) ==
  LET k == task[t].seq
      born(st) == kernel' = [kernel EXCEPT ![k] =
                               [st |-> st, att |-> task[t].att, prof |-> task[t].prof]] IN
  /\ Resumes(t, "spawn")
  /\ IF Aborted(t)
     THEN born("dead") /\ Return(t) /\ UNCHANGED runner
     ELSE /\ born("live")
          /\ Goto(t, "api")
          /\ runner' = [runner EXCEPT !.process = k, !.pidFile = k]
  /\ UNCHANGED <<app, proxy, tick, budget>>

\* _abortCleanup with runner fields r: the newest run tears everything down, an
\* older one only takes back the system proxy it registered itself.
AbortCleanup(t, r) ==
  IF task[t].seq = r.attemptSeq
  THEN StopFrom(t, r, FALSE)
  ELSE IF r.proxyOwner = task[t].seq
       THEN Goto(t, "release") /\ runner' = Release(r)
       ELSE Return(t) /\ runner' = r

\* The start fails with an exception (a file, the spawn): nothing was registered.
SpawnThrows(t) ==
  /\ Resumes(t, "spawn")
  /\ StartFaults
  /\ IF Aborted(t) THEN AbortCleanup(t, runner) ELSE StopFrom(t, runner, TRUE)
  /\ UNCHANGED <<app, kernel, proxy, tick, budget>>

\* waitForApi returns: aborted, answered (the kernel may be gone by now: isAlive is
\* asked before each request only), kernel gone, or 12 seconds passed.
ApiAnswered(t) ==
  /\ Resumes(t, "api")
  /\ \/ Aborted(t) /\ AbortCleanup(t, runner)
     \/ ~Aborted(t) /\ Goto(t, "set_proxy") /\ UNCHANGED runner
     \/ ~Aborted(t) /\ runner.process = 0 /\ Return(t) /\ UNCHANGED runner
     \/ ~Aborted(t) /\ runner.process # 0 /\ StartFaults /\ StopFrom(t, runner, TRUE)
  /\ UNCHANGED <<app, kernel, proxy, tick, budget>>

\* Mutant: the watchdog is not started.
TakenUnguarded(ok, written) == [proxy EXCEPT !.installed = written]

\* The setting after proxy.set: a take-over starts the watchdog.
Taken(ok, written) ==
  [proxy EXCEPT !.installed = written, !.watchdog = @ \/ ok, !.lost = @ /\ ~ok]

\* proxy.set completes.  Success registers the owner and starts the watchdog; a
\* failure may have applied part of the setting.  An aborted run takes it back.
ProxySet(t) ==
  /\ Resumes(t, "set_proxy")
  /\ \E ok \in BOOLEAN :
       LET me == task[t].seq
           r == IF ok THEN [runner EXCEPT !.proxyTaken = TRUE, !.proxyOwner = me]
                ELSE [runner EXCEPT !.proxyTaken = FALSE] IN
       /\ ok \/ ("set" \in FaultyCalls /\ budget.proxyFaults > 0)
       /\ budget' = IF ok THEN budget ELSE [budget EXCEPT !.proxyFaults = @ - 1]
       /\ \E written \in IF ok THEN {me} ELSE {me, proxy.installed} :
            proxy' = Taken(ok, written)
       /\ IF Aborted(t) THEN AbortCleanup(t, r) /\ UNCHANGED app
          ELSE Goto(t, "gate") /\ runner' = r /\ SetStatus("warmingUp")
  /\ UNCHANGED <<kernel, tick>>

\* Mutant: the run is not asked again after the gate.
GatePassedUnchecked(t) ==
  /\ Resumes(t, "gate")
  /\ Return(t)
  /\ SetStatus("connected")
  /\ runner' = [runner EXCEPT !.monitorOn = TRUE]
  /\ UNCHANGED <<kernel, proxy, tick, budget>>

\* The readiness gate returns, confirmed or after its timeout: either way the
\* tunnel is announced, unless the run was aborted.
GatePassed(t) ==
  /\ Resumes(t, "gate")
  /\ IF Aborted(t) THEN AbortCleanup(t, runner) /\ UNCHANGED app
     ELSE /\ Return(t)
          /\ SetStatus("connected")
          /\ runner' = [runner EXCEPT !.monitorOn = TRUE]
  /\ UNCHANGED <<kernel, proxy, tick, budget>>

\* The clear of an older run's cleanup completes.
ProxyReleased(t) ==
  /\ Resumes(t, "release")
  /\ Return(t)
  /\ \E ok \in BOOLEAN :
       /\ Cleared(ok)
       /\ proxy' = [ClearedProxy(ok) EXCEPT !.watchdog = FALSE]
  /\ UNCHANGED <<app, runner, kernel, tick>>

-----------------------------------------------------------------------------
(***************************************************************************)
(* SingBoxRunner._stopCore: one action per await.                          *)
(***************************************************************************)
\* Mutant: the end of a hang-up is not announced.
StoppedSilently(t) ==
  /\ UNCHANGED app
  /\ IF task[t].then = "start" THEN Goto(t, "start") ELSE Return(t)

\* The end of _stopCore: announce if asked to, then resume the caller.
Stopped(t) ==
  /\ IF task[t].notify THEN SetStatus("disconnected") ELSE UNCHANGED app
  /\ IF task[t].then = "start" THEN Goto(t, "start") ELSE Return(t)

\* Take the current process out of _process and kill it, from runner fields r.
TakeDown(t, r) ==
  /\ runner' = [r EXCEPT !.process = 0]
  /\ IF r.process = 0
     THEN Stopped(t) /\ UNCHANGED kernel
     ELSE /\ kernel' = [kernel EXCEPT ![r.process].st = "dead"]
          /\ Goto(t, "stop_exit")
          /\ UNCHANGED app

\* Mutant: the system proxy is left as it is.
HostStoppedOnly(t) ==
  /\ Resumes(t, "stop_host") \/ Resumes(t, "stop_idle")
  /\ TakeDown(t, runner)
  /\ UNCHANGED <<proxy, tick, budget>>

HostStopped(t) ==
  /\ Resumes(t, "stop_host") \/ Resumes(t, "stop_idle")
  /\ IF runner.proxyTaken
     THEN Goto(t, "stop_clear") /\ UNCHANGED <<app, runner, kernel>>
     ELSE TakeDown(t, runner)
  /\ UNCHANGED <<proxy, tick, budget>>

ProxyCleared(t) ==
  /\ Resumes(t, "stop_clear")
  /\ \E ok \in BOOLEAN :
       /\ Cleared(ok)
       /\ proxy' = [ClearedProxy(ok) EXCEPT !.watchdog = FALSE]
  /\ TakeDown(t, Release(runner))
  /\ UNCHANGED tick

\* The killed kernel exited, or three seconds passed and it was killed for good.
KernelGone(t) ==
  /\ Resumes(t, "stop_exit")
  /\ runner' = [runner EXCEPT !.pidFile = 0]
  /\ Stopped(t)
  /\ UNCHANGED <<kernel, proxy, tick, budget>>

-----------------------------------------------------------------------------
(***************************************************************************)
(* Recovery: kernel exits, reconnect timer, health verdicts.               *)
(***************************************************************************)
KernelCrashes(k) ==
  /\ Event
  /\ kernel[k].st = "live"
  /\ budget.crashes > 0
  /\ budget' = [budget EXCEPT !.crashes = @ - 1]
  /\ kernel' = [kernel EXCEPT ![k].st = "exited"]
  /\ UNCHANGED <<app, runner, task, proxy, tick>>

\* Mutant: retrying does not ask whether the user hung up meanwhile.
DecideAnyway(r) ==
  \/ runner' = [r EXCEPT !.pidFile = 0, !.timer = TRUE] /\ UNCHANGED app
  \/ runner' = [r EXCEPT !.pidFile = 0] /\ SetStatus("disconnected")

\* The end of the exit callback, from runner fields r: CrashRecovery decides to
\* retry (arm the timer, leave the status alone) or to give up.
Decide(r) ==
  \/ /\ ~r.userDisconnect
     /\ runner' = [r EXCEPT !.pidFile = 0, !.timer = TRUE]
     /\ UNCHANGED app
  \/ /\ runner' = [r EXCEPT !.pidFile = 0]
     /\ SetStatus("disconnected")

\* The exit callback.  It ignores a process that is no longer current and a run
\* that was aborted; it takes the system proxy back before it decides.
ExitCallback(k) ==
  /\ Event
  /\ kernel[k].st = "exited"
  /\ kernel' = [kernel EXCEPT ![k].st = "dead"]
  /\ LET r == [runner EXCEPT !.process = 0, !.monitorOn = FALSE] IN
     IF runner.process # k \/ Superseded(k, kernel[k].att)
     THEN UNCHANGED <<app, runner, task>>
     ELSE IF runner.proxyTaken
     THEN /\ runner' = Release(r)
          /\ \E t \in Tasks : /\ IsFirstFree(t)
                              /\ task' = [task EXCEPT ![t] =
                                   Call("exit", "exit_clear", 0, NoProfile, "return")]
          /\ UNCHANGED app
     ELSE Decide(r) /\ UNCHANGED task
  /\ UNCHANGED <<proxy, tick, budget>>

ExitCleared(t) ==
  /\ Resumes(t, "exit_clear")
  /\ \E ok \in BOOLEAN :
       /\ Cleared(ok)
       /\ proxy' = [ClearedProxy(ok) EXCEPT !.watchdog = FALSE]
  /\ Decide(runner)
  /\ Return(t)
  /\ UNCHANGED <<kernel, tick>>

\* The reconnect timer fires and enters _startTunnel without a token.
TimerFires ==
  LET r == [runner EXCEPT !.timer = FALSE] IN
  /\ Event
  /\ runner.timer
  /\ IF runner.userDisconnect \/ runner.lastProfile = NoProfile
     THEN runner' = r /\ UNCHANGED <<app, task, kernel>>
     ELSE \E t \in Tasks :
            /\ IsFirstFree(t)
            /\ EnterTunnel(t, Call("reconnect", "start", 0, runner.lastProfile, "return"), r)
  /\ UNCHANGED <<proxy, tick, budget>>

\* A monitor tick starts; it stays in flight even if the monitor is stopped.
TickStarts ==
  /\ Event
  /\ runner.monitorOn /\ ~tick /\ budget.health > 0
  /\ tick' = TRUE
  /\ UNCHANGED <<app, runner, task, kernel, proxy, budget>>

\* The tick ends without a verdict that restarts the kernel.
TickHealthy ==
  /\ Event
  /\ tick
  /\ tick' = FALSE
  /\ UNCHANGED <<app, runner, task, kernel, proxy, budget>>

\* The tick publishes a problem and the restart guard lets it through:
\* handleTunnelHealth, and _restartCore up to its first await.
TickUnhealthy ==
  /\ Event
  /\ tick
  /\ tick' = FALSE
  /\ budget.health > 0
  /\ budget' = [budget EXCEPT !.health = @ - 1]
  /\ IF runner.userDisconnect \/ runner.lastProfile = NoProfile
     THEN UNCHANGED <<runner, task>>
     ELSE /\ runner' = [StopBegins(runner) EXCEPT !.timer = FALSE]
          /\ \E t \in Tasks :
               /\ IsFirstFree(t)
               /\ task' = [task EXCEPT ![t] =
                             Call("restart", StopPc(runner), 0, runner.lastProfile, "start")]
  /\ UNCHANGED <<app, kernel, proxy>>

-----------------------------------------------------------------------------
(***************************************************************************)
(* ProxyWatchdog.reconcile: the busy flag makes it one loop.               *)
(***************************************************************************)
Watchdog(from, after) ==
  /\ Event
  /\ proxy.reconcile = from
  /\ proxy' = after
  /\ UNCHANGED <<app, runner, task, kernel, tick, budget>>

\* One reconcile: it reads the port of the kernel before it probes it.
Reconciles(to) == [proxy EXCEPT !.reconcile = to]
Probing(port)  == [proxy EXCEPT !.reconcile = "probe", !.port = port]
Reconciled(p)  == [p EXCEPT !.reconcile = "idle", !.port = 0]

\* The port answers while the kernel that owns it lives.
PortAlive == proxy.port # 0 /\ kernel[proxy.port].st = "live"

ReconcileStarts ==
  /\ proxy.watchdog
  /\ Watchdog("idle", IF runner.proxyTaken THEN Probing(runner.port) ELSE Reconciles("backup"))

\* Mutant: a probe that fails proves nothing.
PortTrusted  == Watchdog("probe", Reconciled(proxy))
PortProbed   == Watchdog("probe", IF PortAlive THEN Reconciled(proxy) ELSE Reconciles("clear"))
BackupProbed ==
  Watchdog("backup", IF proxy.installed # 0 THEN Reconciles("clear") ELSE Reconciled(proxy))

\* The kernel that runs now is not the one the reconcile looked at.
OutOfDate == proxy.port # runner.process

\* The setting after the clear of a reconcile.
TakenBack(ok) == [Reconciled(ClearedProxy(ok)) EXCEPT
                    !.lost = @ \/ (ok /\ runner.proxyTaken /\ OutOfDate)]

\* Mutant: the runner is not told that the proxy was taken back.
WatchdogClearedAlone ==
  /\ Event
  /\ proxy.reconcile = "clear"
  /\ \E ok \in BOOLEAN : Cleared(ok) /\ proxy' = TakenBack(ok)
  /\ UNCHANGED <<app, runner, task, kernel, tick>>

\* The clear completes; only a success makes the runner forget the take-over.
WatchdogCleared ==
  /\ Event
  /\ proxy.reconcile = "clear"
  /\ \E ok \in BOOLEAN :
       /\ Cleared(ok)
       /\ proxy' = TakenBack(ok)
       /\ runner' = IF ok THEN Release(runner) ELSE runner
  /\ UNCHANGED <<app, task, kernel, tick>>

-----------------------------------------------------------------------------
UserStep == \/ ToggleConnection \/ CancelConnect \/ SetActiveProfile
            \/ SetProfileCredentials \/ RemoveProfile \/ ImportConf

TaskStep(t) ==
  \/ AwaitPrevious(t) \/ ConnectReturned(t) \/ StartTunnel(t)
  \/ IndexLoaded(t) \/ PortsAllocated(t) \/ HostBound(t) \/ HostStarted(t)
  \/ Spawned(t) \/ SpawnThrows(t) \/ ApiAnswered(t) \/ ProxySet(t) \/ GatePassed(t)
  \/ ProxyReleased(t) \/ HostStopped(t) \/ ProxyCleared(t) \/ KernelGone(t) \/ ExitCleared(t)

RecoveryStep == \/ \E k \in Runs : KernelCrashes(k) \/ ExitCallback(k)
                \/ TimerFires \/ TickStarts \/ TickHealthy \/ TickUnhealthy

WatchdogStep == ReconcileStarts \/ PortProbed \/ BackupProbed \/ WatchdogCleared

Next == UserStep \/ (\E t \in Tasks : TaskStep(t)) \/ RecoveryStep \/ WatchdogStep

Spec == Init /\ [][Next]_vars

-----------------------------------------------------------------------------
(***************************************************************************)
(* Fairness.  Every await of a task is answered: the sockets, the platform *)
(* calls, the API poll (12 s), the kernel exit (3 s) and the readiness     *)
(* gate (20 s) all return or time out.  An exited kernel is reported, an   *)
(* armed timer fires, a running watchdog reconciles every 5 s.  The user,  *)
(* crashes and health verdicts are never forced.                           *)
(***************************************************************************)
Fairness ==
  /\ \A t \in Tasks : WF_vars(TaskStep(t))
  /\ \A k \in Runs : WF_vars(ExitCallback(k))
  /\ WF_vars(TimerFires)
  /\ WF_vars(WatchdogStep)

FairSpec == Spec /\ Fairness

-----------------------------------------------------------------------------
(***************************************************************************)
(* Properties.                                                             *)
(***************************************************************************)
\* Nothing is left to run on its own: the state the user is left with.
Settled ==
  /\ \A t \in Tasks : At(t, "free")
  /\ ~runner.timer
  /\ \A k \in Runs : kernel[k].st # "exited"
  /\ proxy.reconcile = "idle"

Alive(k) == k # 0 /\ kernel[k].st = "live"

\* Once the user has hung up, no late answer of any run, exit callback, timer or
\* health restart moves the status anywhere but to disconnected, until the user
\* dials again.  (The aborted() tests of _startTunnel, the _userDisconnect flag.)
NoRevival ==
  [][runner.userDisconnect /\ runner'.userDisconnect
       => app'.status \in {app.status, "disconnected"}]_vars

\* AppState keeps its rounds apart: at most one call of the core's connect is
\* running, however fast the user dials and cancels.  (_inFlightConnect.)
ConnectsSerialized ==
  \A t, u \in Tasks :
    /\ task[t].kind = "connect" /\ ~At(t, "await_prev")
    /\ task[u].kind = "connect" /\ ~At(u, "await_prev")
    => t = u

\* The status agrees with the stored intent: a user who does not want a connection
\* is disconnected, or a hang-up is still being carried out.  (_wantConnected.)
IntentHonoured ==
  ~app.want => \/ app.status = "disconnected"
               \/ \E t \in Tasks : task[t].kind = "disconnect"

\* A hang-up leaves no reconnect armed, although exit callbacks may still be
\* waiting for the proxy when it happens.  (_scheduleReconnect, CrashRecovery.)
NoTimerAfterHangUp == runner.timer => ~runner.userDisconnect

\* When everything has run its course the ring is not left turning.
NotStuck == Settled => app.status \in {"connected", "disconnected"}

\* "Connected" means that a kernel runs and that the system proxy points to it.  One way
\* to lose the setting is left: a reconcile that had looked at an earlier kernel clears it
\* after the take-over, and then the runner knows.  (_proxyTakenOver, the watchdog's
\* onRestored; the aborted() test after the readiness gate.)
ConnectedIsWired ==
  Settled /\ app.status = "connected"
    => /\ Alive(runner.process)
       /\ proxy.installed = IF runner.proxyTaken THEN runner.process ELSE 0
       /\ runner.proxyTaken \/ proxy.lost

\* The watchdog never takes back a proxy that points to a live kernel.
WatchdogSparesLive ==
  [][proxy.reconcile = "clear" /\ Alive(proxy.installed)
       => proxy'.reconcile = "clear" \/ proxy'.installed = proxy.installed]_vars

\* The tunnel that is up is the one of the profile the user sees as active.
ProfileAgreement ==
  Settled /\ app.status = "connected" /\ Alive(runner.process)
    => kernel[runner.process].prof = app.active

\* Every running kernel is the one the runner knows and can still stop.
NoOrphanKernel == \A k \in Runs : Alive(k) => k = runner.process

\* "Disconnected" means that no kernel runs and the system proxy is the user's.
DisconnectedIsClean ==
  Settled /\ app.status = "disconnected" => ~Alive(runner.process) /\ proxy.installed = 0

\* A system proxy that points to a dead kernel has a watchdog that will find it.
NoStrandedProxy ==
  Settled /\ proxy.installed # 0 /\ ~Alive(proxy.installed) => proxy.watchdog

\* After a hang-up the loopback rule-set host is down as well.
NoHostAfterHangUp == Settled /\ app.status = "disconnected" => runner.host = "down"

\* A hang-up reaches "disconnected" unless the user dials again.
HangUpCompletes ==
  runner.userDisconnect ~> (app.status = "disconnected" \/ ~runner.userDisconnect)

\* The ring never turns for ever: dialling ends connected or disconnected.
DialingEnds ==
  app.status \in {"connecting", "warmingUp"} ~> app.status \in {"connected", "disconnected"}

\* A system proxy left pointing to a dead kernel is put right without the user.
DeadProxyRestored ==
  (proxy.installed # 0 /\ ~Alive(proxy.installed))
    ~> (proxy.installed = 0 \/ Alive(proxy.installed))

\* The ring of the detailed model, read as the abstract status machine.
Ring == INSTANCE TunnelStatus WITH want <- app.want, status <- app.status

\* The lifecycle implements the ring: the status climbs in order, and only for a
\* user who wants a connection.
RingSpec == Ring!Spec
=============================================================================
