# A verification project for XVPN

XVPN is a split-tunnel VPN client (Flutter; Windows, Linux, Android). On the
desktop it starts a `sing-box` kernel, points the system proxy at it, watches the
tunnel, and repairs what it can. Almost nothing in it is difficult one call at a
time. What is difficult is that every step of a connection is an `await` on the
one Dart event loop, and a user, an exiting kernel, a timer, a health verdict and
a watchdog may all act while it waits; and that its native runners must put the
system's proxy back however the process ends. That is what the modules here are
about.

Paths below are relative to `src/app/lib/` unless they start with `docs/`,
`windows/` or `linux/` (both under `src/app/`).

## 1. The system

| Component | State it keeps | Operations | Hard because | Correct when |
| --- | --- | --- | --- | --- |
| Connection control, `app_state.dart` | profiles, active profile, stored intent `_wantConnected`, status, attempt token, `_inFlightConnect` | dial, hang up, cancel, toggle, switch, credentials, import, remove | commands arrive at every await of the commands before | status follows the intent; rounds do not overlap; what is up is what is shown |
| Desktop runner, `core/singbox_runner.dart` | `_process`, `_attemptSeq`, `_userDisconnect`, `_lastProfile`, ports, `_proxyTakenOver`, pid file, reconnect timer | `connect`, `_startTunnel`, `disconnect`, `_stopCore`, exit callback, `_restartCore` | eight awaits per start, five per stop, no lock between them | no late answer revives a tunnel; no kernel without an owner; "connected" means a live kernel |
| Rule-set host, `core/route_rule_set_host.dart` | listening socket, verified or not | start (bind, self-check), stop | stopped between its two awaits | not listening after a hang-up |
| Crash recovery, `core/reconnect.dart` | retries per incident and per connection | `onCoreExit`, `delayForAttempt`, `reset` | three limits with different resets | retries are bounded and back off |
| Sampling, `core/core_monitor.dart` | failure counters, last verdict, time stamps | tick, probe, publish, start, stop | a tick outlives `stop()`; two signals share one verdict | a verdict is about the tunnel that is up |
| Verdict and restart guard, `core/tunnel_health.dart` | restarts left, last restart | `evaluateTunnelHealth`, `shouldRestart`, `noteHealthy` | quota, cool-down and grace period interact | restarts only when they can help, and not in a storm |
| Proxy watchdog, `core/proxy_watchdog.dart` | running, busy | `reconcile` every 5 s | decides, awaits, then clears | a dead proxy is put right, a live one is left alone |
| System proxy, `core/system_proxy.dart` | the desktop's settings, the backup file | set, clear, `recoverIfNeeded` | several external commands, each may fail, the process may be killed between them | the user's own settings are never lost |
| Windows proxy, `windows/runner/flutter_window.cpp` | Internet Settings and the backup in the registry, what WinINET told running programs | `ApplySystemProxy`, `RestoreSystemProxy`, `ConsumeProxyBackup` | eight writes one after the other, each may be refused, the process may be killed after any of them | the setting is only borrowed, beside a note of what the user had |
| Windows runner, `windows/runner/flutter_window.cpp`, `main.cpp`, `win32_window.cpp` | window, icon and its images, job object, `g_shutting_down`, `g_cleanup_done` | start, second start, hide, quit, end of the session, destruction | four ways to end; calls of Dart still arrive after the cleanup | the exit is final; no handle of an image that is gone |
| Linux runner, `linux/runner/my_application.cc` | window, icon and its host, `quit_requested`, the fallback timer | close, tray, signals, `request_quit`, `finish_quit` | the way out is a conversation with Dart, which may not answer | the process ends; an orderly end leaves nothing behind; a hidden window can be reached |
| Start with the system, `windows/runner/auto_start.cc`, `core/auto_start.dart`, `core/system_tray.dart` | the Run value, the tick in the menu, the switch on the page | query, set, push, menu | two mirrors of one value, each told by messages that cross | both sides say the same, and what they say is true |
| Route learning, `core/auto_route.dart`, `core/route_learning.dart` | rules and evidence per domain | record evidence, promote, revoke, evict, presets | counters with different resets, evidence that arrives late | a blip changes nothing, a user's rule stands |
| DNS monitor, `core/dns_monitor.dart` | cached checks | cross-check, refresh | results arrive out of order | a verdict is not older than its question |
| Updater, `core/updater.dart`, `update_session.dart`, `update_center.dart` | staged files, session state | check, download, verify, stage, apply | cut off at any step | only a verified package is handed on |
| Subscriptions, `protocols/subscription.dart` | profiles by source | refresh | user edits during a refresh | nothing the user owns is dropped |
| Android, `core/android_vpn_core.dart`, `XvpnVpnService.kt` | service state on both sides of a channel | start, stop, revoke | events from the system at any time | both sides agree |
| Stores, ring buffers, ports, rule-set files | files and buffers | save, load, push, allocate | limits and interrupted writes | write beside, then rename |
| Screens, parsers, packaging | none, or presentation | | | not modelled |

How they interact. `AppState` calls the runner (`connect`, `disconnect`); the
runner calls back `onStatusChanged`, `onTunnelHealth`. The runner starts and stops
the monitor, the rule-set host and the watchdog; the monitor's verdict comes back
through `handleTunnelHealth` and may restart the kernel; the kernel's exit comes
back through the exit callback and may arm the reconnect timer. Runner, exit
callback, watchdog and start-up all call the one system-proxy object. Nothing but
tokens, sequence numbers and flags orders these calls. Below them, the native
runners own window, icon and (on Windows) the proxy: Dart calls them through a
method channel and is called back (`quitRequested`, `autoStartChanged`).

## 2. The modules

| Module | Models | Composition |
| --- | --- | --- |
| `TunnelLifecycle` | connection control, runner, rule-set host, watchdog, together | the core; everything that shares `_process`, the proxy and the status |
| `TunnelStatus` | what the ring promises | abstract; `TunnelLifecycle` states that it implements it |
| `CrashRecovery` | the retry policy and what drives it | the nondeterministic choice of `TunnelLifecycle!Decide`, resolved |
| `TunnelHealth` | tick, verdict, guard | the nondeterministic `TickUnhealthy` of `TunnelLifecycle`, resolved |
| `ProxyLoan` | what taking over the proxy promises on every platform | abstract; `SystemProxy` and `WindowsRunner` implement it |
| `SystemProxy` | GNOME settings and the backup | the atomic proxy calls of `TunnelLifecycle`, taken apart command by command |
| `WindowsProxy` | the same calls on Windows, write by write | no behaviour of its own: `WindowsRunner` says who calls it and when |
| `WindowsTray` | the icon, its two cached images, the handle the shell has | as `WindowsProxy` |
| `WindowsRunner` | the Windows process, its ways to end, the kernel as its child | composes `WindowsProxy` and `WindowsTray` |
| `MCWindowsRunner` | the users of the checked instances | |
| `LinuxRunner` | window, icon and the way out on Linux | a connection and a hang-up are one step of it each: they are `TunnelLifecycle` and `SystemProxy` |
| `AutoStart` | the Run value, its two mirrors, the messages between them | alone: it shares only the thread of the window |
| `RouteLearning` | the table's rule for one domain, and the evidence the monitor feeds it | alone: it meets the tunnel only through the connections the kernel opens |
| `MCRouteLearning` | the same with an observer of the dropped deliveries | |
| `MCTunnelLifecycle` | the symmetry of the profiles, for TLC | |
| `*_proofs` | theorems about the module of the same name | |

### TunnelLifecycle

An action is the code between two awaits. A call that is still running is a task
in a slot `t`; its `pc` names the await it is suspended at (`"index"`, `"ports"`,
`"bind"`, `"verify"`, `"spawn"`, `"api"`, `"set_proxy"`, `"gate"` for
`_startTunnel`; `"stop_host"`, `"stop_clear"`, `"stop_exit"` for `_stopCore`).
What the closure `aborted()` tests after an await is `Aborted(t)`. An await that
needs no I/O (`await null`, an already completed future) resumes as a microtask,
before any other event: `Event` and `Resumes` say so.

| Variable | Code |
| --- | --- |
| `app` | `AppState`: `_profiles`, `_activeProfileId`, `_wantConnected`, `_status`, `_attempt`, `_connectGeneration`, `_inFlightConnect` |
| `runner` | `SingBoxRunner`'s fields |
| `task` | the async calls in flight, with the locals they captured (token, sequence number, profile) |
| `kernel` | every kernel process spawned: live, exited (callback pending), dead |
| `proxy` | the system setting (`installed`: whose port), the watchdog, its `reconcile` and the `port` that read before its probe; `lost` is history |
| `tick` | a monitor tick in flight |
| `budget` | bounds on commands, crashes, health restarts, proxy faults |

A kernel, and the port it listens on, is named by the sequence number of the run
that spawned it: two runs do not share a port while both kernels live. Smart split
is on, so the rule-set host is used.

A reconcile of the watchdog is three awaits: it reads the port and probes it, or asks
for the backup; then it may clear. The probe is of the port read when the reconcile
began (`core/proxy_watchdog.dart`:167), whichever kernel runs by the time it ends.
`lost` remembers that the last take-over was taken back by a reconcile which had looked
at another kernel than the one that runs (`TakenBack`, `OutOfDate`).

### CrashRecovery

`OnCoreExit` is `onCoreExit` line by line; the environment decides how long a
kernel lived (`Uptimes` has one value per class the policy tells apart, and the
boundaries). An exit decides at once or waits for the system proxy first; a
waiting decision may find the user gone, or another kernel being timed by the same
stopwatch. `round` counts what happened since the user's last command and is
history only.

### TunnelHealth

A tick is one call with up to three awaits. Stopping the monitor cancels only its
timers. Time is counted in polls and a time stamp is kept as an age that stops
growing where the comparisons stop telling ages apart. The two failure counters
saturate at their thresholds for the same reason. The kernel's answers are
well-formed JSON.

### SystemProxy

`desktop` is the list of settings, written one command at a time; `backup` is the
file. A value is the number of the user's edit it stems from, or `Ours`. A command
may fail, the process may be killed between two commands. `Slots` is the number of
calls under way at once; one slot is what the code intends, two is what it allows.

### ProxyLoan

Two variables: whose the setting is, and whether a note of the user's own exists
(none, begun, whole). The note is written before the setting is used; a whole note
goes only when the setting is the user's again. On Linux the note is a file, whole
or absent. On Windows it is three registry values written one after the other, the
mark `Saved` first, so it may be begun and never finished; what that costs is
`TornNote` in section 5.

### WindowsProxy, WindowsTray, WindowsRunner

| Variable | Code |
| --- | --- |
| `reg`, `effective` | `ProxyEnable` and `ProxyServer`; what running programs use, which is what WinINET told them last |
| `backup` | the key `ProxyBackup`: `Saved`, `ProxyEnable`, `ProxyServer`, each possibly not yet written |
| `op` | where `ApplySystemProxy` or `RestoreSystemProxy` is, whether all went well (`ok`), and who called it (`by`) |
| `shuttingDown`, `cleanupDone` | `g_shutting_down`, `g_cleanup_done` |
| `tray`, `visible` | `tray_icon_`, `tray_icon_normal_`, `tray_icon_grey_`, `tray_normal_owned_`; the window |
| `life`, `job`, `kernel` | where the process is, `g_kernel_job`, the child process |
| `recovery`, `watchdog` | of Dart: `recoverIfNeeded` of this start is still to come; `ProxyWatchdog._running` |
| `original`, `left` | history: what the user had when the last loan began, or has set since; what the first cleanup left |

Messages of the window and calls of Dart are handled on one thread, each to its
end, so `op` is one operation; Dart and its kernel run beside it. A write is a step:
it succeeds, or is refused if `FaultyWrites` allows the kind and the budget lasts.
`Killed` takes the process away after any step, and with it the kernel if the job
object could be made. The cleanup is `CleanupResources`, called by the end of a
session and again by the destruction of the window that follows. Between the
cleanup and the end of the engine a call of Dart may still be handled
(`LateCalls`): the code expects the takeover (its comment at
`windows/runner/flutter_window.cpp`:27) and refuses it. Before the cleanup, calls
are `Set`, `HangUp`, `Restores` (the watchdog) and `RecoverAtStart`.

`original` changes where a loan begins and when the user edits; nothing that gives the
setting back touches it. So `ProxyLoan`'s condition for the end of a loan compares the
registry, and what running programs use, with what was there before the take-over.

The watchdog is what the code makes of it: a take-over that succeeded starts it, and
the end of a restore which a hang-up, an abandoned start or the exit callback asked for
stops it, whether or not that restore succeeded (`core/singbox_runner.dart`:722-728,
:534-535, :699-700). `recoverIfNeeded` is one attempt per start.

An image of the icon is made when it is needed and may fail to be made; the grey
one is made from the coloured one. What `CreateDesaturatedIcon` does to the pixels
is that choice. `Images` says whether the coloured one is the window's own or the
shared one of the system, which must not be destroyed; the instances take the first,
the theorem about the handle holds for both.

### LinuxRunner

`quit` holds `quit_requested`, the fallback timer and the number of requests sent to
Dart; `tray` whether the library was found, whether a host shows the icon, and
which image it shows. `dart` walks from `starting` through the hang-up (`proxy`,
`kernel`) to `quit`; any of its steps may not happen, since no fairness is assumed
of it. A signal is handled once per kind.

### AutoStart

`run` is the registry value in the classes the code tells apart. `native` and `dart`
are the two mirrors (`on`, and whether the switch can be used at all, `able`);
`toNative` and `toDart` are the two directions of the method channel, each in order.
A push (`setTrayState`) carries the mirror of Dart at the time it was sent, also when
something else in it has changed, so an old mirror may arrive after a newer answer.
While the menu is open the loop of the menu handles messages.

### RouteLearning

One domain of the table, from the first connection to a stored rule and back.

| Variable | Code |
| --- | --- |
| `rule` | the entry of `_exact`: preference, source, consecutive failures and successes, `byRate` |
| `pending`, `domestic` | `_pendingSetbacks`, `_domesticStreak` |
| `rate` | the slow streaks of `_rateEvidence`, and `_rateRetryAt` |
| `throttled` | the kinds `OutcomeThrottle` has recorded within its window |
| `probe` | `_directCandidates` and the round that took the domain off it |
| `kernel` | the way the kernel's own rules say (`base`), and the way it sends the domain (`sends`); it fetches the table with a delay |
| `open`, `late` | a direct connection, and failures whose cross-check is in flight |
| `hist` | what was observed since which event; read by the properties only |

Left out: parent domains (a rule of a suffix), the counters that only the screens
show, what a closed connection weighs (its class is the choice of an action), the
medians (a sample is its verdict), and the store with the restart of the
application. Connections through the tunnel have no open state: one may close
whenever the kernel sends the domain there. One direct connection is open at a
time; more of them only add to what `Delivered`, `Stalled` and `ClosedEarly` already
do one after the other. Age and use, which spare a rule from `evictStale`, are left
to chance. The counters saturate at the threshold they are compared with; those of
a user's rule are copied but never read, and stay 0. Both kinds of domain are checked:
one the kernel tunnels by default, and one it sends direct (`Bases`).

The history keeps two runs apart: deliveries on the rule in force, and slow samples of
each path. `trial` says that enough slow direct samples made the learned proxy rule or
were seen under it; a rule that came from setbacks and had none of them may go by
deliveries only.

## 3. The runs

`tlc -config <Cfg>.cfg <Module>.tla`; two workers, each under four minutes.

| Run | Asks | Bounds, and why they are enough |
| --- | --- | --- |
| `lifecycle_patient` | are kernel, proxy, profile and status one at rest? Does the ring climb in order? | four commands, starts that may fail at each step. The user lets a hang-up finish: without that, see section 5. |
| `lifecycle_recovery` | do rounds overlap, does the status follow the intent, is a hang-up final, does it complete, does the ring stop turning? | a user who never waits (toggle, cancel, import), one crash, one health restart, one failing proxy command, two commands: one of each actor of every race in the runner. |
| `lifecycle_watchdog` | is a dead proxy always guarded and always put right? | two crashes, so that the second meets the reconnect of the first. |
| `crash_recovery` | are the retries of a connection bounded, does reconnecting end? | the real limits (5, 2, 10); uptimes on both sides of each threshold. |
| `tunnel_health` | is the restart justified, paced, spared in the grace period, and does the problem shown go away? | thresholds of two, quota of two, three changes of the world, three commands, so that a tick spans sessions. |
| `system_proxy` | are the user's settings ever lost, is the loan the abstract one? | three settings, three takes-over, two faults, two kills, two edits: a fault and a kill inside one call and again inside its recovery. |
| `route_learning` | who may overrule whom, on how much unbroken evidence, and does a domain that should change sides change sides? | thresholds 2, 2, 2 and 1, the least at which a streak can be broken; both kinds of domain; one failure in flight; one step of the user, of other domains or of a new session, which is what it takes to change the rule under late evidence. |
| `windows_runner` | is what the user had kept, is an exit final, is the loan the abstract one, does a dead proxy go while somebody looks, is the handle live? | a user with a proxy and one without; one refused write and one kill, so that a refusal and a kill meet in one operation and in the recovery after it; late takeovers. |
| `linux_runner` | does the process end, is an orderly end clean, can a hidden window be reached? | none needed: every variable is finite. |
| `auto_start` | do both sides agree, do they stop correcting one another? | two toggles, two menus, one edit from outside, one push of an old mirror: two changes of either side crossing two of the other. |

Violation runs, each a disagreement between the code and its own text:

| Run | What happens |
| --- | --- |
| `own_proxy_switched_off` | Start, quit. `CleanupResources` calls `RestoreSystemProxy` whether or not anything was taken over, and without a backup that sets `ProxyEnable` to 0: a user with a proxy of his own is left with it switched off. `core/system_proxy.dart` (the comment of `hasBackup`) says that this must not be done, and why nobody would find it. |
| `auto_start_shown` | Switch on. What is written is the quoted path followed by `--autostart`; what is recognised is the quoted path alone. So the program is started at login and shown as not being; and `SetEnabled`, which answers whether the wish came true, is taken for the state, so that switching it off is shown as "on" until the next query. |

### Fairness

The runs with temporal properties assume weak fairness of the steps that answer an
await. Every one of them is bounded in the code: socket and platform calls return,
the API poll gives up after 12 s, the readiness gate after 20 s, the wait for a
killed kernel after 3 s, a probe after its time-out. An exited process is reported
by the operating system, an armed timer fires, a running watchdog reconciles every
5 s, the poll timer runs while the monitor is on.

`route_learning` assumes besides that the domain keeps being visited on either way
and its direct connections end, that the lookups of a round return, that the kernel
fetches its rule sets, and that 15 s pass. The premises of its liveness properties say
what the network does: every direct connection that ends stalls, or none does. Nothing
is assumed of the turn of the domain in a candidate round. A round runs every 30 s, but
takes the two newest of up to 64 waiting domains and puts back the ones that were
answered and refused, at the same end (`core/core_monitor.dart`:806-844): two such
domains hold both places for as long as they answer. `DomesticComesHome` therefore has
the turn as a premise (`NotStarved`: a domain that waits again and again is taken again
and again); that every waiting domain is taken at all, `CandidateIsAsked`, the code
does not promise.

`windows_runner` assumes that the thread of the window goes on with what it has
begun, that the user starts the application again sooner or later and that such a
start succeeds if it is tried again and again (strong fairness of `Create`), that
the one recovery of a start gets its turn (`RecoverAtStart`), and that a watchdog which
runs asks again while there is a note without a kernel (strong fairness of `Recover`:
the window's thread is busy in between). Nothing is assumed of a watchdog that was
stopped: `DeadEndEnds` is about a dead end that somebody looks at (`Watched`: the
watchdog runs, or the recovery of this start or of the next is to come), and allows
for a hang-up or a recovery that was itself refused a write (`GivenUp`). `linux_runner`
assumes nothing but that the timer of the main loop fires. `auto_start` assumes that
messages arrive and a menu does not stay open for ever.

The user, crashes, kills, link changes and faults are never forced. Deadlock is not
checked where the environment's budget may run out and the system may really rest.

## 4. What is proved

Every safety invariant, action property and refinement that a passing run checks is
also a theorem, some under conditions named with them, for every set of profiles,
every number of slots and every budget (`*_proofs`, TLAPS):

* `TunnelLifecycle`: `TypeCorrect`, `ConnectsAlwaysSerialized`,
  `IntentAlwaysHonoured`, `NeverRevived`, `NeverTimerAfterHangUp`.
  Neither of the last four is inductive. Serialization needs that a slot past its
  wait is the one `inflight` names. The intent needs that a task's token is either
  cancelled or the current attempt, and that a user without the intent has no
  current attempt; only then does `aborted()` stop every late answer. The
  type of `seq` needs that each run was paid for by a command, a crash or a restart.
* `TunnelLifecycle` at rest (the second half of its module), under the conditions named
  in each theorem; see below.
* `CrashRecovery`: `RetriesAlwaysBounded`, `RapidRetriesAlwaysBounded`, for every
  policy. The invariant ties the history to the counters: the retries the user sees
  never exceed `total`, the rapid ones never exceed `attempts`, whatever uptime a
  late decision reads.
* `TunnelHealth`, for every interval, threshold, quota and cool-down: `TypeCorrect`,
  `CooldownAlwaysKept`, `WarmupAlwaysSpared`, `LocalOutageAlwaysSpared`,
  `SampleAlwaysSparesVerdict`, the last four about steps. The cool-down needs that the
  history's age of the last restart is the one the guard keeps (`HistoryInv`), which
  `noteHealthy` and a new session do not touch. The three about restarts rest on one
  lemma: a step that restarts the kernel is a tick that publishes a verdict asking for
  it, and the guard let it through.
* `SystemProxy`: `OriginalsAlwaysSurvive`, `AlwaysHandedBack`, for calls that run
  one at a time and a user who does not edit beside a backup; both conditions are
  needed, see `ProxyCallsOverlap` and `StaleBackup`. The invariant says
  which settings may be ours at each step of each call: the ones before `at` while
  applying, the ones from `at` while restoring, and that a call in `capture` has
  read exactly what is there. `LoanImplemented` is the refinement of `ProxyLoan`
  under the same conditions: it needs besides that a restore has put back every
  setting before `at`, so that the backup goes only when nothing is ours.
* `WindowsRunner`: `TypeCorrect` and `HandleAlwaysLive` for every instance.
  `OriginalsAlwaysKept` and `LoanImplemented` where only the settings may be refused
  (`FaultyWrites \subseteq {"settings"}`); that the note itself is writable is a
  condition the code never tests, see `NoteRefused`. The end of a loan is compared with
  `original`, which no step of a restore sets: a restore that writes anything else than
  the note says is not a `Close` of `ProxyLoan`. The invariant says of each
  point of the two operations which of the values are written by then: what a
  half-written note already agrees with, what a restore has put back if nothing was
  refused (`op.ok`), and that the settings are untouched until the note is whole
  or was there before. `ExitAlwaysFinal` where late takeovers are the only late
  calls: after the cleanup `g_shutting_down` is set and no operation is under way
  that it did not start.
* `LinuxRunner`: `TypeCorrect`, `AlwaysAskedOnce` (requests are counted once
  `quit_requested` is set), `FinishedAlwaysClean` (a Dart at `quit` is past both
  steps, or never began a connection), `HiddenAlwaysReachable` while the host of the
  icon does not go.
* `AutoStart`: `TypeCorrect` and `AlwaysAgree`, for any number of toggles, menus,
  edits and pushes and queues of any length. "Equal when quiet" is not inductive.
  The invariant follows the last push on its way, which shows what Dart holds; where
  there is none the runner holds it too, unless it has changed its mirror since, and
  then the last notification on its way says so.
* `RouteLearning`, for all thresholds and budgets: `TypeCorrect`,
  `UserRuleAlwaysStands`, `InferenceAlwaysYields`, `AnswersAlwaysUnbroken`,
  `PromotionAlwaysNeedsEvidence`, `ReleaseAlwaysNeedsDeliveries`. The invariant
  `Counted` says that each counter is at most what was observed since the event that
  resets it: `domestic` never exceeds the answers since the last setback, the
  successes of a rule of the program's never exceed the deliveries on it since the last
  setback, failures and pending setbacks never exceed the unrefuted setbacks, the slow
  streaks never exceed the runs of slow samples, and a rule that counts as one of rate
  has seen a whole run of slow direct samples. The one about setbacks
  holds only while no rule of another origin came between (`hist.other`): see
  `StalePending` in section 5. `ReleaseNeedsDeliveries` is about every learned proxy
  rule and does not ask what the rule counts as at the moment it goes; what it leaves
  open, that a rule made by setbacks becomes one of rate and goes as one, is
  `FailureRuleReleased` there.

### The lifecycle at rest

What "connected", "disconnected" and "active profile" promise does not hold for every
behaviour of `Spec`. Each theorem therefore names, as a condition on the constants,
what it excludes, and nothing is excluded that need not be: with any one of the
conditions lifted alone, TLC finds a violation on the instance of `lifecycle_patient`
or a smaller one. Section 5 has most of the traces.

| Theorem | Excludes | For instance |
| --- | --- | --- |
| `NoKernelOrphaned` | kernels that exit by themselves, health restarts (`Calm`) | `OrphanAfterRestart` |
| `RingImplemented` | the same, and a user who gives a command other than cancel while a hang-up or, once disconnected, anything at all is under way (`Patience`) | a kernel that exits while the proxy is being set: the ring goes from disconnected to warming up |
| `ConnectedAlwaysWired` | the same, and failing proxy commands (`NoProxyFaults`) | `CrashDuringGate`; a take-over that fails half-way |
| `DisconnectedAlwaysClean` | as the one before | `LateDisconnected`, `ClearFailsOnHangUp` |
| `ProfilesAlwaysAgree` | as `RingImplemented`, and imports and profiles without credentials (`AllDialled`) | `HealthRestartVsSwitch`, `ImportWhileUp`, the last paragraph of section 5 |
| `NeverStranded` | failing proxy commands only | `ClearFailsOnHangUp`, `PartialSetThenHangUp` |

Under `Calm` the user may still do anything at any await, and every start may fail at
every step where it can; under `NeverStranded` crashes, reconnects and restarts are
unbounded too.

The argument. `CalmInv` holds for every user: a call in flight is a dial or a hang-up;
a round that was not cancelled carries the current attempt (`TokensCurrent`), and while
a round runs for a user who wants a connection there is a current attempt
(`AttemptHeld`); past the entry of `_startTunnel` a round is the newest run
(`SeqCurrent`); and from the end of `_stopCore` to the spawn nothing of an older run is
left (`BuildsAlone`). Only together do they show that a spawn never overwrites a live
kernel (`KernelKnown`). `RestInv` is for the patient user. "Connected" is not inductive
as "a kernel runs": between the cancel of a round and the dial that replaces it there
is none, so the invariant is that a kernel runs or the next dial is on its way
(`Serving`, `Dials`). A hang-up likewise: whatever is still there for a user who wants
nothing is in the hands of a call that will take it down (`WindsDown`). `Climbs` ties
the status to the await a round is suspended at, which is what the refinement of the
ring needs. `ProxyOwned` and `ProfilesDialled` then say whose the setting and the
kernel are. That a settled "connected" also has the take-over (`Wired`) is about the
watchdog: a kernel that was spawned and is no longer alive does not come back
(`RunsFresh`), so a reconcile which waits to clear has looked at a kernel that is not
the one that runs (`ProbeKnows`); its clear is therefore the named exception, `lost`,
and every other clear is followed by a dial or by the end of the wish. This holds of
kernels that are stopped; one that exits by itself in the readiness gate leaves
"connected" without a kernel (`CrashDuringGate`), which is why `Calm` stays. The proofs of the steps share one set of lemmas about what a step does to
the slot of its task (`Moves`, `Halts`, `Ends`, `Frees`).

TLC checked every one of these invariants, under the same conditions, before it was
proved. Assumptions on the constants are the ones named in the modules
(`ProfileAssumption`, `PolicyAssumption`, `HealthAssumption`, `ProxyAssumption`,
`ThresholdAssumption`, ...); TLC evaluates them in every run.

Only model-checked: everything under fairness (`HangUpCompletes`, `DialingEnds`,
`DeadProxyRestored`, `ReconnectingEnds`, `ProblemClears`, `RecoveredAtStart`,
`BrokenDirectEscapes`, `DomesticComesHome`, `DeadEndEnds`, `FallsQuiet`, `QuitEnds`):
liveness and ENABLED are out of the prover's reach. `BackoffDoubles` of `CrashRecovery`
is stated and neither proved nor run: it needs the powers of two, an induction.

## 5. What the code does not have

These properties are stated beside the others and do not hold. The configurations
show it; TLC prints the trace. They are not among the listed runs. "With" means: in
place of the property that configuration checks last.

| Configuration, module | Property | Trace |
| --- | --- | --- |
| `CrashDuringGate`, `MCTunnelLifecycle` | `ConnectedIsWired` | The kernel exits while the start waits in the readiness gate. The exit callback clears the proxy and gives up or arms the timer; then the gate ends, only `aborted()` is asked, and the tunnel is announced as connected without a kernel. |
| `LateDisconnected`, `MCTunnelLifecycle` | `DisconnectedIsClean` | Hang up, dial at once: the hang-up waits for the old kernel (3 s), the dial comes up, then the hang-up announces "disconnected". |
| `HealthRestartVsSwitch`, `MCTunnelLifecycle` | `ProfileAgreement` | `_restartCore` captured the profile before its await; a switch dials the new one; the restart takes the newer sequence number and brings the old one up. |
| `ImportWhileUp`, `MCTunnelLifecycle` | `ProfileAgreement` | Importing while connected selects the new profile and keeps the old tunnel. |
| `ClearFailsOnHangUp`, `MCTunnelLifecycle` | `NoStrandedProxy` | The restore fails during a hang-up; the runner forgets the take-over and stops the watchdog. |
| `HostLeftListening`, `MCTunnelLifecycle` | `NoHostAfterHangUp` | A cancel between the bind and the self-check of the rule-set host. |
| `WatchdogClearsFresh`, `MCTunnelLifecycle` | `WatchdogSparesLive` | The watchdog probed the old kernel's port, found it gone, and clears the proxy of the new one. The runner is told, so it shows at rest only as the exception of `ConnectedIsWired`: connected, without a system proxy. |
| `OrphanAfterRestart`, `MCTunnelLifecycle` | `NoOrphanKernel` | A health restart and a dial are both past their `_stopCore`; both spawn, the second registration overwrites the first, and the first kernel runs on unknown to anyone. |
| `PartialSetThenHangUp`, `MCTunnelLifecycle` | `NoStrandedProxy` | A take-over fails half-way; nobody remembers that part of it was written; the hang-up skips the restore and the watchdog is off. |
| `VerdictAfterHangUp`, `TunnelHealth` | `NoVerdictWhileDown` | A tick in flight publishes after the hang-up. |
| `RestartDuringStart`, `TunnelHealth` | `StartSpared` | A tick of the last session restarts the kernel of the next. |
| `HealthyWhileFailing`, `TunnelHealth` | `HealthyIsHealthy` | The API answers again and clears the verdict of the probes. |
| `TunnelLeftDown`, `TunnelHealth` | `TunnelDownIsActedOn` | A verdict is handed on only when it changes. Refused once during the cool-down, a restart is never asked for again while the tunnel stays down. |
| `ProxyCallsOverlap`, `SystemProxy` | `OriginalsSurvive` | A clear beside a set deletes the backup while the set still writes. |
| `StaleBackup`, `SystemProxy` | `HandedBack` | A backup left by a failed set outlives the user's next edit. |
| `TornNote`, `MCWindowsRunner` | `NoteIsEnough` | Killed between the mark `Saved` and the two values of the note. The settings are still the user's; but the next start finds the mark, reads the missing values as 0 and the empty string, and writes that over them. |
| `WindowsRunner` with `EveryDeadEndEnds`, `MCWindowsRunner` | `EveryDeadEndEnds` | A takeover is refused `ProxyEnable` but reaches WinINET: running programs use the kernel, `ApplySystemProxy` returns false, so the watchdog never starts, and when the kernel goes nobody looks until the application is started again, which nothing forces while it runs. A restore that is refused a write during a hang-up ends the same way, since the watchdog is stopped all the same (TLC shows it when `GivenUp` is left out of `DeadEndEnds`). |
| `NoteRefused`, `MCWindowsRunner` | `BorrowedIsNoted` | The mark cannot be written, which nobody looks at: the proxy is taken over without a note. |
| `HostLeavesHidden`, `LinuxRunner` | `HiddenIsReachable` | The host of the icon is asked for when the window is closed; it goes afterwards, and the process has neither window nor icon. |
| `WishForgotten`, `LinuxRunner` | `WishSurvivesQuit` | Quitting hangs up with `AppState.disconnect`, which also stores that the user does not want a connection: after a log-out the next start does not connect again, on Linux; on Windows, where the runner ends the kernel itself, it does. |
| `FlakyPagePromotes`, `MCRouteLearning` | `DeliveryRefutes` | Failures are not throttled, deliveries are. The first delivery within 15 s clears what was pending; the ones after it are dropped, and three failures between them move the domain into the tunnel. `docs/RULES.md` says that one delivery clears them. |
| `FailureRuleReleased`, `MCRouteLearning` | `FailureRuleKept` | Two slow direct deliveries, then a failure that a poisoned DNS answer makes conclusive: the rule comes from that setback. A direct connection opened before delivers slowly, and the rule becomes one of rate without a look at what it was (`core/auto_route.dart`:810-839). Slow samples of the tunnel then give it up (:794-799) after one delivery of three. The comment of `byRate` (:192-196) says that must never happen. |
| the same, with `BackedRuleKept` | `BackedRuleKept` | The other order: a rule learned for slowness goes on counting setbacks of connections still open; a slow tunnel then gives it up, although by now as many setbacks speak for it as it takes to learn it. |
| `ProxyRuleNeverUnlearned` with `CandidateIsAsked`, `RouteLearning` | `CandidateIsAsked` | A candidate waits and rounds pass it by: a round takes the two newest, and the ones it asked come back as the newest. |
| `ProxyRuleNeverUnlearned`, `RouteLearning` | `RecoveredDirectReturns` | Once the kernel follows a learned proxy rule there are no direct connections, so nothing can observe that the direct way has recovered; domestic answers do not count against such a rule. |
| `StalePending`, `RouteLearning` | `PendingIsConsecutive` | Pending setbacks stay while a rule of the user or of the white list is in force and delivers; when that rule goes they count on. |

Further cases the modules contain, each one change of a constant away: with
`LateCalls = {"set", "clear"}` the exit is not final (a late `clearSystemProxy` has no
guard of its own and, without a note by then, switches the proxy off); with
`FaultyWrites = {"delete"}` a user whose server was none keeps the kernel's in the
registry, without a note; `WM_CLOSE` hides the window also when the icon could not
be added, and then only a second start of the program shows it again; with a profile in
`NeedsCredentials`, selecting it while connected only reports that credentials are
missing, so that the old tunnel stays up under the new profile's name.

## 6. Plan

Done: `TunnelLifecycle`, `TunnelStatus`, `CrashRecovery`, `TunnelHealth`,
`SystemProxy`, `RouteLearning`, then the native runners: `ProxyLoan`, `WindowsProxy`,
`WindowsTray`, `WindowsRunner`, `LinuxRunner`, `AutoStart`, and the proofs above.
Left, in this order:

1. `RouteTable`: several domains: a rule of a suffix, match against the order of the
   generated rules, capacity, the stored table and the restart of the application.
2. The application's own death in `TunnelLifecycle` (pid file, restoring the
   connection), and `dispose()`.
3. `Updater` (check, download, verify, stage, apply; cancellation at every await).
4. `AndroidCore`: the two sides of the method channel.
5. `DnsMonitor`, subscriptions, the KDE variant of `SystemProxy`, ring buffer and
   port allocator as operators against a reference.

## 7. Not modelled

Parsers, generation of the kernel's configuration, screens, packaging: pure
functions of their input or presentation. The kernel, the desktop's commands, the
clock and the network are the environment; they appear as nondeterministic answers
with the outcomes the code distinguishes.

Of the native runners: geometry (centring, hit testing, move and resize, densities
of the window itself), the theme, the texts of icon and menu, the notification when
the window is hidden, the mirror of the maximised state, and console and command
line. WinINET is known only by its calls; `effective` is what those calls are for.
On Windows the mutex is taken to be made (when `CreateMutexW` fails, two instances
may run), and a second start that falls between a process's last message and its
end is not modelled. Linux has no guard against a second instance at all
(`G_APPLICATION_NON_UNIQUE`); what two instances do to one proxy is what
`windows/runner/main.cpp` describes at its mutex, and is not modelled. A different
signal than the first is swallowed on Linux while the quitting goes on: the comment
of `terminate_signal_cb` holds for two signals of one kind. A user who dials during
the hang-up of the quitting is `LateDisconnected` of `TunnelLifecycle`, not a step of
`LinuxRunner`.

The other components of section 1 are in the plan.
