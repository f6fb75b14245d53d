--------------------------- MODULE WindowsRunner ---------------------------
(***************************************************************************)
(* The Windows process: start, tray, the ways to end, and the kernel it    *)
(* runs, with the system proxy (WindowsProxy) and the icon (WindowsTray).  *)
(*                                                                         *)
(* Messages of the window and calls from Dart are handled on one thread,   *)
(* each to its end; Dart itself runs beside it and starts and loses the    *)
(* kernel at any time.  Of Dart there is what the proxy depends on: the    *)
(* recovery at the start, and whether the watchdog runs.  The process may  *)
(* be killed at any time.                                                  *)
(***************************************************************************)
EXTENDS WindowsProxy, WindowsTray

CONSTANTS
  LateCalls,  \* calls of Dart that may still be handled after the cleanup
  MaxKills    \* bound on how often the process is killed

ASSUME WindowsRunnerAssumption ==
  LateCalls \subseteq {"set", "clear"} /\ MaxKills \in Nat

VARIABLES
  life,         \* where the process is
  job,          \* the job object that takes the kernel along exists
  kernel,       \* "none", "child" of this process, or "orphan" of an earlier one
  cleanupDone,  \* g_cleanup_done
  left,         \* history: <<reg, effective>> as the first cleanup left them, or <<>>
  kills,        \* how often it may still be killed
  recovery,     \* Dart's recoverIfNeeded of this process is still to come
  watchdog      \* Dart's watchdog runs

Dart == <<recovery, watchdog>>
Process == <<life, job, kernel, cleanupDone, left, kills>>

vars == <<proxyVars, trayVars, Process, Dart>>

Lives == {"off", "starting", "up", "ending", "destroying", "stopped"}

TypeOK ==
  /\ ProxyTypeOK /\ TrayTypeOK
  /\ life \in Lives
  /\ job \in BOOLEAN
  /\ kernel \in {"none", "child", "orphan"}
  /\ cleanupDone \in BOOLEAN
  /\ left \in (Settings \X Servers) \cup {<<>>}
  /\ kills \in 0..MaxKills
  /\ recovery \in BOOLEAN /\ watchdog \in BOOLEAN

Init ==
  /\ ProxyInit /\ TrayInit
  /\ life = "off"
  /\ job = FALSE
  /\ kernel = "none"
  /\ cleanupDone = FALSE
  /\ left = <<>>
  /\ kills = MaxKills
  /\ recovery = FALSE /\ watchdog = FALSE

-----------------------------------------------------------------------------
(***************************************************************************)
(* Start                                                                   *)
(***************************************************************************)
\* wWinMain takes the mutex; its name is free.
Launch ==
  /\ life = "off"
  /\ life' = "starting" /\ left' = <<>>
  /\ UNCHANGED <<proxyVars, trayVars, job, kernel, cleanupDone, kills, Dart>>

\* A second start finds the mutex taken: the window that exists is shown, and the second
\* process ends.
SecondLaunch ==
  /\ life \in {"starting", "up"}
  /\ ~visible /\ visible' = TRUE
  /\ UNCHANGED <<proxyVars, tray, Process, Dart>>

\* Win32Window::Create and OnCreate: the job before the engine, the icon last.  With the
\* engine Dart starts, and is to look once for what an earlier process left (initState).
Create ==
  /\ life = "starting"
  /\ life' = "up"
  /\ job' \in BOOLEAN
  /\ InstallTrayIcon
  /\ recovery' = TRUE
  /\ UNCHANGED <<proxyVars, visible, kernel, cleanupDone, left, kills, watchdog>>

\* The window or the engine cannot be made: wWinMain returns, without any cleanup.
CreateFails ==
  /\ life = "starting"
  /\ life' = "off" /\ visible' = FALSE
  /\ UNCHANGED <<proxyVars, tray, job, kernel, cleanupDone, left, kills, Dart>>

\* The first frame.
FirstFrame ==
  /\ life = "up" /\ ~visible /\ visible' = TRUE
  /\ UNCHANGED <<proxyVars, tray, Process, Dart>>

-----------------------------------------------------------------------------
(***************************************************************************)
(* Dart                                                                    *)
(***************************************************************************)
\* Dart's thread runs from the engine's start to its stop.
DartRuns == life \in {"up", "ending", "destroying"}

KernelStarts ==
  /\ DartRuns /\ kernel = "none"
  /\ kernel' = "child"
  /\ UNCHANGED <<proxyVars, trayVars, life, job, cleanupDone, left, kills, Dart>>

\* It is stopped, dies, or (an orphan) is found and ended by the next start.
KernelEnds ==
  /\ kernel = "child" \/ (kernel = "orphan" /\ DartRuns)
  /\ kernel' = "none"
  /\ UNCHANGED <<proxyVars, trayVars, life, job, cleanupDone, left, kills, Dart>>

\* A call may still come between the cleanup and the end of the engine.
MayCall(call) ==
  op = Idle /\ (life = "up" \/ (life = "destroying" /\ call \in LateCalls))

\* The kernel is ready when Dart asks; it need not be any more when the call is handled.
Set == MayCall("set") /\ Apply /\ UNCHANGED <<trayVars, Process, Dart>>

Clear(caller) ==
  /\ MayCall("clear") /\ Restore(caller)
  /\ UNCHANGED <<shuttingDown, trayVars, Process, watchdog>>

\* _stopCore, _abortCleanup, the exit callback: whatever the call returns, the watchdog is
\* stopped when it has (Proxy).
HangUp == Clear("hangUp") /\ UNCHANGED recovery

\* Mutant: the watchdog stops once it has tried.
RestoresOnce ==
  /\ watchdog /\ watchdog' = FALSE
  /\ MayCall("clear") /\ Restore("watchdog")
  /\ UNCHANGED <<shuttingDown, trayVars, Process, recovery>>

\* ProxyWatchdog._restore, on what reconcile found before it awaited; it goes on until it
\* is stopped.
Restores == watchdog /\ Clear("watchdog") /\ UNCHANGED recovery

\* What reconcile finds when it finds the truth: a note, and no kernel to go with it.
Recover == backup.saved /\ kernel # "child" /\ Restores

\* recoverIfNeeded: one attempt, and only beside a note.
RecoverAtStart ==
  /\ recovery /\ recovery' = FALSE
  /\ \/ backup.saved /\ Clear("startUp")
     \/ /\ ~backup.saved /\ MayCall("clear")
        /\ UNCHANGED <<proxyVars, trayVars, Process, watchdog>>

\* A step of the operation under way.  Dart has its result: the watchdog starts after a
\* takeover that succeeded, and stops after the restore of a hang-up.
Proxy ==
  /\ life # "off" /\ ProxyStep
  /\ watchdog' = (Applied \/ (watchdog /\ ~(op.by = "hangUp" /\ op' = Idle)))
  /\ UNCHANGED <<trayVars, Process, recovery>>

-----------------------------------------------------------------------------
(***************************************************************************)
(* End                                                                     *)
(***************************************************************************)
\* Mutant: the cleanup runs as often as it is asked for.
CleanupTwice ==
  /\ shuttingDown' = TRUE
  /\ cleanupDone' = TRUE
  /\ Restore("exit")

\* CleanupResources: once; shuttingDown is set before anything is put back.
CleanupResources ==
  /\ op = Idle
  /\ shuttingDown' = TRUE
  /\ cleanupDone' = TRUE
  /\ IF cleanupDone
     THEN UNCHANGED <<reg, backup, effective, op, original, faults>>
     ELSE Restore("exit")

\* WM_DESTROY after "Quit" in the menu of the icon.
Quit ==
  /\ life = "up" /\ tray.installed
  /\ life' = "destroying" /\ RemoveTrayIcon
  /\ CleanupResources
  /\ UNCHANGED <<visible, job, kernel, left, kills, Dart>>

\* WM_ENDSESSION: the cleanup first, then the window is destroyed.
SessionEnds ==
  /\ life = "up"
  /\ life' = "ending"
  /\ CleanupResources
  /\ UNCHANGED <<trayVars, job, kernel, left, kills, Dart>>

SessionDestroys ==
  /\ life = "ending"
  /\ life' = "destroying" /\ RemoveTrayIcon
  /\ CleanupResources
  /\ UNCHANGED <<visible, job, kernel, left, kills, Dart>>

\* The children are ended, when they can be: the last step of the cleanup.
TerminateChildProcesses ==
  /\ op.at = "terminate"
  /\ kernel' \in {kernel, IF kernel = "child" THEN "none" ELSE kernel}
  /\ op' = Idle
  /\ left' = IF left = <<>> THEN <<reg, effective>> ELSE left
  /\ UNCHANGED <<reg, backup, effective, shuttingDown, original, faults, trayVars,
                 life, job, cleanupDone, kills, Dart>>

\* OnDestroy ends the engine, and with it Dart.
EngineStops ==
  /\ life = "destroying" /\ op = Idle
  /\ life' = "stopped" /\ RemoveTrayIcon /\ visible' = FALSE
  /\ recovery' = FALSE /\ watchdog' = FALSE
  /\ UNCHANGED <<proxyVars, job, kernel, cleanupDone, left, kills>>

\* The process is gone; the job, if there is one, ends what it had started.
Gone ==
  /\ life' = "off" /\ job' = FALSE /\ cleanupDone' = FALSE
  /\ shuttingDown' = FALSE /\ op' = Idle
  /\ kernel' = IF kernel = "child" THEN IF job THEN "none" ELSE "orphan" ELSE kernel
  /\ tray' = NoTray /\ visible' = FALSE
  /\ recovery' = FALSE /\ watchdog' = FALSE
  /\ UNCHANGED <<reg, backup, effective, original, faults>>

ProcessEnds == life = "stopped" /\ Gone /\ UNCHANGED <<left, kills>>

Killed == life \notin {"off", "stopped"} /\ Gone /\ left' = <<>>
          /\ kills > 0 /\ kills' = kills - 1

-----------------------------------------------------------------------------
TrayEvent ==
  /\ life = "up" /\ op = Idle
  /\ ApplyTrayState \/ DensityChanges \/ Close \/ ShowMainWindow
  /\ UNCHANGED <<proxyVars, Process, Dart>>

Edit ==
  /\ UserEdits /\ left' = <<>>
  /\ UNCHANGED <<trayVars, life, job, kernel, cleanupDone, kills, Dart>>

Next ==
  \/ Launch \/ SecondLaunch \/ Create \/ CreateFails \/ FirstFrame
  \/ KernelStarts \/ KernelEnds \/ Set \/ HangUp \/ Restores \/ RecoverAtStart \/ Proxy
  \/ Quit \/ SessionEnds \/ SessionDestroys \/ TerminateChildProcesses
  \/ EngineStops \/ ProcessEnds \/ Killed
  \/ TrayEvent \/ Edit

Spec == Init /\ [][Next]_vars

\* The user starts the application again sooner or later, and what it has begun it goes
\* through with.  A call of Dart waits for its turn on the thread of the window, however
\* often that is busy: the one recovery of a start, and what a watchdog that runs finds
\* every five seconds.  Nothing is promised of a watchdog that was stopped.
Fairness ==
  /\ WF_vars(Launch) /\ SF_vars(Create) /\ WF_vars(Proxy)
  /\ SF_vars(RecoverAtStart) /\ SF_vars(Recover)
  /\ WF_vars(SessionDestroys) /\ WF_vars(TerminateChildProcesses)
  /\ WF_vars(EngineStops) /\ WF_vars(ProcessEnds)

FairSpec == Spec /\ Fairness

-----------------------------------------------------------------------------
Points(proxy) == Means(reg) = proxy \/ effective = proxy

\* A note that is whole holds what the user had when the loan began: it is not
\* overwritten by a later takeover, nor made from a setting that is already ours.
OriginalsKept == backup.saved /\ Whole(backup) => Noted = original

\* The loan: a setting that names the kernel always has a note beside it, whatever write
\* was refused and wherever the process was killed, and a whole note is used up only when
\* the settings are the user's again and running programs use them.  (ApplySystemProxy,
\* RestoreSystemProxy.)
Loan == INSTANCE ProxyLoan WITH
  setting <- IF Points("kernel") THEN "ours"
             ELSE IF reg = original /\ effective = Means(original) THEN "theirs" ELSE "mixed",
  note <- IF ~backup.saved THEN "none" ELSE IF Whole(backup) THEN "whole" ELSE "begun"
LoanSpec == Loan!Spec

\* What the cleanup has left stays until the application is started again: neither a
\* takeover that comes late nor a second cleanup touches the settings (g_shutting_down,
\* g_cleanup_done).
ExitIsFinal == left # <<>> /\ op = Idle => <<reg, effective>> = left

DeadEnd == Points("kernel") /\ kernel # "child"

\* Somebody will look: the watchdog, or the recovery of this start or of the next one.
Watched == life = "off" \/ recovery \/ watchdog

\* A setting that names a kernel that is gone does not stay while somebody looks: it is put
\* back although writes are refused in between, and killing the process in the middle only
\* leaves it to the next start.  Only a hang-up or a recovery at the start that is itself
\* refused a write ends the looking.  (ProxyWatchdog, recoverIfNeeded.)
GivenUp == ~op.ok /\ op.by \in {"hangUp", "startUp"}
DeadEndEnds == DeadEnd /\ Watched ~> ~DeadEnd \/ GivenUp

-----------------------------------------------------------------------------
(***************************************************************************)
(* What the code does not keep.  These are checked by configurations that  *)
(* find them violated; README.md says how.                                 *)
(***************************************************************************)
\* A setting that names the kernel has a note beside it also when a part of the note, or
\* the end of a server that was none, cannot be written.
BorrowedIsNoted == Points("kernel") => backup.saved

\* A process that leaves does not touch settings that are the user's own: a proxy the
\* application has not switched on is not its to switch off (CleanupResources,
\* RestoreSystemProxy).
UserChoiceStands == [][op.by = "exit" /\ reg = original => reg' = reg]_vars

\* A dead end ends also when a hang-up was refused a write and nobody looks any more.
EveryDeadEndEnds == DeadEnd ~> ~DeadEnd

\* Whatever a note says when it is used up, the settings are then the user's again, also
\* when the process was killed while it wrote the note (ApplySystemProxy, "Saved" first).
NoteIsEnough ==
  [][backup.saved /\ ~backup'.saved => reg = original]_vars
=============================================================================
