---------------------------- MODULE LinuxRunner ----------------------------
(***************************************************************************)
(* The Linux process: its window, its icon in the panel, and the way out.  *)
(*                                                                         *)
(* Closing the window hides it, provided that somebody shows the icon; the *)
(* icon's host is another program, which comes and goes.  To quit, the     *)
(* runner asks Dart to put the system proxy back and to end the kernel;    *)
(* Dart answers with quitNow, or a timer ends the process without it.      *)
(*                                                                         *)
(* What connecting and hanging up involve is TunnelLifecycle's, what the   *)
(* proxy involves is SystemProxy's; here each is one step.                 *)
(***************************************************************************)
EXTENDS Naturals

CONSTANT HostLeaves  \* may the host of the icon go while the window is hidden?

ASSUME LinuxRunnerAssumption == HostLeaves \in BOOLEAN

VARIABLES
  life,    \* "running", or how the process ended
  window,  \* "new" until the first frame, then "shown" or "hidden"
  quit,    \* [requested, timer, asked]: quit_requested, quit_fallback_id, messages to Dart
  tray,    \* [indicator, host, grey, icon]
  armed,   \* the signals that are still handled
  dart,    \* where Dart is
  tunnel,  \* [kernel, proxy, failed]: what must not be left behind; a clear has failed
  want,    \* the wish to be connected, as it is stored
  wished   \* history: the wish as the user last stated it

vars == <<life, window, quit, tray, armed, dart, tunnel, want, wished>>

Signals == {"TERM", "INT"}

TypeOK ==
  /\ life \in {"running", "finished", "cutOff", "killed"}
  /\ window \in {"new", "shown", "hidden"}
  /\ quit \in [requested : BOOLEAN, timer : BOOLEAN, asked : Nat]
  /\ tray \in [indicator : BOOLEAN, host : BOOLEAN, grey : BOOLEAN, icon : {"normal", "grey"}]
  /\ armed \in SUBSET Signals
  /\ dart \in {"starting", "listening", "ready", "proxy", "kernel", "quit", "over"}
  /\ tunnel \in [kernel : BOOLEAN, proxy : BOOLEAN, failed : BOOLEAN]
  /\ want \in BOOLEAN /\ wished \in BOOLEAN

\* setup_tray: the library may be missing, nobody may show the icon, and a grey image may
\* not be had (prepare_tray_icons).
SetUp == [indicator : BOOLEAN, host : BOOLEAN, grey : BOOLEAN, icon : {"normal"}]

\* After activate.
Init ==
  /\ life = "running"
  /\ window = "new"
  /\ quit = [requested |-> FALSE, timer |-> FALSE, asked |-> 0]
  /\ tray \in SetUp
  /\ armed = Signals
  /\ dart = "starting"
  /\ tunnel = [kernel |-> FALSE, proxy |-> FALSE, failed |-> FALSE]
  /\ want \in BOOLEAN /\ wished = want

Running == life = "running"

-----------------------------------------------------------------------------
(***************************************************************************)
(* Window and icon                                                         *)
(***************************************************************************)
\* Mutant: the library is there, so the icon is taken to be shown.
LibraryIsEnough == tray.indicator

\* tray_is_usable: the indicator exists, and some program shows it.
TrayIsUsable == tray.indicator /\ tray.host

FirstFrame ==
  /\ Running /\ window = "new"
  /\ window' = "shown"
  /\ UNCHANGED <<life, quit, tray, armed, dart, tunnel, want, wished>>

\* Mutant: Dart is trusted to answer.
RequestTrusting ==
  quit' = IF quit.requested THEN quit
          ELSE [quit EXCEPT !.requested = TRUE, !.asked = @ + 1]

\* request_quit: once; Dart is asked, and a timer set in case it does not answer.
RequestQuit ==
  quit' = IF quit.requested THEN quit
          ELSE [quit EXCEPT !.requested = TRUE, !.timer = TRUE, !.asked = @ + 1]

\* window_delete_event_cb.
Close ==
  /\ Running /\ window = "shown"
  /\ window' = "hidden"
  /\ IF TrayIsUsable THEN UNCHANGED quit ELSE RequestQuit
  /\ UNCHANGED <<life, tray, armed, dart, tunnel, want, wished>>

\* tray_show_cb and tray_update_cb.
TrayShow ==
  /\ Running /\ tray.indicator /\ tray.host /\ window = "hidden"
  /\ window' = "shown"
  /\ UNCHANGED <<life, quit, tray, armed, dart, tunnel, want, wished>>

TrayQuit ==
  /\ Running /\ tray.indicator /\ tray.host
  /\ RequestQuit
  /\ UNCHANGED <<life, window, tray, armed, dart, tunnel, want, wished>>

\* The panel is started, or ends.
HostChanges ==
  /\ Running
  /\ \E host \in BOOLEAN :
       /\ host \/ HostLeaves \/ window # "hidden"
       /\ tray' = [tray EXCEPT !.host = host]
  /\ UNCHANGED <<life, window, quit, armed, dart, tunnel, want, wished>>

\* setTrayState: coloured when connected; without a grey image, coloured.
ApplyTrayState ==
  /\ Running /\ dart # "starting" /\ tray.indicator
  /\ tray' = [tray EXCEPT !.icon = IF tunnel.kernel \/ ~tray.grey THEN "normal" ELSE "grey"]
  /\ UNCHANGED <<life, window, quit, armed, dart, tunnel, want, wished>>

\* The first signal of each kind asks to quit; the next one ends the process.
Signal(s) ==
  /\ Running
  /\ IF s \in armed
     THEN armed' = armed \ {s} /\ RequestQuit /\ UNCHANGED life
     ELSE life' = "killed" /\ UNCHANGED <<armed, quit>>
  /\ UNCHANGED <<window, tray, dart, tunnel, want, wished>>

-----------------------------------------------------------------------------
(***************************************************************************)
(* Dart                                                                    *)
(***************************************************************************)
\* WindowControls.listen; then initState sets what to do when asked to quit.
DartStarts ==
  /\ Running /\ dart \in {"starting", "listening"}
  /\ dart' = IF dart = "starting" THEN "listening" ELSE "ready"
  /\ UNCHANGED <<life, window, quit, tray, armed, tunnel, want, wished>>

\* The user connects or hangs up in the window, until Dart hears of the quitting.  (What
\* a dial beside a hang-up does is TunnelLifecycle's, LateDisconnected.)
UserTurns(on) ==
  /\ Running /\ window = "shown" /\ dart = "ready"
  /\ tunnel' = [kernel |-> on, proxy |-> on, failed |-> FALSE]
  /\ want' = on /\ wished' = on
  /\ UNCHANGED <<life, window, quit, tray, armed, dart>>

\* Mutant: the answer does not wait for the hang-up.
AskedUnawaited ==
  /\ Running /\ quit.asked > 0 /\ dart \in {"listening", "ready"}
  /\ dart' = "quit" /\ want' = FALSE
  /\ UNCHANGED <<life, window, quit, tray, armed, tunnel, wished>>

\* quitRequested arrives: AppState.disconnect, which also forgets the wish.  Before
\* initState nobody has said what to do, and Dart answers at once.
Asked ==
  /\ Running /\ quit.asked > 0
  /\ \/ dart = "listening" /\ dart' = "quit" /\ UNCHANGED want
     \/ dart = "ready" /\ dart' = "proxy" /\ want' = FALSE
  /\ UNCHANGED <<life, window, quit, tray, armed, tunnel, wished>>

\* The proxy first; when it cannot be put back the user is told, and it goes on.
ProxyCleared ==
  /\ Running /\ dart = "proxy"
  /\ dart' = "kernel"
  /\ tunnel' \in {[tunnel EXCEPT !.proxy = FALSE], [tunnel EXCEPT !.failed = TRUE]}
  /\ UNCHANGED <<life, window, quit, tray, armed, want, wished>>

KernelStopped ==
  /\ Running /\ dart = "kernel"
  /\ dart' = "quit"
  /\ tunnel' = [tunnel EXCEPT !.kernel = FALSE]
  /\ UNCHANGED <<life, window, quit, tray, armed, want, wished>>

\* quitNow, finish_quit.
FinishQuit ==
  /\ Running /\ dart = "quit"
  /\ dart' = "over" /\ life' = "finished"
  /\ quit' = [quit EXCEPT !.requested = TRUE, !.timer = FALSE]
  /\ UNCHANGED <<window, tray, armed, tunnel, want, wished>>

\* quit_fallback_cb, six seconds later.
Fallback ==
  /\ Running /\ quit.timer
  /\ quit' = [quit EXCEPT !.timer = FALSE]
  /\ life' = IF quit.requested THEN "cutOff" ELSE life
  /\ UNCHANGED <<window, tray, armed, dart, tunnel, want, wished>>

Next ==
  \/ FirstFrame \/ Close \/ TrayShow \/ TrayQuit \/ HostChanges \/ ApplyTrayState
  \/ (\E s \in Signals : Signal(s))
  \/ DartStarts \/ (\E on \in BOOLEAN : UserTurns(on))
  \/ Asked \/ ProxyCleared \/ KernelStopped \/ FinishQuit
  \/ Fallback

Spec == Init /\ [][Next]_vars

\* The timer of the main loop fires.  Nothing is assumed of Dart, which waits for commands
\* and for the kernel.
FairSpec == Spec /\ WF_vars(Fallback)

-----------------------------------------------------------------------------
\* A process that was asked to quit ends, whatever Dart does (request_quit,
\* quit_fallback_cb).
QuitEnds == quit.requested ~> ~Running

\* A process that ended in the orderly way has left no kernel behind, and the proxy only
\* where putting it back was tried and failed (quitRequested, quitNow).
FinishedIsClean == life = "finished" => ~tunnel.kernel /\ (tunnel.proxy => tunnel.failed)

\* However many paths out are taken, Dart is asked to quit once: two hang-ups do not run
\* into one another (quit_requested).
AskedOnce == quit.asked <= 1

\* A process without a window can be reached by its icon, or is on its way out: there is
\* no such thing left as one that can only be killed (window_delete_event_cb).
HiddenIsReachable ==
  Running /\ window = "hidden" => quit.requested \/ (tray.indicator /\ tray.host)

\* To quit is not to hang up: the next start connects again when this one was connected.
WishSurvivesQuit == life = "finished" => want = wished
=============================================================================
