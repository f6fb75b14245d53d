---------------------------- MODULE WindowsTray ----------------------------
(***************************************************************************)
(* The notification-area icon of the Windows runner: its two cached        *)
(* images, and the handle that is given to the shell.                      *)
(*                                                                         *)
(* An image is made when it is first needed and thrown away when the       *)
(* window moves to a display of another density.  Making either can fail:  *)
(* for the coloured one there is the system's own, which is shared and     *)
(* must not be destroyed; for the grey one there is the coloured one.      *)
(***************************************************************************)

CONSTANT Images  \* the coloured images that may be had: "owned", and the system's, "shared"

ASSUME WindowsTrayAssumption == Images \subseteq {"owned", "shared"} /\ Images # {}

VARIABLES
  tray,      \* the members tray_* of FlutterWindow
  visible    \* the main window is shown

trayVars == <<tray, visible>>

\* tray.handle is hIcon: which image it is, or "dangling" when that was destroyed.
Trays ==
  [installed : BOOLEAN, connected : BOOLEAN,
   normal : {"none", "owned", "shared"}, grey : BOOLEAN,
   handle : {"none", "owned", "shared", "grey", "dangling"}]

NoTray ==
  [installed |-> FALSE, connected |-> FALSE, normal |-> "none", grey |-> FALSE,
   handle |-> "none"]

TrayTypeOK == tray \in Trays /\ visible \in BOOLEAN
TrayInit == tray = NoTray /\ visible = FALSE

\* NormalTrayIcon, GreyTrayIcon: what the tray may be once the image was asked for.
NormalTrayIcon(t) ==
  IF t.normal # "none" THEN {t}
  ELSE {[t EXCEPT !.normal = image] : image \in Images}

GreyTrayIcon(t) ==
  IF t.grey THEN {t}
  ELSE UNION {{n, [n EXCEPT !.grey = TRUE]} : n \in NormalTrayIcon(t)}

DestroyTrayIcons(t) ==
  [t EXCEPT !.normal = "none", !.grey = FALSE,
            !.handle = IF t.handle \in {"owned", "grey"} THEN "dangling" ELSE @]

\* Mutant: without a grey image the handle is left as it is.
UpdateWithoutFallback(t) ==
  IF t.connected
  THEN {[n EXCEPT !.handle = n.normal] : n \in NormalTrayIcon(t)}
  ELSE {IF g.grey THEN [g EXCEPT !.handle = "grey"] ELSE g : g \in GreyTrayIcon(t)}

\* UpdateTrayIcon: coloured while connected, else grey; NIM_MODIFY when installed.
UpdateTrayIcon(t) ==
  IF t.connected
  THEN {[n EXCEPT !.handle = n.normal] : n \in NormalTrayIcon(t)}
  ELSE {[g EXCEPT !.handle = IF g.grey THEN "grey" ELSE g.normal] : g \in GreyTrayIcon(t)}

\* InstallTrayIcon: NIM_ADD may fail, and is not tried again.
InstallTrayIcon ==
  \E n \in NormalTrayIcon(tray), added \in BOOLEAN :
    tray' = [n EXCEPT !.handle = n.normal, !.installed = added]

RemoveTrayIcon == tray' = [DestroyTrayIcons(tray) EXCEPT !.installed = FALSE]

\* setTrayState: the connection is up, or is not.
ApplyTrayState ==
  /\ \E up \in BOOLEAN : tray' \in UpdateTrayIcon([tray EXCEPT !.connected = up])
  /\ UNCHANGED visible

\* WM_DPICHANGED.
DensityChanges == tray' \in UpdateTrayIcon(DestroyTrayIcons(tray)) /\ UNCHANGED visible

\* WM_CLOSE hides the window whether or not there is an icon to bring it back.
Close == visible /\ visible' = FALSE /\ UNCHANGED tray

\* A click on the icon, or its menu.
ShowMainWindow == tray.installed /\ ~visible /\ visible' = TRUE /\ UNCHANGED tray

-----------------------------------------------------------------------------
\* The image the shell is given exists when it is given: an icon that is installed never
\* has the handle of an image that was thrown away (UpdateTrayIcon, WM_DPICHANGED).
HandleIsLive == tray.installed => tray.handle \notin {"none", "dangling"}
=============================================================================
