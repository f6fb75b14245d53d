------------------------ MODULE WindowsRunner_proofs ------------------------
(***************************************************************************)
(* Proofs about WindowsRunner, for every set of user settings and every    *)
(* number of refused writes and kills.                                     *)
(*                                                                         *)
(* About the loan they assume what ApplySystemProxy and RestoreSystemProxy *)
(* take for granted: a value of the note can be written, and a value of    *)
(* the settings deleted.  Without the first the loan is not kept, as       *)
(* NoteRefused.cfg shows.                                                  *)
(***************************************************************************)
EXTENDS WindowsRunner, TLAPS

-----------------------------------------------------------------------------
(***************************************************************************)
(* Types                                                                   *)
(***************************************************************************)
LEMMA TrayImages ==
  ASSUME NEW t \in Trays
  PROVE /\ \A n \in NormalTrayIcon(t) : n \in Trays /\ n.normal # "none"
        /\ \A n \in GreyTrayIcon(t) : n \in Trays /\ (n.grey \/ n.normal # "none")
        /\ DestroyTrayIcons(t) \in Trays
<1>1. \A n \in NormalTrayIcon(t) : n \in Trays /\ n.normal # "none"
  BY WindowsTrayAssumption DEF NormalTrayIcon, Trays
<1>2. ASSUME NEW n \in GreyTrayIcon(t) PROVE n \in Trays /\ (n.grey \/ n.normal # "none")
  <2>1. CASE t.grey  BY <1>2, <2>1 DEF GreyTrayIcon
  <2>2. CASE ~t.grey
    <3>1. PICK m \in NormalTrayIcon(t) : n = m \/ n = [m EXCEPT !.grey = TRUE]
      BY <1>2, <2>2 DEF GreyTrayIcon
    <3>2. m \in Trays /\ m.normal # "none"  BY <1>1, <3>1
    <3> QED  BY <3>1, <3>2 DEF Trays
  <2> QED  BY <2>1, <2>2
<1>3. DestroyTrayIcons(t) \in Trays  BY DEF DestroyTrayIcons, Trays
<1> QED  BY <1>1, <1>2, <1>3

\* Once the shell is told, the image it is told of exists.
LEMMA ImageGiven ==
  ASSUME NEW t \in Trays, NEW u \in UpdateTrayIcon(t)
  PROVE u \in Trays /\ u.handle \notin {"none", "dangling"}
<1>1. CASE t.connected
  <2>1. PICK n \in NormalTrayIcon(t) : u = [n EXCEPT !.handle = n.normal]
    BY <1>1 DEF UpdateTrayIcon
  <2>2. n \in Trays /\ n.normal # "none"  BY <2>1, TrayImages
  <2> QED  BY <2>1, <2>2 DEF Trays
<1>2. CASE ~t.connected
  <2>1. PICK g \in GreyTrayIcon(t) :
          u = [g EXCEPT !.handle = IF g.grey THEN "grey" ELSE g.normal]
    BY <1>2 DEF UpdateTrayIcon
  <2>2. g \in Trays /\ (g.grey \/ g.normal # "none")  BY <2>1, TrayImages
  <2> QED  BY <2>1, <2>2 DEF Trays
<1> QED  BY <1>1, <1>2

\* What the icon and its images do, wherever it is done.
TrayInv == TrayTypeOK /\ HandleIsLive

LEMMA TrayHolds == ASSUME TrayInv, [Next]_vars PROVE TrayInv'
<1> USE DEF TrayInv, TrayTypeOK, HandleIsLive
<1>1. CASE UNCHANGED tray /\ visible' \in BOOLEAN  BY <1>1
<1>2. CASE InstallTrayIcon /\ UNCHANGED visible
  <2>1. PICK n \in NormalTrayIcon(tray), added \in BOOLEAN :
          tray' = [n EXCEPT !.handle = n.normal, !.installed = added]
    BY <1>2 DEF InstallTrayIcon
  <2>2. n \in Trays /\ n.normal # "none"  BY <2>1, TrayImages
  <2> QED  BY <1>2, <2>1, <2>2 DEF Trays
<1>3. CASE RemoveTrayIcon /\ visible' \in BOOLEAN
  <2>1. DestroyTrayIcons(tray) \in Trays  BY TrayImages
  <2> QED  BY <1>3, <2>1 DEF RemoveTrayIcon, Trays
<1>4. CASE TrayEvent
  <2>1. CASE ApplyTrayState
    <3>1. PICK up \in BOOLEAN : tray' \in UpdateTrayIcon([tray EXCEPT !.connected = up])
      BY <2>1 DEF ApplyTrayState
    <3>2. [tray EXCEPT !.connected = up] \in Trays  BY DEF Trays
    <3>3. tray' \in Trays /\ tray'.handle \notin {"none", "dangling"}
      BY <3>1, <3>2, ImageGiven
    <3> QED  BY <2>1, <3>3 DEF ApplyTrayState
  <2>2. CASE DensityChanges
    <3>1. DestroyTrayIcons(tray) \in Trays  BY TrayImages
    <3>2. tray' \in Trays /\ tray'.handle \notin {"none", "dangling"}
      BY <2>2, <3>1, ImageGiven DEF DensityChanges
    <3> QED  BY <2>2, <3>2 DEF DensityChanges
  <2>3. CASE Close \/ ShowMainWindow  BY <2>3 DEF Close, ShowMainWindow
  <2> QED  BY <1>4, <2>1, <2>2, <2>3 DEF TrayEvent
<1>5. CASE ProcessEnds \/ Killed
  <2>1. tray' = NoTray /\ visible' = FALSE  BY <1>5 DEF ProcessEnds, Killed, Gone
  <2> QED  BY <2>1 DEF NoTray, Trays
<1>6. CASE UNCHANGED vars  BY <1>6 DEF vars, trayVars
<1>7. CASE Next
  <2>1. CASE Launch \/ SecondLaunch \/ CreateFails \/ FirstFrame
    BY <1>1, <2>1 DEF Launch, SecondLaunch, CreateFails, FirstFrame, trayVars
  <2>2. CASE KernelStarts \/ KernelEnds \/ Set \/ HangUp \/ Restores \/ RecoverAtStart \/ Proxy
    BY <1>1, <2>2
       DEF KernelStarts, KernelEnds, Set, HangUp, Restores, RecoverAtStart, Clear, Proxy, trayVars
  <2>3. CASE SessionEnds \/ TerminateChildProcesses \/ Edit
    BY <1>1, <2>3 DEF SessionEnds, TerminateChildProcesses, Edit, trayVars
  <2>4. CASE Quit \/ SessionDestroys  BY <1>3, <2>4 DEF Quit, SessionDestroys
  <2>5. CASE EngineStops  BY <1>3, <2>5 DEF EngineStops
  <2>6. CASE Create  BY <1>2, <2>6 DEF Create
  <2> QED  BY <1>4, <1>5, <1>7, <2>1, <2>2, <2>3, <2>4, <2>5, <2>6 DEF Next
<1> QED  BY <1>6, <1>7

\* An icon that is in the notification area is never left with an image that was thrown
\* away, whichever images could be made and however often the density changed.
THEOREM HandleAlwaysLive == Spec => []HandleIsLive
<1>1. Init => TrayInv
  <2>1. NoTray \in Trays /\ ~NoTray.installed  BY DEF NoTray, Trays
  <2> QED  BY <2>1 DEF Init, TrayInit, TrayInv, TrayTypeOK, HandleIsLive
<1>2. TrayInv /\ [Next]_vars => TrayInv'  BY TrayHolds
<1>3. TrayInv => HandleIsLive  BY DEF TrayInv
<1> QED  BY <1>1, <1>2, <1>3, PTL DEF Spec

-----------------------------------------------------------------------------
(***************************************************************************)
(* The types of the rest                                                   *)
(***************************************************************************)
LEMMA ConstantTypes ==
  /\ UserSettings \subseteq Settings
  /\ NoNote \in Notes /\ Idle \in Operations
  /\ MaxFaults \in Nat /\ MaxKills \in Nat
BY WindowsProxyAssumption, WindowsRunnerAssumption
   DEF Settings, Servers, NoNote, Notes, Idle, Operations, Callers, Applying, Restoring

LEMMA NotedTyped == ASSUME ProxyTypeOK PROVE Noted \in Settings
BY DEF ProxyTypeOK, Noted, Notes, Settings, Servers

LEMMA MeansTyped == ASSUME NEW s \in Settings PROVE Means(s) \in Servers
BY DEF Settings, Servers, Means

LEMMA RefusedTyped ==
  ASSUME ProxyTypeOK, NEW kind, Refused(kind) PROVE faults' \in 0..MaxFaults
BY ConstantTypes DEF ProxyTypeOK, Refused

\* Wherever an operation goes on, and when it returns.
LEMMA OpTyped ==
  ASSUME ProxyTypeOK
  PROVE /\ \A at \in {"terminate"} \cup Applying \cup Restoring :
             Goes(at) \/ Fails(at) => op' \in Operations
        /\ Returns => op' \in Operations
<1>1. ASSUME NEW at \in {"terminate"} \cup Applying \cup Restoring, Goes(at) \/ Fails(at)
      PROVE op' \in Operations
  BY <1>1 DEF ProxyTypeOK, Goes, Fails, Operations
<1>2. ASSUME Returns PROVE op' \in Operations
  BY <1>1, <1>2, ConstantTypes DEF Returns
<1> QED  BY <1>1, <1>2

LEMMA TellTyped ==
  ASSUME ProxyTypeOK, NEW at, NEW proxy \in Servers,
         Tell(at, proxy, Returns) \/ Tell(at, proxy, Goes("consume"))
           \/ Tell(at, proxy, Goes("notify"))
  PROVE ProxyTypeOK'
<1>1. effective' \in Servers
  BY MeansTyped DEF Tell, ProxyTypeOK
<1>2. op' \in Operations
  BY OpTyped DEF Tell, Applying, Restoring
<1>3. faults' \in 0..MaxFaults
  BY RefusedTyped DEF Tell, ProxyTypeOK
<1>4. UNCHANGED <<reg, backup, shuttingDown, original>>  BY DEF Tell
<1> QED  BY <1>1, <1>2, <1>3, <1>4 DEF ProxyTypeOK

LEMMA ProxyStepTyped == ASSUME ProxyTypeOK, ProxyStep PROVE ProxyTypeOK'
<1> USE DEF Applying, Restoring
<1>1. CASE Note
  <2>1. UNCHANGED <<reg, effective, shuttingDown, original>>  BY <1>1 DEF Note, NoteWritten
  <2>2. op' \in Operations  BY <1>1, OpTyped DEF Note, NoteWritten
  <2>3. faults' \in 0..MaxFaults
    BY <1>1, RefusedTyped DEF Note, NoteWritten, ProxyTypeOK
  <2>4. backup' \in Notes
    BY <1>1 DEF Note, NoteWritten, ProxyTypeOK, Notes, Settings
  <2> QED  BY <2>1, <2>2, <2>3, <2>4 DEF ProxyTypeOK
<1>2. CASE EnableKernel \/ NameKernel
  <2>1. UNCHANGED <<backup, effective, shuttingDown, original>>
    BY <1>2 DEF EnableKernel, NameKernel
  <2>2. op' \in Operations  BY <1>2, OpTyped DEF EnableKernel, NameKernel
  <2>3. faults' \in 0..MaxFaults
    BY <1>2, RefusedTyped DEF EnableKernel, NameKernel, ProxyTypeOK
  <2>4. reg' \in Settings
    BY <1>2 DEF EnableKernel, NameKernel, ProxyTypeOK, Settings, Servers
  <2> QED  BY <2>1, <2>2, <2>3, <2>4 DEF ProxyTypeOK
<1>3. CASE BackEnable \/ BackServer
  <2>1. UNCHANGED <<backup, effective, shuttingDown, original>>
    BY <1>3 DEF BackEnable, BackServer
  <2>2. op' \in Operations  BY <1>3, OpTyped DEF BackEnable, BackServer
  <2>3. faults' \in 0..MaxFaults
    BY <1>3, RefusedTyped DEF BackEnable, BackServer, ProxyTypeOK
  <2>4. reg' \in Settings
    BY <1>3, NotedTyped DEF BackEnable, BackServer, ProxyTypeOK, Settings
  <2> QED  BY <2>1, <2>2, <2>3, <2>4 DEF ProxyTypeOK
<1>4. CASE TellKernel \/ TellBack \/ TellOff
  <2>1. Means(Noted) \in Servers /\ "kernel" \in Servers /\ "none" \in Servers
    BY NotedTyped, MeansTyped DEF Servers
  <2> QED  BY <1>4, <2>1, TellTyped DEF TellKernel, TellBack, TellOff
<1>5. CASE Consume
  <2>1. UNCHANGED <<reg, effective, shuttingDown>>  BY <1>5 DEF Consume
  <2>2. op' \in Operations  BY <1>5, OpTyped DEF Consume
  <2>3. faults' \in 0..MaxFaults  BY <1>5, RefusedTyped DEF Consume, ProxyTypeOK
  <2>4. backup' \in Notes /\ original' \in Settings
    BY <1>5, ConstantTypes DEF Consume, ProxyTypeOK, Notes
  <2> QED  BY <2>1, <2>2, <2>3, <2>4 DEF ProxyTypeOK
<1>6. CASE SwitchOff
  <2>1. UNCHANGED <<backup, effective, shuttingDown, original>>  BY <1>6 DEF SwitchOff
  <2>2. op' \in Operations  BY <1>6, OpTyped DEF SwitchOff
  <2>3. faults' \in 0..MaxFaults  BY <1>6, RefusedTyped DEF SwitchOff, ProxyTypeOK
  <2>4. reg' \in Settings  BY <1>6 DEF SwitchOff, ProxyTypeOK, Settings
  <2> QED  BY <2>1, <2>2, <2>3, <2>4 DEF ProxyTypeOK
<1>7. CASE Notify
  <2>1. effective' \in Servers  BY <1>7, MeansTyped DEF Notify, ProxyTypeOK
  <2>2. op' \in Operations  BY <1>7, OpTyped DEF Notify
  <2> QED  BY <1>7, <2>1, <2>2 DEF Notify, ProxyTypeOK
<1> QED
  BY <1>1, <1>2, <1>3, <1>4, <1>5, <1>6, <1>7 DEF ProxyStep

LEMMA RestoreTyped ==
  ASSUME ProxyTypeOK, NEW caller \in Callers, Restore(caller), shuttingDown' \in BOOLEAN
  PROVE ProxyTypeOK'
BY DEF Restore, ProxyTypeOK, Operations, Restoring, Idle

LEMMA CleanupTyped == ASSUME ProxyTypeOK, CleanupResources PROVE ProxyTypeOK'
<1>1. CASE cleanupDone  BY <1>1 DEF CleanupResources, ProxyTypeOK
<1>2. CASE ~cleanupDone  BY <1>2, RestoreTyped DEF CleanupResources, Callers
<1> QED  BY <1>1, <1>2

LEMMA TypeHolds == ASSUME TypeOK, HandleIsLive, [Next]_vars PROVE TypeOK'
<1> USE DEF TypeOK
<1>1. TrayTypeOK'  BY TrayHolds DEF TrayInv
<1>2. CASE UNCHANGED vars
  BY <1>1, <1>2 DEF vars, proxyVars, Process, Dart, ProxyTypeOK
<1> DEFINE Rest == /\ life \in Lives /\ job \in BOOLEAN
                   /\ kernel \in {"none", "child", "orphan"}
                   /\ cleanupDone \in BOOLEAN
                   /\ left \in (Settings \X Servers) \cup {<<>>}
                   /\ kills \in 0..MaxKills
                   /\ recovery \in BOOLEAN /\ watchdog \in BOOLEAN
<1>3. CASE Launch \/ SecondLaunch \/ Create \/ CreateFails \/ FirstFrame
           \/ KernelStarts \/ KernelEnds \/ TrayEvent \/ EngineStops
  <2>1. ProxyTypeOK'
    BY <1>3 DEF Launch, SecondLaunch, Create, CreateFails, FirstFrame, KernelStarts,
                KernelEnds, TrayEvent, EngineStops, proxyVars, ProxyTypeOK
  <2>2. Rest'
    BY <1>3 DEF Launch, SecondLaunch, Create, CreateFails, FirstFrame, KernelStarts,
                KernelEnds, TrayEvent, EngineStops, Process, Dart, Lives
  <2> QED  BY <1>1, <2>1, <2>2
<1>4. CASE Set \/ Proxy
  <2>1. Rest'  BY <1>4 DEF Set, Proxy, Process, Dart
  <2>2. CASE Set
    <3>1. original' \in Settings  BY <2>2 DEF Set, Apply, ProxyTypeOK
    <3>2. op' \in Operations
      BY <2>2, OpTyped DEF Set, Apply, Applying
    <3> QED  BY <1>1, <2>1, <2>2, <3>1, <3>2 DEF Set, Apply, ProxyTypeOK
  <2>3. CASE Proxy  BY <1>1, <2>1, <2>3, ProxyStepTyped DEF Proxy
  <2> QED  BY <1>4, <2>2, <2>3
<1>9. CASE HangUp \/ Restores \/ RecoverAtStart
  <2>1. Rest'
    BY <1>9 DEF HangUp, Restores, RecoverAtStart, Clear, Process
  <2>2. ASSUME NEW caller \in Callers, Clear(caller) PROVE ProxyTypeOK'
    BY <2>2, RestoreTyped DEF Clear, ProxyTypeOK
  <2>3. ASSUME UNCHANGED proxyVars PROVE ProxyTypeOK'
    BY <2>3 DEF proxyVars, ProxyTypeOK
  <2> QED  BY <1>1, <1>9, <2>1, <2>2, <2>3 DEF HangUp, Restores, RecoverAtStart, Callers
<1>5. CASE Quit \/ SessionEnds \/ SessionDestroys
  <2>1. ProxyTypeOK'  BY <1>5, CleanupTyped DEF Quit, SessionEnds, SessionDestroys
  <2>2. Rest'
    BY <1>5 DEF Quit, SessionEnds, SessionDestroys, CleanupResources, Lives, Dart
  <2> QED  BY <1>1, <2>1, <2>2
<1>6. CASE TerminateChildProcesses
  <2>1. ProxyTypeOK'
    BY <1>6, ConstantTypes DEF TerminateChildProcesses, ProxyTypeOK
  <2>2. <<reg, effective>> \in Settings \X Servers  BY DEF ProxyTypeOK
  <2>3. Rest'  BY <1>6, <2>2 DEF TerminateChildProcesses, Dart
  <2> QED  BY <1>1, <2>1, <2>3
<1>7. CASE ProcessEnds \/ Killed
  <2>1. ProxyTypeOK'
    BY <1>7, ConstantTypes DEF ProcessEnds, Killed, Gone, ProxyTypeOK
  <2>2. life' \in Lives /\ job' \in BOOLEAN /\ cleanupDone' \in BOOLEAN
        /\ kernel' \in {"none", "child", "orphan"}
        /\ recovery' \in BOOLEAN /\ watchdog' \in BOOLEAN
    BY <1>7 DEF ProcessEnds, Killed, Gone, Lives
  <2>3. left' \in (Settings \X Servers) \cup {<<>>}  BY <1>7 DEF ProcessEnds, Killed
  <2>4. kills' \in 0..MaxKills  BY <1>7, ConstantTypes DEF ProcessEnds, Killed
  <2> QED  BY <1>1, <2>1, <2>2, <2>3, <2>4
<1>8. CASE Edit
  <2>1. reg' \in Settings /\ original' = reg'
    BY <1>8, ConstantTypes DEF Edit, UserEdits
  <2>2. ProxyTypeOK'
    BY <1>8, <2>1, MeansTyped DEF Edit, UserEdits, ProxyTypeOK
  <2>3. Rest'  BY <1>8 DEF Edit, Dart
  <2> QED  BY <1>1, <2>2, <2>3
<1> QED
  BY <1>2, <1>3, <1>4, <1>5, <1>6, <1>7, <1>8, <1>9 DEF Next

\* Every variable keeps its type.
THEOREM TypeCorrect == Spec => []TypeOK
<1>1. Init => TypeOK /\ HandleIsLive
  <2> SUFFICES ASSUME Init PROVE TypeOK /\ HandleIsLive  OBVIOUS
  <2>1. TrayTypeOK /\ HandleIsLive
    BY DEF Init, TrayInit, NoTray, TrayTypeOK, Trays, HandleIsLive
  <2>2. reg \in Settings  BY ConstantTypes DEF Init, ProxyInit
  <2>3. effective \in Servers  BY <2>2, MeansTyped DEF Init, ProxyInit
  <2>4. faults \in 0..MaxFaults /\ kills \in 0..MaxKills
    BY ConstantTypes DEF Init, ProxyInit
  <2>5. ProxyTypeOK
    BY <2>2, <2>3, <2>4, ConstantTypes DEF Init, ProxyInit, ProxyTypeOK
  <2> QED  BY <2>1, <2>4, <2>5 DEF Init, TypeOK, Lives
<1>2. TypeOK /\ HandleIsLive /\ [Next]_vars => (TypeOK /\ HandleIsLive)'
  BY TypeHolds, TrayHolds DEF TrayInv, TypeOK
<1> QED  BY <1>1, <1>2, PTL DEF Spec

-----------------------------------------------------------------------------
(***************************************************************************)
(* The loan                                                                *)
(***************************************************************************)
\* The note and the end of a value can be written; the settings may still be refused.
Writable == FaultyWrites \subseteq {"settings"}

\* What the note says is what the user had; without a note nothing is borrowed.
NoteInv ==
  /\ original.server # "kernel"
  /\ backup.enable \in {-1, original.enable}
  /\ backup.server \in {"absent", original.server}
  /\ ~backup.saved => backup = NoNote /\ reg.server # "kernel" /\ effective # "kernel"

\* How far an operation has got.
ProgressInv ==
  /\ op.at \in {"saved", "off", "offWininet"} => ~backup.saved
  /\ op.at \in {"savedEnable", "savedServer", "enable", "server", "wininet"}
                 \cup {"backEnable", "backServer", "backWininet", "consume"} => backup.saved
  /\ op.at \in {"saved", "savedEnable", "savedServer"} => reg = original /\ effective # "kernel"
  /\ op.at = "backServer" /\ op.ok => reg.enable = Noted.enable
  /\ op.at \in {"backWininet", "consume"} /\ op.ok => reg = Noted
  /\ op.at = "consume" /\ op.ok => effective = Means(Noted)

LoanInv == ProxyTypeOK /\ NoteInv /\ ProgressInv

\* The server of a note is never the kernel.
LEMMA NotedIsTheirs == ASSUME ProxyTypeOK, NoteInv PROVE Noted.server # "kernel"
BY DEF NoteInv, Noted

LEMMA TellKeepsLoan ==
  ASSUME Writable, LoanInv, NEW at, NEW proxy,
         Tell(at, proxy, Returns) \/ Tell(at, proxy, Goes("consume"))
           \/ Tell(at, proxy, Goes("notify")),
         ProxyTypeOK'
  PROVE ~backup.saved => proxy = "kernel" \/ NoteInv'
<1> SUFFICES ASSUME ~backup.saved, proxy # "kernel" PROVE NoteInv'
  OBVIOUS
<1>1. UNCHANGED <<reg, backup, original>>  BY DEF Tell
<1>2. Means(reg) # "kernel"  BY DEF LoanInv, NoteInv, Means
<1>3. effective' # "kernel"  BY <1>2 DEF Tell, LoanInv, NoteInv
<1> QED  BY <1>1, <1>3 DEF LoanInv, NoteInv

LEMMA TakingKeepsLoan ==
  ASSUME Writable, LoanInv, ProxyTypeOK', Note \/ EnableKernel \/ NameKernel \/ TellKernel
  PROVE LoanInv'
<1> USE DEF LoanInv
<1>1. CASE NoteWritten("saved", [backup EXCEPT !.saved = TRUE], "savedEnable")
  <2>1. backup' = [backup EXCEPT !.saved = TRUE] /\ op'.at = "savedEnable"
        /\ UNCHANGED <<reg, effective, original>>
    BY <1>1 DEF NoteWritten, Refused, Writable, Goes, ProxyTypeOK, Operations
  <2>2. ~backup.saved /\ reg = original  BY <1>1 DEF NoteWritten, ProgressInv
  <2>3. backup'.saved /\ backup'.enable = -1 /\ backup'.server = "absent"
    BY <2>1, <2>2 DEF NoteInv, NoNote
  <2>4. NoteInv'  BY <2>1, <2>3 DEF NoteInv
  <2>5. ProgressInv'  BY <2>1, <2>2, <2>3 DEF ProgressInv, NoteInv
  <2> QED  BY <2>4, <2>5
<1>2. CASE NoteWritten("savedEnable", [backup EXCEPT !.enable = reg.enable], "savedServer")
  <2>1. backup' = [backup EXCEPT !.enable = reg.enable] /\ op'.at = "savedServer"
        /\ UNCHANGED <<reg, effective, original>>
    BY <1>2 DEF NoteWritten, Refused, Writable, Goes, ProxyTypeOK, Operations
  <2>2. backup.saved /\ reg = original /\ effective # "kernel"
    BY <1>2 DEF NoteWritten, ProgressInv
  <2>3. backup'.saved /\ backup'.enable = original.enable /\ backup'.server = backup.server
    BY <2>1, <2>2 DEF ProxyTypeOK, Notes
  <2>4. NoteInv'  BY <2>1, <2>3 DEF NoteInv
  <2>5. ProgressInv'  BY <2>1, <2>2, <2>3 DEF ProgressInv
  <2> QED  BY <2>4, <2>5
<1>3. CASE NoteWritten("savedServer", [backup EXCEPT !.server = reg.server], "enable")
  <2>1. backup' = [backup EXCEPT !.server = reg.server] /\ op'.at = "enable"
        /\ UNCHANGED <<reg, effective, original>>
    BY <1>3 DEF NoteWritten, Refused, Writable, Goes, ProxyTypeOK, Operations
  <2>2. backup.saved /\ reg = original  BY <1>3 DEF NoteWritten, ProgressInv
  <2>3. backup'.saved /\ backup'.server = original.server /\ backup'.enable = backup.enable
    BY <2>1, <2>2 DEF ProxyTypeOK, Notes
  <2>4. NoteInv'  BY <2>1, <2>3 DEF NoteInv
  <2>5. ProgressInv'  BY <2>1, <2>3 DEF ProgressInv
  <2> QED  BY <2>4, <2>5
<1>4. CASE EnableKernel \/ NameKernel
  <2>1. UNCHANGED <<backup, effective, original>> /\ op'.at \in {"server", "wininet"}
    BY <1>4 DEF EnableKernel, NameKernel, Goes, Fails, ProxyTypeOK, Operations
  <2>2. backup.saved  BY <1>4 DEF EnableKernel, NameKernel, ProgressInv
  <2>3. NoteInv'  BY <2>1, <2>2 DEF NoteInv
  <2>4. ProgressInv'  BY <2>1, <2>2 DEF ProgressInv
  <2> QED  BY <2>3, <2>4
<1>5. CASE TellKernel
  <2>1. UNCHANGED <<reg, backup, original>> /\ op'.at \in {"idle", "terminate"}
    BY <1>5 DEF TellKernel, Tell, Returns, Goes, Idle, ProxyTypeOK, Operations
  <2>2. backup.saved  BY <1>5 DEF TellKernel, Tell, ProgressInv
  <2>3. NoteInv'  BY <2>1, <2>2 DEF NoteInv
  <2>4. ProgressInv'  BY <2>1, <2>2 DEF ProgressInv
  <2> QED  BY <2>3, <2>4
<1> QED  BY <1>1, <1>2, <1>3, <1>4, <1>5 DEF Note

LEMMA GivingBackKeepsLoan ==
  ASSUME Writable, LoanInv, ProxyTypeOK', BackEnable \/ BackServer \/ TellBack \/ Consume
  PROVE LoanInv'
<1> USE DEF LoanInv
<1>1. CASE BackEnable \/ BackServer \/ TellBack
  <2>1. backup.saved
    BY <1>1 DEF BackEnable, BackServer, TellBack, Tell, ProgressInv
  <2>2. UNCHANGED <<backup, original>>
    BY <1>1 DEF BackEnable, BackServer, TellBack, Tell
  <2>3. NoteInv'  BY <2>1, <2>2 DEF NoteInv
  <2>4. Noted' = Noted  BY <2>2 DEF Noted
  <2>5. CASE BackEnable
    <3>1. op'.at = "backServer"
      BY <2>5 DEF BackEnable, Goes, Fails, ProxyTypeOK, Operations
    <3>2. op'.ok => reg'.enable = Noted.enable
      BY <2>5 DEF BackEnable, Goes, Fails, ProxyTypeOK, Operations, Settings
    <3> QED  BY <2>1, <2>2, <2>3, <2>4, <3>1, <3>2 DEF ProgressInv
  <2>6. CASE BackServer
    <3>1. op'.at = "backWininet"
      BY <2>6 DEF BackServer, Goes, Fails, ProxyTypeOK, Operations
    <3>2. ASSUME op'.ok PROVE reg' = Noted
      <4>1. reg' = [reg EXCEPT !.server = Noted.server] /\ op.ok
        BY <2>6, <3>2 DEF BackServer, Goes, Fails, Refused, Writable, ProxyTypeOK, Operations
      <4>2. reg.enable = Noted.enable  BY <2>6, <4>1 DEF BackServer, ProgressInv
      <4>3. reg \in Settings /\ Noted \in Settings  BY NotedTyped DEF ProxyTypeOK
      <4>4. reg' = [enable |-> Noted.enable, server |-> Noted.server]
        BY <4>1, <4>2, <4>3 DEF Settings
      <4> QED  BY <4>3, <4>4 DEF Settings
    <3> QED  BY <2>1, <2>2, <2>3, <2>4, <3>1, <3>2 DEF ProgressInv
  <2>7. CASE TellBack
    <3>1. op'.at = "consume" /\ UNCHANGED reg
      BY <2>7 DEF TellBack, Tell, Goes, Fails, ProxyTypeOK, Operations
    <3>2. ASSUME op'.ok PROVE reg = Noted /\ effective' = Means(Noted)
      <4>1. op.ok /\ effective' \in {Means(Noted), Means(reg)}
        BY <2>7, <3>2 DEF TellBack, Tell, Goes, Fails, ProxyTypeOK, Operations
      <4>2. reg = Noted  BY <2>7, <4>1 DEF TellBack, Tell, ProgressInv
      <4> QED  BY <4>1, <4>2
    <3>3. Means(Noted)' = Means(Noted)  BY <2>4 DEF Means
    <3> QED  BY <2>1, <2>2, <2>3, <2>4, <3>1, <3>2, <3>3 DEF ProgressInv
  <2> QED  BY <1>1, <2>5, <2>6, <2>7
<1>2. CASE Consume
  <2>1. op'.at = "notify" /\ UNCHANGED <<reg, effective>>
    BY <1>2 DEF Consume, Goes, ProxyTypeOK, Operations
  <2>2. CASE op.ok
    <3>1. backup' = NoNote /\ original' = original
      BY <1>2, <2>2 DEF Consume, Refused, Writable
    <3>2. reg = Noted /\ effective = Means(Noted)
      BY <1>2, <2>2 DEF Consume, ProgressInv
    <3>3. reg.server # "kernel" /\ effective # "kernel"
      BY <3>2, NotedIsTheirs DEF Means
    <3> QED  BY <2>1, <3>1, <3>3 DEF NoteInv, ProgressInv, NoNote
  <2>3. CASE ~op.ok
    <3>1. UNCHANGED <<backup, original>> /\ backup.saved
      BY <1>2, <2>3 DEF Consume, ProgressInv
    <3> QED  BY <2>1, <3>1 DEF NoteInv, ProgressInv
  <2> QED  BY <2>2, <2>3
<1> QED  BY <1>1, <1>2

LEMMA SwitchingOffKeepsLoan ==
  ASSUME Writable, LoanInv, ProxyTypeOK', SwitchOff \/ TellOff \/ Notify
  PROVE LoanInv'
<1> USE DEF LoanInv
<1>1. CASE SwitchOff
  <2>1. ~backup.saved  BY <1>1 DEF SwitchOff, ProgressInv
  <2>2. UNCHANGED <<backup, effective>> /\ op'.at \in {"offWininet", "notify"}
    BY <1>1 DEF SwitchOff, Goes, Fails, ProxyTypeOK, Operations
  <2>3. reg'.server # "kernel" /\ original' = original
    BY <1>1, <2>1 DEF SwitchOff, NoteInv, ProxyTypeOK, Settings
  <2>4. NoteInv'  BY <2>1, <2>2, <2>3 DEF NoteInv, NoNote
  <2> QED  BY <2>1, <2>2, <2>4 DEF ProgressInv
<1>2. CASE TellOff
  <2>1. ~backup.saved  BY <1>2 DEF TellOff, Tell, ProgressInv
  <2>2. NoteInv'  BY <1>2, <2>1, TellKeepsLoan DEF TellOff
  <2>3. op'.at = "notify"  BY <1>2 DEF TellOff, Tell, Goes, Fails, ProxyTypeOK, Operations
  <2> QED  BY <2>2, <2>3 DEF ProgressInv
<1>3. CASE Notify
  <2>1. UNCHANGED <<reg, backup, original>> /\ op'.at \in {"idle", "terminate"}
    BY <1>3 DEF Notify, Returns, Goes, Idle, ProxyTypeOK, Operations
  <2>2. ~backup.saved => Means(reg) # "kernel"  BY DEF NoteInv, Means
  <2>3. ~backup.saved => effective' # "kernel"  BY <1>3, <2>2 DEF Notify, NoteInv
  <2> QED  BY <2>1, <2>3 DEF NoteInv, ProgressInv
<1> QED  BY <1>1, <1>2, <1>3

LEMMA LoanHolds == ASSUME Writable, TypeOK, TypeOK', LoanInv, [Next]_vars PROVE LoanInv'
<1>0. ProxyTypeOK'  BY DEF TypeOK
<1>1. CASE UNCHANGED <<reg, backup, effective, original>> /\ op' \in {op, Idle}
  <2>1. NoteInv'  BY <1>1 DEF LoanInv, NoteInv
  <2>2. Noted' = Noted  BY <1>1 DEF Noted
  <2>3. Means(Noted)' = Means(Noted)  BY <2>2 DEF Means
  <2>4. ProgressInv'  BY <1>1, <2>2, <2>3 DEF LoanInv, ProgressInv, Idle
  <2> QED  BY <1>0, <2>1, <2>4 DEF LoanInv
<1>2. ASSUME NEW caller, Restore(caller) PROVE LoanInv'
  <2>1. UNCHANGED <<reg, backup, effective, original>>
        /\ op'.at = IF backup.saved THEN "backEnable" ELSE "off"
    BY <1>2 DEF Restore, Idle
  <2>2. NoteInv'  BY <2>1 DEF LoanInv, NoteInv
  <2> QED  BY <1>0, <2>1, <2>2 DEF LoanInv, ProgressInv
<1>3. CASE Set
  <2>1. UNCHANGED <<reg, backup, effective>>
        /\ op'.at = (IF backup.saved THEN "enable" ELSE "saved")
        /\ original' = (IF backup.saved THEN original ELSE reg)
    BY <1>3 DEF Set, Apply, Goes, LoanInv, ProxyTypeOK, Operations
  <2>2. NoteInv'
    <3>1. CASE backup.saved  BY <2>1, <3>1 DEF LoanInv, NoteInv
    <3>2. CASE ~backup.saved  BY <2>1, <3>2 DEF LoanInv, NoteInv, NoNote
    <3> QED  BY <3>1, <3>2
  <2>3. ProgressInv'
    <3>1. CASE backup.saved  BY <2>1, <3>1 DEF ProgressInv
    <3>2. CASE ~backup.saved  BY <2>1, <3>2 DEF LoanInv, NoteInv, ProgressInv
    <3> QED  BY <3>1, <3>2
  <2> QED  BY <1>0, <2>2, <2>3 DEF LoanInv
<1>4. CASE HangUp \/ Restores \/ RecoverAtStart
  <2>1. ASSUME NEW caller, Clear(caller) PROVE LoanInv'  BY <1>2, <2>1 DEF Clear
  <2>2. ASSUME UNCHANGED proxyVars PROVE LoanInv'  BY <1>1, <2>2 DEF proxyVars
  <2> QED  BY <1>4, <2>1, <2>2 DEF HangUp, Restores, RecoverAtStart
<1>5. CASE Proxy
  BY <1>0, <1>5, TakingKeepsLoan, GivingBackKeepsLoan, SwitchingOffKeepsLoan
     DEF Proxy, ProxyStep
<1>6. CASE Quit \/ SessionEnds \/ SessionDestroys
  <2>1. CleanupResources  BY <1>6 DEF Quit, SessionEnds, SessionDestroys
  <2>2. CASE cleanupDone  BY <1>1, <2>1, <2>2 DEF CleanupResources
  <2>3. CASE ~cleanupDone  BY <1>2, <2>1, <2>3 DEF CleanupResources
  <2> QED  BY <2>2, <2>3
<1>7. CASE Edit
  <2>1. op = Idle /\ op' = op /\ backup' = backup /\ ~backup.saved /\ original' = reg'
        /\ reg' \in UserSettings /\ effective' = Means(reg')
    BY <1>7 DEF Edit, UserEdits
  <2>2. reg'.server # "kernel"  BY <2>1, WindowsProxyAssumption
  <2>3. effective' # "kernel"  BY <2>1, <2>2 DEF Means
  <2>4. NoteInv'  BY <2>1, <2>2, <2>3 DEF LoanInv, NoteInv, NoNote
  <2> QED  BY <1>0, <2>1, <2>4 DEF LoanInv, ProgressInv, Idle
<1>8. CASE Launch \/ SecondLaunch \/ Create \/ CreateFails \/ FirstFrame \/ EngineStops
  BY <1>1, <1>8 DEF Launch, SecondLaunch, Create, CreateFails, FirstFrame, EngineStops, proxyVars
<1>9. CASE KernelStarts \/ KernelEnds \/ TrayEvent
  BY <1>1, <1>9 DEF KernelStarts, KernelEnds, TrayEvent, proxyVars
<1>10. CASE TerminateChildProcesses \/ ProcessEnds \/ Killed
  BY <1>1, <1>10 DEF TerminateChildProcesses, ProcessEnds, Killed, Gone
<1>11. CASE UNCHANGED vars  BY <1>1, <1>11 DEF vars, proxyVars
<1> QED
  BY <1>3, <1>4, <1>5, <1>6, <1>7, <1>8, <1>9, <1>10, <1>11 DEF Next

LEMMA LoanInit == ASSUME Init, ProxyTypeOK PROVE LoanInv
<1>1. reg = original /\ reg \in UserSettings /\ backup = NoNote /\ effective = Means(reg)
      /\ op = Idle
  BY DEF Init, ProxyInit
<1>2. reg.server # "kernel"  BY <1>1, WindowsProxyAssumption
<1>3. effective # "kernel"  BY <1>1, <1>2 DEF Means
<1>4. NoteInv  BY <1>1, <1>2, <1>3 DEF NoteInv, NoNote
<1> QED  BY <1>1, <1>4 DEF LoanInv, ProgressInv, Idle

LEMMA LoanInvariant == ASSUME Writable PROVE Spec => [](TypeOK /\ LoanInv)
<1>1. TypeOK /\ Init => LoanInv  BY LoanInit DEF TypeOK
<1>2. TypeOK /\ TypeOK' /\ LoanInv /\ [Next]_vars => LoanInv'  BY LoanHolds
<1> QED  BY <1>1, <1>2, TypeCorrect, PTL DEF Spec

LEMMA KeptByInvariant == ASSUME LoanInv PROVE OriginalsKept
<1> SUFFICES ASSUME backup.saved, Whole(backup) PROVE Noted = original
  BY DEF OriginalsKept
<1>1. Noted = [enable |-> original.enable, server |-> original.server]
  BY DEF LoanInv, NoteInv, Noted, Whole
<1>2. original \in Settings  BY DEF LoanInv, ProxyTypeOK
<1> QED  BY <1>1, <1>2 DEF Settings

\* A note that is whole holds what the user had, whatever was refused before and wherever
\* the process was killed.
THEOREM OriginalsAlwaysKept == ASSUME Writable PROVE Spec => []OriginalsKept
BY KeptByInvariant, LoanInvariant, PTL

\* What a step does to the note: it leaves it, adds to it with everything else as it is,
\* or uses it up.
NoteKept == UNCHANGED backup
NoteGrows ==
  /\ UNCHANGED <<reg, effective, original>>
  /\ backup'.saved /\ (Whole(backup) => Whole(backup'))
NoteGoes ==
  /\ op.at = "consume" /\ op.ok
  /\ UNCHANGED <<reg, effective, original>> /\ ~backup'.saved

LEMMA NoteSteps ==
  ASSUME Writable, TypeOK, LoanInv, LoanInv', [Next]_vars
  PROVE NoteKept \/ NoteGrows \/ NoteGoes
<1>1. CASE Proxy
  <2>1. CASE Note
    <3>1. UNCHANGED <<reg, effective, original>>  BY <2>1 DEF Note, NoteWritten
    <3>2. backup' \in {[backup EXCEPT !.saved = TRUE], [backup EXCEPT !.enable = reg.enable],
                       [backup EXCEPT !.server = reg.server]}
      BY <2>1 DEF Note, NoteWritten, Refused, Writable
    <3>3. backup \in Notes /\ reg \in Settings  BY DEF TypeOK, ProxyTypeOK
    <3>4. Whole(backup) => Whole(backup')
      BY <3>2, <3>3 DEF Whole, Notes, Settings, Servers
    <3>5. op'.at \in {"savedEnable", "savedServer", "enable"}
      BY <2>1 DEF Note, NoteWritten, Goes, TypeOK, ProxyTypeOK, Operations
    <3>6. backup'.saved  BY <3>5 DEF LoanInv, ProgressInv
    <3> QED  BY <3>1, <3>4, <3>6 DEF NoteGrows
  <2>2. CASE Consume
    BY <2>2 DEF Consume, Refused, Writable, NoteGoes, NoteKept, NoNote
  <2>3. CASE EnableKernel \/ NameKernel \/ TellKernel \/ BackEnable \/ BackServer \/ TellBack
    BY <2>3 DEF EnableKernel, NameKernel, TellKernel, BackEnable, BackServer, TellBack, Tell,
                NoteKept
  <2>4. CASE SwitchOff \/ TellOff \/ Notify
    BY <2>4 DEF SwitchOff, TellOff, Tell, Notify, NoteKept
  <2> QED  BY <1>1, <2>1, <2>2, <2>3, <2>4 DEF Proxy, ProxyStep
<1>2. CASE Set \/ HangUp \/ Restores \/ RecoverAtStart
  BY <1>2 DEF Set, Apply, HangUp, Restores, RecoverAtStart, Clear, Restore, proxyVars, NoteKept
<1>3. CASE Quit \/ SessionEnds \/ SessionDestroys
  BY <1>3 DEF Quit, SessionEnds, SessionDestroys, CleanupResources, Restore, NoteKept
<1>4. CASE Launch \/ SecondLaunch \/ Create \/ CreateFails \/ FirstFrame \/ EngineStops
  BY <1>4 DEF Launch, SecondLaunch, Create, CreateFails, FirstFrame, EngineStops, proxyVars,
              NoteKept
<1>5. CASE KernelStarts \/ KernelEnds \/ TrayEvent
  BY <1>5 DEF KernelStarts, KernelEnds, TrayEvent, proxyVars, NoteKept
<1>6. CASE TerminateChildProcesses \/ ProcessEnds \/ Killed \/ Edit
  BY <1>6 DEF TerminateChildProcesses, ProcessEnds, Killed, Gone, Edit, UserEdits, NoteKept
<1>7. CASE UNCHANGED vars  BY <1>7 DEF vars, proxyVars, NoteKept
<1> QED  BY <1>1, <1>2, <1>3, <1>4, <1>5, <1>6, <1>7 DEF Next

LEMMA LoanStep ==
  ASSUME Writable, TypeOK, LoanInv, LoanInv', [Next]_vars
  PROVE Loan!Next \/ UNCHANGED Loan!vars
<1> DEFINE Setting == IF Points("kernel") THEN "ours"
                      ELSE IF reg = original /\ effective = Means(original) THEN "theirs"
                      ELSE "mixed"
           State == IF ~backup.saved THEN "none" ELSE IF Whole(backup) THEN "whole" ELSE "begun"
<1>1. Setting' \in {"theirs", "ours", "mixed"}  OBVIOUS
<1>2. State # "none" => backup.saved  OBVIOUS
<1>3. CASE NoteKept
  <2>1. State' = State  BY <1>3 DEF NoteKept, Whole
  <2>2. CASE backup.saved
    <3>1. State # "none"  BY <2>2
    <3> QED  BY <1>1, <2>1, <3>1 DEF Loan!Next, Loan!Use
  <2>3. CASE ~backup.saved
    <3>1. State = "none"  BY <2>3
    <3>2. ~Points("kernel")'
      BY <1>3, <2>3 DEF NoteKept, LoanInv, NoteInv, Points, Means
    <3>3. Setting' \in {"theirs", "mixed"}  BY <3>2
    <3> QED  BY <2>1, <3>1, <3>3 DEF Loan!Next, Loan!Leave
  <2> QED  BY <2>2, <2>3
<1>4. CASE NoteGrows
  <2>1. Setting' = Setting  BY <1>4 DEF NoteGrows, Points, Means
  <2>2. State' \in {"begun", "whole"} /\ (State = "whole" => State' = "whole")
    BY <1>4 DEF NoteGrows
  <2>3. State \in {"none", "begun", "whole"}  OBVIOUS
  <2>4. Loan!Write \/ (State' = State /\ Setting' = Setting)
    BY <2>1, <2>2, <2>3 DEF Loan!Write
  <2> QED  BY <2>4 DEF Loan!Next, Loan!vars
<1>5. CASE NoteGoes
  <2>1. reg = Noted /\ effective = Means(Noted) /\ backup.saved
    BY <1>5 DEF NoteGoes, LoanInv, ProgressInv
  <2>2. Noted.server # "kernel"  BY NotedIsTheirs DEF LoanInv
  <2>3. UNCHANGED <<reg, effective, original>> /\ effective = Means(reg)
    BY <1>5, <2>1 DEF NoteGoes
  <2>4. ~Points("kernel")'  BY <2>1, <2>2, <2>3 DEF Points, Means
  <2>5. State = "whole" => Setting' = "theirs"
    <3>1. SUFFICES ASSUME Whole(backup) PROVE Setting' = "theirs"  BY <2>1
    <3>2. Noted = original
      <4>1. OriginalsKept  BY KeptByInvariant
      <4> QED  BY <2>1, <3>1, <4>1 DEF OriginalsKept
    <3>3. Means(original)' = Means(original)  BY <2>3 DEF Means
    <3>4. reg' = original' /\ effective' = Means(original)'
      BY <2>1, <2>3, <3>2, <3>3
    <3> QED  BY <2>4, <3>4
  <2>6. State = "begun" => Setting' \in {"theirs", "mixed"}  BY <2>4
  <2>7. State' = "none"  BY <1>5 DEF NoteGoes
  <2>8. State \in {"whole", "begun"}  BY <2>1
  <2> QED  BY <2>5, <2>6, <2>7, <2>8 DEF Loan!Next, Loan!Close
<1> QED  BY <1>3, <1>4, <1>5, NoteSteps

\* The two operations of the runner implement the loan, for every refusal of a setting and
\* every kill: a whole note goes only when the registry and the running programs have what
\* the user had when the loan began.
THEOREM LoanImplemented == ASSUME Writable PROVE Spec => LoanSpec
<1>1. Init /\ LoanInv => Loan!Init
  <2> SUFFICES ASSUME Init, LoanInv PROVE Loan!Init  OBVIOUS
  <2>1. reg = original /\ effective = Means(original) /\ backup = NoNote
    BY DEF Init, ProxyInit
  <2>2. ~Points("kernel")  BY <2>1 DEF Points, LoanInv, NoteInv, Means, NoNote
  <2> QED  BY <2>1, <2>2 DEF Loan!Init, NoNote
<1>2. TypeOK /\ LoanInv /\ LoanInv' /\ [Next]_vars => [Loan!Next]_(Loan!vars)
  BY LoanStep
<1> QED  BY <1>1, <1>2, LoanInvariant, PTL DEF Spec, LoanSpec, Loan!Spec

-----------------------------------------------------------------------------
(***************************************************************************)
(* The way out                                                             *)
(***************************************************************************)
Leaving == shuttingDown /\ cleanupDone /\ life \in {"ending", "destroying"}

\* An operation of the cleanup belongs to a process that leaves; what the cleanup left
\* is what there is, and nothing is under way that could change it.
ExitInv ==
  /\ op.by = "exit" \/ op.at = "terminate" => Leaving
  /\ life \in {"ending", "stopped"} => shuttingDown /\ cleanupDone
  /\ life = "destroying" => shuttingDown /\ cleanupDone
  /\ left # <<>> =>
       op = Idle /\ <<reg, effective>> = left /\ life \in {"ending", "destroying", "stopped", "off"}

LEMMA ExitHolds ==
  ASSUME LateCalls \subseteq {"set"}, TypeOK, ExitInv, [Next]_vars
  PROVE ExitInv'
<1> USE DEF ExitInv
<1>0. op.at \in {"idle", "terminate"} \cup Applying \cup Restoring  BY DEF TypeOK, ProxyTypeOK, Operations
<1>1. CASE UNCHANGED vars  BY <1>1 DEF vars, proxyVars, Process, Leaving
<1>2. CASE Launch \/ SecondLaunch \/ Create \/ CreateFails \/ FirstFrame
  BY <1>2 DEF Launch, SecondLaunch, Create, CreateFails, FirstFrame, proxyVars, Process, Leaving
<1>3. CASE KernelStarts \/ KernelEnds \/ TrayEvent
  BY <1>3 DEF KernelStarts, KernelEnds, TrayEvent, proxyVars, Process, Leaving
<1>4. CASE Set
  <2>1. op = Idle /\ ~shuttingDown /\ op'.by # "exit" /\ op'.at \in {"saved", "enable"}
        /\ UNCHANGED <<reg, effective, shuttingDown, life, cleanupDone, left>>
    BY <1>4 DEF Set, Apply, Goes, Process, Idle
  <2>2. left = <<>>
    <3>1. life = "up" \/ life = "destroying"  BY <1>4 DEF Set, MayCall
    <3> QED  BY <2>1, <3>1
  <2> QED  BY <2>1, <2>2
<1>5. CASE HangUp \/ Restores \/ RecoverAtStart
  <2>1. MayCall("clear")
    BY <1>5 DEF HangUp, Restores, RecoverAtStart, Clear
  <2>2. life = "up"  BY <2>1 DEF MayCall
  <2>3. ASSUME NEW caller \in {"hangUp", "watchdog", "startUp"}, Clear(caller) PROVE ExitInv'
    <3>1. op'.by # "exit" /\ op'.at \in {"backEnable", "off"}
          /\ UNCHANGED <<reg, effective, shuttingDown, life, cleanupDone, left>>
      BY <2>3 DEF Clear, Restore, Process, Idle
    <3> QED  BY <2>2, <3>1
  <2>4. ASSUME UNCHANGED <<proxyVars, Process>> PROVE ExitInv'
    BY <2>4 DEF proxyVars, Process, Leaving
  <2> QED  BY <1>5, <2>3, <2>4 DEF HangUp, Restores, RecoverAtStart
<1>6. CASE Proxy
  <2>1. UNCHANGED <<shuttingDown, life, cleanupDone, left>>
    BY <1>6 DEF Proxy, Process, ProxyStep, Note, NoteWritten, EnableKernel, NameKernel,
                TellKernel, TellBack, TellOff, Tell, BackEnable, BackServer, Consume,
                SwitchOff, Notify
  <2>2. op # Idle
    BY <1>6 DEF Proxy, ProxyStep, Note, NoteWritten, EnableKernel, NameKernel,
                TellKernel, TellBack, TellOff, Tell, BackEnable, BackServer, Consume,
                SwitchOff, Notify, Idle
  <2>3. \/ \E at \in Applying \cup Restoring : Goes(at) \/ Fails(at)
        \/ Returns
    BY <1>6 DEF Proxy, ProxyStep, Note, NoteWritten, EnableKernel, NameKernel,
                TellKernel, TellBack, TellOff, Tell, BackEnable, BackServer, Consume,
                SwitchOff, Notify, Applying, Restoring
  <2>4. op'.by = "exit" \/ op'.at = "terminate" => op.by = "exit"
    <3>1. op \in Operations  BY DEF TypeOK, ProxyTypeOK
    <3>2. CASE Returns  BY <3>1, <3>2 DEF Returns, Goes, Idle, Operations
    <3>3. ASSUME NEW at \in Applying \cup Restoring, Goes(at) \/ Fails(at)
          PROVE op'.by = op.by /\ op'.at # "terminate"
      BY <3>1, <3>3 DEF Goes, Fails, Operations, Applying, Restoring
    <3> QED  BY <2>3, <3>2, <3>3
  <2> QED  BY <2>1, <2>2, <2>4 DEF Leaving
<1>7. CASE Quit \/ SessionEnds \/ SessionDestroys
  <2>1. life' \in {"ending", "destroying"} /\ left' = left /\ op = Idle
        /\ shuttingDown' /\ cleanupDone' /\ UNCHANGED <<reg, effective>>
    BY <1>7 DEF Quit, SessionEnds, SessionDestroys, CleanupResources, Restore
  <2>2. left # <<>> => life = "ending"
    BY <1>7 DEF Quit, SessionEnds, SessionDestroys
  <2>3. life = "ending" => op' = op
    BY <1>7 DEF Quit, SessionEnds, SessionDestroys, CleanupResources
  <2> QED  BY <2>1, <2>2, <2>3 DEF Leaving
<1>8. CASE TerminateChildProcesses
  BY <1>8 DEF TerminateChildProcesses, Leaving, Idle
<1>9. CASE EngineStops
  <2>1. op = Idle /\ life = "destroying" /\ life' = "stopped"
        /\ UNCHANGED <<reg, effective, op, shuttingDown, cleanupDone, left>>
    BY <1>9 DEF EngineStops, proxyVars
  <2> QED  BY <2>1 DEF Leaving, Idle
<1>10. CASE ProcessEnds \/ Killed
  <2>1. op' = Idle /\ life' = "off" /\ UNCHANGED <<reg, effective>>
    BY <1>10 DEF ProcessEnds, Killed, Gone
  <2>2. left' = <<>> \/ left' = left  BY <1>10 DEF ProcessEnds, Killed
  <2> QED  BY <2>1, <2>2 DEF Idle
<1>11. CASE Edit
  <2>1. left' = <<>> /\ op = Idle /\ UNCHANGED <<op, shuttingDown, life, cleanupDone>>
    BY <1>11 DEF Edit, UserEdits
  <2> QED  BY <2>1 DEF Leaving, Idle
<1> QED
  BY <1>1, <1>2, <1>3, <1>4, <1>5, <1>6, <1>7, <1>8, <1>9, <1>10, <1>11 DEF Next

\* What the cleanup left stays, though a takeover may still be asked for after it.
THEOREM ExitAlwaysFinal == ASSUME LateCalls \subseteq {"set"} PROVE Spec => []ExitIsFinal
<1>1. Init => ExitInv  BY DEF Init, ProxyInit, ExitInv, Idle
<1>2. TypeOK /\ ExitInv /\ [Next]_vars => ExitInv'  BY ExitHolds
<1>3. ExitInv => ExitIsFinal  BY DEF ExitInv, ExitIsFinal
<1> QED  BY <1>1, <1>2, <1>3, TypeCorrect, PTL DEF Spec
=============================================================================
