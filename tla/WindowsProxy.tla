---------------------------- MODULE WindowsProxy ----------------------------
(***************************************************************************)
(* Taking over the system proxy of Windows and giving it back              *)
(* (ApplySystemProxy and RestoreSystemProxy of the runner).                *)
(*                                                                         *)
(* The settings and the note of what the user had (the backup) are values  *)
(* in the registry; they outlive the process.  Programs that run already   *)
(* use what WinINET last told them ("effective"), which need not be what   *)
(* the registry says.  Every write is a step of its own: it may be         *)
(* refused, and the process may be killed after it.  Both operations run   *)
(* on the thread of the window, so there is one at a time.                 *)
(*                                                                         *)
(* WindowsRunner says when they are called and by whom.                    *)
(***************************************************************************)
EXTENDS Integers

CONSTANTS
  UserSettings,  \* the settings a user may have chosen
  FaultyWrites,  \* the kinds of write that may be refused
  MaxFaults      \* bound on how many are

\* "none" is the empty string, or no value at all: the code reads both alike.
Servers == {"none", "user", "kernel"}
Settings == [enable : {0, 1}, server : Servers]

ASSUME WindowsProxyAssumption ==
  /\ UserSettings \subseteq [enable : {0, 1}, server : {"none", "user"}]
  /\ UserSettings # {}
  /\ FaultyWrites \subseteq {"settings", "delete", "backup"}
  /\ MaxFaults \in Nat

VARIABLES
  reg,           \* Internet Settings: [enable, server]
  backup,        \* the note: [saved, enable, server]
  effective,     \* the proxy that running programs use
  op,            \* the operation under way
  shuttingDown,  \* g_shutting_down
  original,      \* history: what the user had when the last loan began, or set since
  faults         \* writes that may still be refused

proxyVars == <<reg, backup, effective, op, shuttingDown, original, faults>>

\* -1 and "absent" are values that have not been written to the note.
Notes == [saved : BOOLEAN, enable : {0, 1, -1}, server : Servers \cup {"absent"}]
NoNote == [saved |-> FALSE, enable |-> -1, server |-> "absent"]
Whole(note) == note.enable # -1 /\ note.server # "absent"

\* Who called it; "exit" is CleanupResources, which ends the kernel next.
Callers == {"set", "hangUp", "startUp", "watchdog", "exit"}
Idle == [at |-> "idle", ok |-> TRUE, by |-> "set"]
Applying == {"saved", "savedEnable", "savedServer", "enable", "server", "wininet"}
Restoring == {"backEnable", "backServer", "backWininet", "consume", "off", "offWininet", "notify"}
Operations ==
  [at : {"idle", "terminate"} \cup Applying \cup Restoring, ok : BOOLEAN, by : Callers]

\* What settings make of a program that reads them.
Means(s) == IF s.enable = 1 THEN s.server ELSE "none"

\* What the note says; a value that is missing reads as 0 or the empty string.
Noted ==
  [enable |-> IF backup.enable = -1 THEN 0 ELSE backup.enable,
   server |-> IF backup.server = "absent" THEN "none" ELSE backup.server]

ProxyTypeOK ==
  /\ reg \in Settings
  /\ backup \in Notes
  /\ effective \in Servers
  /\ op \in Operations
  /\ shuttingDown \in BOOLEAN
  /\ original \in Settings
  /\ faults \in 0..MaxFaults

ProxyInit ==
  /\ reg \in UserSettings
  /\ backup = NoNote
  /\ effective = Means(reg)
  /\ op = Idle
  /\ shuttingDown = FALSE
  /\ original = reg
  /\ faults = MaxFaults

Refused(kind) == kind \in FaultyWrites /\ faults > 0 /\ faults' = faults - 1

Goes(at) == op' = [op EXCEPT !.at = at]
Fails(at) == op' = [op EXCEPT !.at = at, !.ok = FALSE]

\* The operation is over; an exit goes on with the children.
Returns == IF op.by = "exit" THEN Goes("terminate") ELSE op' = Idle

-----------------------------------------------------------------------------
(***************************************************************************)
(* ApplySystemProxy                                                        *)
(***************************************************************************)
\* Mutant: the user's settings are noted although a note exists.
ApplyNotesAgain ==
  /\ op = Idle /\ ~shuttingDown
  /\ Goes("saved")
  /\ original' = IF backup.saved THEN original ELSE reg
  /\ UNCHANGED <<reg, backup, effective, shuttingDown, faults>>

\* A loan begins where there is no note; without one nothing in the registry is ours.
Apply ==
  /\ op = Idle /\ ~shuttingDown
  /\ Goes(IF backup.saved THEN "enable" ELSE "saved")
  /\ original' = IF backup.saved THEN original ELSE reg
  /\ UNCHANGED <<reg, backup, effective, shuttingDown, faults>>

\* The three values of the note.  Nobody looks whether they were written.
NoteWritten(at, noted, then) ==
  /\ op.at = at
  /\ \/ backup' = noted /\ UNCHANGED faults
     \/ Refused("backup") /\ UNCHANGED backup
  /\ Goes(then)
  /\ UNCHANGED <<reg, effective, shuttingDown, original>>

Note ==
  \/ NoteWritten("saved", [backup EXCEPT !.saved = TRUE], "savedEnable")
  \/ NoteWritten("savedEnable", [backup EXCEPT !.enable = reg.enable], "savedServer")
  \/ NoteWritten("savedServer", [backup EXCEPT !.server = reg.server], "enable")

\* ProxyEnable, then ProxyServer, which is not tried after ProxyEnable was refused.
EnableKernel ==
  /\ op.at = "enable"
  /\ \/ reg' = [reg EXCEPT !.enable = 1] /\ Goes("server") /\ UNCHANGED faults
     \/ Refused("settings") /\ Fails("wininet") /\ UNCHANGED reg
  /\ UNCHANGED <<backup, effective, shuttingDown, original>>

NameKernel ==
  /\ op.at = "server"
  /\ \/ reg' = [reg EXCEPT !.server = "kernel"] /\ Goes("wininet") /\ UNCHANGED faults
     \/ Refused("settings") /\ Fails("wininet") /\ UNCHANGED reg
  /\ UNCHANGED <<backup, effective, shuttingDown, original>>

\* ApplyWinInetProxy: running programs are given the proxy, or at least told to read
\* the registry; when both calls are refused they keep what they use.
Tell(at, proxy, next) ==
  /\ op.at = at
  /\ \/ effective' \in {proxy, Means(reg)} /\ next /\ UNCHANGED faults
     \/ /\ Refused("settings") /\ UNCHANGED effective
        /\ IF at = "backWininet" THEN Fails("consume") ELSE next
  /\ UNCHANGED <<reg, backup, shuttingDown, original>>

TellKernel == Tell("wininet", "kernel", Returns)

\* ApplySystemProxy returns TRUE: no write of the settings was refused, nor this one.
Applied == TellKernel /\ op.ok /\ faults' = faults

-----------------------------------------------------------------------------
(***************************************************************************)
(* RestoreSystemProxy                                                      *)
(***************************************************************************)
Restore(caller) ==
  /\ op = Idle
  /\ op' = [Idle EXCEPT !.at = IF backup.saved THEN "backEnable" ELSE "off", !.by = caller]
  /\ UNCHANGED <<reg, backup, effective, original, faults>>

\* Mutant: the proxy is switched off, whatever the user had.
BackEnableOff ==
  /\ op.at = "backEnable"
  /\ \/ reg' = [reg EXCEPT !.enable = 0] /\ Goes("backServer") /\ UNCHANGED faults
     \/ Refused("settings") /\ Fails("backServer") /\ UNCHANGED reg
  /\ UNCHANGED <<backup, effective, shuttingDown, original>>

\* With a note: what it says is written back.
BackEnable ==
  /\ op.at = "backEnable"
  /\ \/ reg' = [reg EXCEPT !.enable = Noted.enable] /\ Goes("backServer") /\ UNCHANGED faults
     \/ Refused("settings") /\ Fails("backServer") /\ UNCHANGED reg
  /\ UNCHANGED <<backup, effective, shuttingDown, original>>

\* A user who had no server has the value deleted; nobody looks whether it was.
BackServer ==
  /\ op.at = "backServer"
  /\ \/ reg' = [reg EXCEPT !.server = Noted.server] /\ Goes("backWininet") /\ UNCHANGED faults
     \/ Noted.server # "none" /\ Refused("settings") /\ Fails("backWininet") /\ UNCHANGED reg
     \/ Noted.server = "none" /\ Refused("delete") /\ Goes("backWininet") /\ UNCHANGED reg
  /\ UNCHANGED <<backup, effective, shuttingDown, original>>

TellBack == Tell("backWininet", Means(Noted), Goes("consume"))

\* ConsumeProxyBackup, only after a success: the key is deleted; when it is still there
\* the mark is taken off it.
Consume ==
  /\ op.at = "consume"
  /\ \/ op.ok /\ backup' = NoNote /\ UNCHANGED faults
     \/ op.ok /\ Refused("backup") /\ backup' = [backup EXCEPT !.saved = FALSE]
     \/ ~op.ok /\ UNCHANGED <<backup, faults>>
  /\ Goes("notify")
  /\ UNCHANGED <<reg, effective, shuttingDown, original>>

\* Without a note: the proxy is switched off, whoever switched it on.
SwitchOff ==
  /\ op.at = "off"
  /\ \/ reg' = [reg EXCEPT !.enable = 0] /\ Goes("offWininet") /\ UNCHANGED faults
     \/ Refused("settings") /\ Fails("notify") /\ UNCHANGED reg
  /\ UNCHANGED <<backup, effective, shuttingDown, original>>

TellOff == Tell("offWininet", "none", Goes("notify"))

\* NotifyProxyChanged: programs that listen read the registry again.
Notify ==
  /\ op.at = "notify"
  /\ effective' \in {effective, Means(reg)}
  /\ Returns
  /\ UNCHANGED <<reg, backup, shuttingDown, original, faults>>

ProxyStep ==
  \/ Note \/ EnableKernel \/ NameKernel \/ TellKernel
  \/ BackEnable \/ BackServer \/ TellBack \/ Consume
  \/ SwitchOff \/ TellOff \/ Notify

-----------------------------------------------------------------------------
\* The user sets a proxy of his own, or none.  The user leaves the settings alone while
\* they are the application's.
UserEdits ==
  /\ op = Idle /\ ~backup.saved
  /\ reg' \in UserSettings \ {reg}
  /\ effective' = Means(reg')
  /\ original' = reg'
  /\ UNCHANGED <<backup, op, shuttingDown, faults>>
=============================================================================
