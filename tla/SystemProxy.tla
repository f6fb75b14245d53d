---------------------------- MODULE SystemProxy ----------------------------
(***************************************************************************)
(* Taking over the system proxy of a GNOME desktop and giving it back      *)
(* (LinuxSystemProxy).                                                     *)
(*                                                                         *)
(* The proxy settings are Keys, written one at a time by an external       *)
(* command that is awaited; before the first is written, all are read into *)
(* a backup file.  The file is replaced in one step (written beside, then  *)
(* renamed).  Any command may fail, and the application may be killed      *)
(* between two of them; the settings and the file survive it.              *)
(*                                                                         *)
(* A value of a setting is the number of the user's edit it stems from, or *)
(* Ours.  Slots are the calls that may be under way at once: the callers   *)
(* are several, and nothing in the class makes one wait for another.       *)
(***************************************************************************)
EXTENDS Integers

CONSTANTS
  Keys,            \* how many settings there are; they are visited in order
  Slots,           \* calls that may be under way at once
  EditsBesideBackup,  \* may the user edit the settings while a backup exists?
  MaxSets, MaxClears, MaxFaults, MaxCrashes, MaxEdits  \* bounds on the environment

ASSUME ProxyAssumption ==
  /\ Keys \in Nat \ {0}
  /\ EditsBesideBackup \in BOOLEAN
  /\ MaxSets \in Nat /\ MaxClears \in Nat /\ MaxFaults \in Nat
  /\ MaxCrashes \in Nat /\ MaxEdits \in Nat

VARIABLES
  desktop,   \* [1..Keys -> value]: the settings
  backup,    \* the backup file: [1..Keys -> value] or NoBackup
  call,      \* [Slots -> call under way]
  starting,  \* the application has started, recoverIfNeeded is not called yet
  chosen,    \* history: the user's settings as the user last left them
  budget

vars == <<desktop, backup, call, starting, chosen, budget>>

Ours == -1

Settings == [1..Keys -> {Ours} \cup (0..MaxEdits)]
UserSettings == [1..Keys -> 0..MaxEdits]

NoBackup == <<>>

\* A call reads, writes or puts back the setting "at"; "with" is the backup it has in
\* memory, of which a call that reads has the settings before "at".
Idle == [pc |-> "idle", at |-> 1, with |-> NoBackup]

Calls ==
  [pc : {"idle", "capture", "apply", "restore"}, at : 1..Keys, with : Settings \cup {NoBackup}]

TypeOK ==
  /\ desktop \in Settings
  /\ backup \in Settings \cup {NoBackup}
  /\ call \in [Slots -> Calls]
  /\ starting \in BOOLEAN
  /\ chosen \in UserSettings
  /\ budget \in [sets : 0..MaxSets, clears : 0..MaxClears, faults : 0..MaxFaults,
                 crashes : 0..MaxCrashes, edits : 0..MaxEdits]

Init ==
  /\ desktop = [k \in 1..Keys |-> 0]
  /\ backup = NoBackup
  /\ call = [c \in Slots |-> Idle]
  /\ starting = TRUE
  /\ chosen = desktop
  /\ budget = [sets |-> MaxSets, clears |-> MaxClears, faults |-> MaxFaults,
               crashes |-> MaxCrashes, edits |-> MaxEdits]

Spend(b) == budget[b] > 0 /\ budget' = [budget EXCEPT ![b] = @ - 1]

Becomes(c, to) == call' = [call EXCEPT ![c] = to]

-----------------------------------------------------------------------------
(***************************************************************************)
(* set                                                                     *)
(***************************************************************************)
\* Mutant: the settings are captured whether or not a backup exists.
OpeningAlways == [pc |-> "capture", at |-> 1, with |-> desktop]

\* A backup that exists is kept: the settings may be Ours by now.
Opening ==
  IF backup = NoBackup
  THEN [pc |-> "capture", at |-> 1, with |-> desktop]
  ELSE [pc |-> "apply", at |-> 1, with |-> backup]

SetStarts(c) ==
  /\ ~starting /\ call[c] = Idle
  /\ Spend("sets")
  /\ Becomes(c, Opening)
  /\ UNCHANGED <<desktop, backup, starting, chosen>>

\* _capture: one setting is read.  After the last one the backup is written.
Captured(c) ==
  LET seen == [call[c] EXCEPT !.with[call[c].at] = desktop[call[c].at]] IN
  /\ call[c].pc = "capture"
  /\ IF call[c].at < Keys
     THEN Becomes(c, [seen EXCEPT !.at = @ + 1]) /\ UNCHANGED backup
     ELSE /\ backup' = seen.with
          /\ Becomes(c, [seen EXCEPT !.pc = "apply", !.at = 1])
  /\ UNCHANGED <<desktop, starting, chosen, budget>>

\* _apply: one setting is written.
Applied(c) ==
  /\ call[c].pc = "apply"
  /\ desktop' = [desktop EXCEPT ![call[c].at] = Ours]
  /\ Becomes(c, IF call[c].at < Keys THEN [call[c] EXCEPT !.at = @ + 1] ELSE Idle)
  /\ UNCHANGED <<backup, starting, chosen, budget>>

-----------------------------------------------------------------------------
(***************************************************************************)
(* clear, recoverIfNeeded                                                  *)
(***************************************************************************)
Restoring == [pc |-> "restore", at |-> 1, with |-> backup]

\* Without a backup a clear does nothing.
ClearStarts(c) ==
  /\ ~starting /\ call[c] = Idle
  /\ backup # NoBackup
  /\ Spend("clears")
  /\ Becomes(c, Restoring)
  /\ UNCHANGED <<desktop, backup, starting, chosen>>

\* Mutant: the call at start-up is forgotten.
RecoverNever(c) ==
  /\ starting /\ call[c] = Idle
  /\ starting' = FALSE
  /\ UNCHANGED <<call, desktop, backup, chosen, budget>>

\* The call at start-up.
Recover(c) ==
  /\ starting /\ call[c] = Idle
  /\ starting' = FALSE
  /\ IF backup = NoBackup THEN UNCHANGED call ELSE Becomes(c, Restoring)
  /\ UNCHANGED <<desktop, backup, chosen, budget>>

\* Mutant: the settings are put back to the desktop's defaults.
RestoredToDefaults(c) ==
  /\ call[c].pc = "restore"
  /\ desktop' = [desktop EXCEPT ![call[c].at] = 0]
  /\ Becomes(c, IF call[c].at < Keys THEN [call[c] EXCEPT !.at = @ + 1] ELSE Idle)
  /\ backup' = IF call[c].at < Keys THEN backup ELSE NoBackup
  /\ UNCHANGED <<starting, chosen, budget>>

\* _restore: one setting is put back.  After the last one the backup is deleted;
\* that may fail, and nobody is told.
Restored(c) ==
  /\ call[c].pc = "restore"
  /\ desktop' = [desktop EXCEPT ![call[c].at] = call[c].with[call[c].at]]
  /\ IF call[c].at < Keys
     THEN Becomes(c, [call[c] EXCEPT !.at = @ + 1]) /\ UNCHANGED <<backup, budget>>
     ELSE /\ Becomes(c, Idle)
          /\ \/ backup' = NoBackup /\ UNCHANGED budget
             \/ Spend("faults") /\ UNCHANGED backup
  /\ UNCHANGED <<starting, chosen>>

-----------------------------------------------------------------------------
\* A command of the call fails, or writing the backup does: the call gives up there.
CommandFails(c) ==
  /\ call[c] # Idle
  /\ Spend("faults")
  /\ Becomes(c, Idle)
  /\ UNCHANGED <<desktop, backup, starting, chosen>>

\* The application is killed and started again.
Crash ==
  /\ Spend("crashes")
  /\ call' = [c \in Slots |-> Idle]
  /\ starting' = TRUE
  /\ UNCHANGED <<desktop, backup, chosen>>

\* The user chooses other proxy settings in the desktop's own dialogue.
UserEdits ==
  /\ \A k \in 1..Keys : desktop[k] # Ours
  /\ \A c \in Slots : call[c] = Idle
  /\ EditsBesideBackup \/ backup = NoBackup
  /\ Spend("edits")
  /\ \E K \in (SUBSET (1..Keys)) \ {{}} :
       chosen' = [k \in 1..Keys |-> IF k \in K THEN MaxEdits - budget'.edits ELSE chosen[k]]
  /\ desktop' = chosen'
  /\ UNCHANGED <<backup, call, starting>>

Proceed(c) == Captured(c) \/ Applied(c) \/ Restored(c)

Next ==
  \/ \E c \in Slots : SetStarts(c) \/ ClearStarts(c) \/ Recover(c) \/ Proceed(c) \/ CommandFails(c)
  \/ Crash
  \/ UserEdits

Spec == Init /\ [][Next]_vars

\* A command that was started ends, and the start-up calls recoverIfNeeded.
Fairness == \A c \in Slots : WF_vars(Recover(c)) /\ WF_vars(Proceed(c))

FairSpec == Spec /\ Fairness

-----------------------------------------------------------------------------
\* What the user had is never lost: while any setting is Ours, the backup file holds
\* the user's own choice of every setting, wherever the calls, a failing command or a
\* kill left the settings.  (The backup is written before the first setting is, never
\* replaced, and deleted only after the last one is back.)
OriginalsSurvive == (\E k \in 1..Keys : desktop[k] = Ours) => backup = chosen

\* The loan: the backup is there before the first setting is Ours, and it goes when
\* every setting is what the user last chose.
Loan == INSTANCE ProxyLoan WITH
  setting <- IF desktop = chosen THEN "theirs"
             ELSE IF \E k \in 1..Keys : desktop[k] = Ours THEN "ours" ELSE "mixed",
  note <- IF backup = NoBackup THEN "none" ELSE "whole"
LoanSpec == Loan!Spec

\* When the backup goes, every setting is what the user last chose.  The code keeps this
\* for a user who leaves the settings alone while there is a backup; one who edits beside
\* it is handed the older values.  (SystemProxy.clear.)
HandedBack == [][backup # NoBackup /\ backup' = NoBackup => desktop' = chosen']_vars

\* Once commands no longer fail and the application is no longer killed, starting it
\* gives the settings back.  (recoverIfNeeded.)
RecoveredAtStart ==
  (starting /\ budget.faults = 0 /\ budget.crashes = 0) ~> (desktop = chosen)
=============================================================================
