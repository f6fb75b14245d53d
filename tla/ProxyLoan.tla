------------------------------ MODULE ProxyLoan ------------------------------
(***************************************************************************)
(* What taking over the system proxy promises on every platform: the       *)
(* setting is borrowed beside a note of what the user had, and the note    *)
(* goes when the user's setting is back.  LinuxSystemProxy and the runner  *)
(* of Windows implement it, each with its own steps and its own faults.    *)
(***************************************************************************)

VARIABLES
  setting,  \* "theirs", "ours", or "mixed": neither the user's nor the kernel's
  note      \* "none", "begun" (a part of it is written), or "whole"

vars == <<setting, note>>

Init == setting = "theirs" /\ note = "none"

\* Without a note the setting is the user's affair.
Leave == note = "none" /\ setting' \in {"theirs", "mixed"} /\ UNCHANGED note

\* The note comes first.
Write ==
  /\ \/ note = "none" /\ note' \in {"begun", "whole"}
     \/ note = "begun" /\ note' = "whole"
  /\ UNCHANGED setting

\* Beside it the setting may be anything.
Use == note # "none" /\ setting' \in {"theirs", "ours", "mixed"} /\ UNCHANGED note

\* The note goes: a whole one when the setting is what it says, one that was never
\* finished when the setting is at least not ours.
Close ==
  /\ \/ note = "whole" /\ setting' = "theirs"
     \/ note = "begun" /\ setting' \in {"theirs", "mixed"}
  /\ note' = "none"

Next == Leave \/ Write \/ Use \/ Close

Spec == Init /\ [][Next]_vars
=============================================================================
