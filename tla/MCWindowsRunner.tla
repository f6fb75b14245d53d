-------------------------- MODULE MCWindowsRunner --------------------------
(***************************************************************************)
(* The users of the checked instances: one with a proxy of his own, one    *)
(* without, and (MCEveryUser) those who switched a named one off or have   *)
(* one switched on that names nothing.                                     *)
(***************************************************************************)
EXTENDS WindowsRunner

MCTwoUsers == {[enable |-> 1, server |-> "user"], [enable |-> 0, server |-> "none"]}
MCEveryUser == [enable : {0, 1}, server : {"none", "user"}]
=============================================================================
