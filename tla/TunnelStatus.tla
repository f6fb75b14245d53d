---------------------------- MODULE TunnelStatus ----------------------------
(***************************************************************************)
(* What the connection ring promises: the status climbs one step at a time *)
(* from connecting to connected, climbing starts only when the user wants  *)
(* a connection, and it may fall back to disconnected at any time.         *)
(***************************************************************************)
VARIABLES
  want,    \* does the user want to be connected?
  status   \* what the ring shows

Statuses == {"disconnected", "connecting", "warmingUp", "connected"}

TypeOK == want \in BOOLEAN /\ status \in Statuses

Init == want = FALSE /\ status = "disconnected"

Decide     == want' \in BOOLEAN /\ UNCHANGED status
Dial       == want /\ status' = "connecting" /\ UNCHANGED want
KernelUp   == status = "connecting" /\ status' = "warmingUp" /\ UNCHANGED want
TunnelUp   == status = "warmingUp" /\ status' = "connected" /\ UNCHANGED want
Disconnect == status' = "disconnected" /\ UNCHANGED want

Next == Decide \/ Dial \/ KernelUp \/ TunnelUp \/ Disconnect

Spec == Init /\ [][Next]_<<want, status>>
=============================================================================
