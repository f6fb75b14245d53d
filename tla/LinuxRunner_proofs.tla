------------------------- MODULE LinuxRunner_proofs -------------------------
(***************************************************************************)
(* Proofs about LinuxRunner, for any number of clicks, signals and changes *)
(* of the panel.                                                           *)
(***************************************************************************)
EXTENDS LinuxRunner, TLAPS

QuitType == [requested : BOOLEAN, timer : BOOLEAN, asked : Nat]

\* Dart is asked when the request is made, and only then.
AskedInv == quit.asked <= 1 /\ (~quit.requested => quit.asked = 0)

\* What has been put back by the time Dart has got that far.
TunnelInv ==
  /\ dart \in {"starting", "listening"} => ~tunnel.kernel /\ ~tunnel.proxy
  /\ dart \in {"kernel", "quit", "over"} => (tunnel.proxy => tunnel.failed)
  /\ dart \in {"quit", "over"} => ~tunnel.kernel
  /\ dart \in {"proxy", "kernel", "quit", "over"} => quit.requested
  /\ life = "finished" => dart = "over"

IInv == TypeOK /\ AskedInv /\ TunnelInv

LEMMA RequestKeeps ==
  ASSUME TypeOK, AskedInv, RequestQuit
  PROVE  quit' \in QuitType /\ AskedInv' /\ quit'.requested
<1>1. CASE quit.requested  BY <1>1 DEF RequestQuit, TypeOK, QuitType, AskedInv
<1>2. CASE ~quit.requested
  <2>1. quit.asked = 0 /\ quit \in QuitType  BY <1>2 DEF AskedInv, TypeOK, QuitType
  <2>2. quit' = [quit EXCEPT !.requested = TRUE, !.timer = TRUE, !.asked = @ + 1]
    BY <1>2 DEF RequestQuit
  <2>3. quit'.requested = TRUE /\ quit'.timer = TRUE /\ quit'.asked = quit.asked + 1
    BY <2>1, <2>2 DEF QuitType
  <2>4. quit' \in [requested : BOOLEAN, timer : BOOLEAN, asked : {quit.asked + 1}]
    BY <2>1, <2>2 DEF QuitType
  <2>5. quit.asked + 1 = 1  BY <2>1
  <2>6. quit' \in QuitType  BY <2>4, <2>5 DEF QuitType
  <2> QED  BY <2>3, <2>5, <2>6 DEF AskedInv
<1> QED  BY <1>1, <1>2

LEMMA Holds == ASSUME IInv, [Next]_vars PROVE IInv'
<1> USE DEF IInv
<1>0. quit \in QuitType  BY DEF TypeOK, QuitType
<1>1. CASE FirstFrame \/ TrayShow \/ HostChanges \/ ApplyTrayState
  <2>1. CASE FirstFrame \/ TrayShow  BY <2>1 DEF FirstFrame, TrayShow, TypeOK, AskedInv, TunnelInv
  <2>2. UNCHANGED <<life, quit, dart, tunnel>>
    BY <1>1 DEF FirstFrame, TrayShow, HostChanges, ApplyTrayState
  <2>3. ASSUME HostChanges \/ ApplyTrayState
        PROVE  tray' \in [indicator : BOOLEAN, host : BOOLEAN, grey : BOOLEAN,
                          icon : {"normal", "grey"}]
    <3>1. CASE HostChanges  BY <3>1 DEF HostChanges, TypeOK
    <3>2. CASE ApplyTrayState  BY <3>2 DEF ApplyTrayState, TypeOK
    <3> QED  BY <2>3, <3>1, <3>2
  <2>4. CASE HostChanges \/ ApplyTrayState
    <3>1. UNCHANGED <<window, armed, want, wished>>
      BY <2>4 DEF HostChanges, ApplyTrayState
    <3> QED  BY <2>2, <2>3, <2>4, <3>1 DEF TypeOK, AskedInv, TunnelInv
  <2> QED  BY <1>1, <2>1, <2>4
<1>2. CASE Close \/ TrayQuit \/ \E s \in Signals : Signal(s)
  <2>1. /\ UNCHANGED <<tray, dart, tunnel, want, wished>>
        /\ RequestQuit \/ UNCHANGED quit
        /\ life' \in {life, "killed"}
        /\ window' \in {window, "hidden"}
        /\ armed' \in SUBSET Signals
    BY <1>2 DEF Close, TrayQuit, Signal, TypeOK
  <2>2. quit' \in QuitType /\ AskedInv' /\ (quit.requested => quit'.requested)
    BY <1>0, <2>1, RequestKeeps DEF AskedInv
  <2>3. TypeOK'  BY <2>1, <2>2 DEF TypeOK, QuitType
  <2>4. TunnelInv'  BY <2>1, <2>2 DEF TunnelInv
  <2> QED  BY <2>2, <2>3, <2>4
<1>3. CASE DartStarts
  BY <1>3 DEF DartStarts, TypeOK, AskedInv, TunnelInv
<1>4. CASE \E on \in BOOLEAN : UserTurns(on)
  BY <1>4 DEF UserTurns, TypeOK, AskedInv, TunnelInv
<1>5. CASE Asked
  <2>1. quit.requested  BY <1>5 DEF Asked, AskedInv
  <2>2. /\ dart \in {"listening", "ready"} /\ dart' \in {"quit", "proxy"}
        /\ dart' = "quit" => dart = "listening"
        /\ UNCHANGED <<life, window, quit, tray, armed, tunnel, wished>>
        /\ want' \in {want, FALSE} /\ Running
    BY <1>5 DEF Asked
  <2>3. want' \in BOOLEAN  BY <2>2 DEF TypeOK
  <2>4. TypeOK' /\ AskedInv'  BY <2>2, <2>3 DEF TypeOK, AskedInv
  <2>5. TunnelInv'  BY <2>1, <2>2 DEF TunnelInv, Running
  <2> QED  BY <2>4, <2>5
<1>6. CASE ProxyCleared
  <2>1. dart' = "kernel" /\ UNCHANGED <<life, window, quit, tray, armed, want, wished>>
        /\ quit.requested /\ life # "finished"
    BY <1>6 DEF ProxyCleared, TunnelInv
  <2>2. tunnel' \in [kernel : BOOLEAN, proxy : BOOLEAN, failed : BOOLEAN]
        /\ (tunnel'.proxy => tunnel'.failed)
    BY <1>6 DEF ProxyCleared, TypeOK
  <2> QED  BY <2>1, <2>2 DEF TypeOK, AskedInv, TunnelInv
<1>7. CASE KernelStopped
  <2>1. dart = "kernel" /\ dart' = "quit" /\ UNCHANGED <<life, window, quit, tray, armed, want, wished>>
    BY <1>7 DEF KernelStopped
  <2>2. tunnel' = [tunnel EXCEPT !.kernel = FALSE]  BY <1>7 DEF KernelStopped
  <2>3. /\ tunnel' \in [kernel : BOOLEAN, proxy : BOOLEAN, failed : BOOLEAN]
        /\ tunnel'.kernel = FALSE /\ tunnel'.proxy = tunnel.proxy /\ tunnel'.failed = tunnel.failed
    BY <2>2 DEF TypeOK
  <2> QED  BY <2>1, <2>3 DEF TypeOK, AskedInv, TunnelInv
<1>8. CASE FinishQuit
  <2>1. quit' \in QuitType /\ quit'.requested /\ quit'.asked = quit.asked
    BY <1>0, <1>8 DEF FinishQuit, QuitType
  <2>2. dart = "quit" /\ dart' = "over" /\ life' = "finished"
        /\ UNCHANGED <<window, tray, armed, tunnel, want, wished>>
    BY <1>8 DEF FinishQuit
  <2> QED  BY <2>1, <2>2 DEF TypeOK, QuitType, AskedInv, TunnelInv
<1>9. CASE Fallback
  <2>1. quit' \in QuitType /\ quit'.requested = quit.requested /\ quit'.asked = quit.asked
    BY <1>0, <1>9 DEF Fallback, QuitType
  <2>2. life' \in {life, "cutOff"} /\ UNCHANGED <<window, tray, armed, dart, tunnel, want, wished>>
    BY <1>9 DEF Fallback
  <2> QED  BY <2>1, <2>2 DEF TypeOK, QuitType, AskedInv, TunnelInv
<1>10. CASE UNCHANGED vars  BY <1>10 DEF vars, TypeOK, AskedInv, TunnelInv
<1> QED
  BY <1>1, <1>2, <1>3, <1>4, <1>5, <1>6, <1>7, <1>8, <1>9, <1>10 DEF Next

LEMMA Invariant == Spec => []IInv
<1>1. Init => IInv
  BY DEF Init, SetUp, IInv, TypeOK, AskedInv, TunnelInv, Signals
<1>2. IInv /\ [Next]_vars => IInv'  BY Holds
<1> QED  BY <1>1, <1>2, PTL DEF Spec

\* Every variable keeps its type.
THEOREM TypeCorrect == Spec => []TypeOK
<1>1. IInv => TypeOK  BY DEF IInv
<1> QED  BY <1>1, Invariant, PTL

\* Dart is asked to quit once, however many ways out are taken.
THEOREM AlwaysAskedOnce == Spec => []AskedOnce
<1>1. IInv => AskedOnce  BY DEF IInv, AskedInv, AskedOnce
<1> QED  BY <1>1, Invariant, PTL

\* The orderly end leaves no kernel, and the proxy only when putting it back failed.
THEOREM FinishedAlwaysClean == Spec => []FinishedIsClean
<1>1. IInv => FinishedIsClean  BY DEF IInv, TunnelInv, FinishedIsClean
<1> QED  BY <1>1, Invariant, PTL

\* As long as the panel stays while the window is hidden, the process can be reached.
THEOREM HiddenAlwaysReachable == ASSUME ~HostLeaves PROVE Spec => []HiddenIsReachable
<1>1. Init => HiddenIsReachable  BY DEF Init, SetUp, HiddenIsReachable
<1>2. IInv /\ HiddenIsReachable /\ [Next]_vars => HiddenIsReachable'
  <2> SUFFICES ASSUME IInv, HiddenIsReachable, [Next]_vars PROVE HiddenIsReachable'  OBVIOUS
  <2> USE DEF HiddenIsReachable, Running
  <2>0. quit \in QuitType /\ TypeOK /\ AskedInv  BY DEF IInv, TypeOK, QuitType
  <2>1. CASE Close
    <3>1. CASE TrayIsUsable  BY <2>1, <3>1 DEF Close, TrayIsUsable
    <3>2. CASE ~TrayIsUsable  BY <2>0, <2>1, <3>2, RequestKeeps DEF Close
    <3> QED  BY <3>1, <3>2
  <2>2. CASE TrayQuit \/ \E s \in Signals : Signal(s)
    <3>1. RequestQuit \/ life' = "killed"  BY <2>2 DEF TrayQuit, Signal
    <3>2. RequestQuit => quit'.requested  BY <2>0, RequestKeeps
    <3> QED  BY <3>1, <3>2
  <2>3. CASE FirstFrame \/ TrayShow  BY <2>3 DEF FirstFrame, TrayShow
  <2>4. CASE HostChanges
    <3>1. UNCHANGED <<life, window, quit>>  BY <2>4 DEF HostChanges
    <3>2. PICK host \in BOOLEAN : (host \/ window # "hidden") /\ tray' = [tray EXCEPT !.host = host]
      BY <2>4 DEF HostChanges
    <3>3. tray'.indicator = tray.indicator /\ tray'.host = host
      BY <2>0, <3>2 DEF TypeOK
    <3>4. CASE window = "hidden" /\ Running /\ ~quit.requested
      <4>1. tray.indicator /\ host  BY <3>2, <3>4
      <4> QED  BY <3>3, <4>1
    <3> QED  BY <3>1, <3>4
  <2>5. CASE ApplyTrayState
    <3>1. UNCHANGED <<life, window, quit>>  BY <2>5 DEF ApplyTrayState
    <3>2. tray'.indicator = tray.indicator /\ tray'.host = tray.host
      BY <2>0, <2>5 DEF ApplyTrayState, TypeOK
    <3> QED  BY <3>1, <3>2
  <2>6. CASE DartStarts \/ (\E on \in BOOLEAN : UserTurns(on)) \/ Asked
    BY <2>6 DEF DartStarts, UserTurns, Asked
  <2>7. CASE ProxyCleared \/ KernelStopped  BY <2>7 DEF ProxyCleared, KernelStopped
  <2>8. CASE FinishQuit  BY <2>8 DEF FinishQuit
  <2>9. CASE Fallback
    <3>1. quit'.requested = quit.requested  BY <2>0, <2>9 DEF Fallback, QuitType
    <3> QED  BY <2>9, <3>1 DEF Fallback
  <2>10. CASE UNCHANGED vars  BY <2>10 DEF vars
  <2> QED
    BY <2>1, <2>2, <2>3, <2>4, <2>5, <2>6, <2>7, <2>8, <2>9, <2>10 DEF Next
<1> QED  BY <1>1, <1>2, Invariant, PTL DEF Spec
=============================================================================
