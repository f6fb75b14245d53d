------------------------- MODULE SystemProxy_proofs -------------------------
(***************************************************************************)
(* Proofs about SystemProxy for calls that run one at a time, for every    *)
(* number of settings and every number of calls, faults, kills and edits.  *)
(***************************************************************************)
EXTENDS SystemProxy, TLAPS

\* The types the argument needs.
Typed ==
  /\ desktop \in [1..Keys -> Int]
  /\ chosen \in [1..Keys -> Int] /\ \A k \in 1..Keys : chosen[k] \in Nat
  /\ budget.edits \in Nat /\ MaxEdits - budget.edits \in Nat
  /\ budget = [sets |-> budget.sets, clears |-> budget.clears, faults |-> budget.faults,
               crashes |-> budget.crashes, edits |-> budget.edits]

\* Without a backup nothing was touched; with one it holds what the user chose.
BackupInv ==
  /\ backup = NoBackup => desktop = chosen
  /\ backup # NoBackup => backup = chosen

\* How far a call has got.
CallInv(c) ==
  /\ call = [x \in {c} |-> call[c]]
  /\ call[c] = [pc |-> call[c].pc, at |-> call[c].at, with |-> call[c].with]
  /\ call[c].pc \in {"idle", "capture", "apply", "restore"}
  /\ call[c].at \in 1..Keys
  /\ call[c].pc = "idle" => call[c] = Idle
  /\ call[c].pc = "capture" =>
       /\ backup = NoBackup
       /\ call[c].with \in [1..Keys -> Int]
       /\ \A k \in 1..Keys : k < call[c].at => call[c].with[k] = chosen[k]
  /\ call[c].pc \in {"apply", "restore"} => backup = chosen
  /\ call[c].pc = "restore" =>
       /\ call[c].with = chosen
       /\ \A k \in 1..Keys : k < call[c].at => desktop[k] = chosen[k]

IInv(c) == Typed /\ BackupInv /\ CallInv(c)

\* What the user chose is not the empty file.
LEMMA ChosenIsABackup == ASSUME Typed PROVE chosen # NoBackup
<1>1. DOMAIN chosen = 1..Keys  BY DEF Typed
<1>2. 1 \in 1..Keys  BY ProxyAssumption
<1>3. DOMAIN NoBackup = {}  BY DEF NoBackup
<1> QED  BY <1>1, <1>2, <1>3

\* The invariant says that the originals survive.
LEMMA IInvSuffices == ASSUME NEW c, IInv(c) PROVE OriginalsSurvive
<1> SUFFICES ASSUME NEW k \in 1..Keys, desktop[k] = Ours PROVE backup = chosen
  BY DEF OriginalsSurvive
<1>1. chosen[k] \in Nat  BY DEF IInv, Typed
<1>2. desktop # chosen  BY <1>1 DEF Ours
<1> QED  BY <1>2 DEF IInv, BackupInv

LEMMA InitIInv == ASSUME NEW c, Slots = {c}, Init PROVE IInv(c)
<1>1. Typed  BY ProxyAssumption DEF Init, Typed
<1>2. BackupInv  BY DEF Init, BackupInv
<1>3. CallInv(c)  BY ProxyAssumption DEF Init, CallInv, Idle
<1> QED  BY <1>1, <1>2, <1>3 DEF IInv

\* A budget that is spent stays a budget.
LEMMA SpentTyped ==
  ASSUME Typed, NEW b \in {"sets", "clears", "faults", "crashes"}, Spend(b)
  PROVE  /\ budget'.edits = budget.edits
         /\ budget' = [sets |-> budget'.sets, clears |-> budget'.clears,
                       faults |-> budget'.faults, crashes |-> budget'.crashes,
                       edits |-> budget'.edits]
BY DEF Typed, Spend

\* Every step keeps the invariant.
LEMMA StepIInv ==
  ASSUME NEW c, Slots = {c}, ~EditsBesideBackup, IInv(c), [Next]_vars PROVE IInv(c)'
<1> USE DEF Becomes
<1>0. chosen # NoBackup  BY ChosenIsABackup DEF IInv
<1>1. CASE SetStarts(c)
  <2>1. Typed'  BY <1>1, SpentTyped DEF SetStarts, IInv, Typed
  <2>2. BackupInv'  BY <1>1 DEF SetStarts, IInv, BackupInv
  <2>3. call'[c] = Opening /\ call' = [x \in {c} |-> call'[c]]
    BY <1>1 DEF SetStarts, IInv, CallInv
  <2>4. CASE backup = NoBackup
    <3>1. call'[c] = [pc |-> "capture", at |-> 1, with |-> desktop]  BY <2>3, <2>4 DEF Opening
    <3>2. backup' = NoBackup  BY <1>1, <2>4 DEF SetStarts
    <3> QED  BY <2>1, <2>2, <2>3, <3>1, <3>2, <1>1, ProxyAssumption
             DEF IInv, Typed, CallInv, SetStarts
  <2>5. CASE backup # NoBackup
    <3>1. call'[c] = [pc |-> "apply", at |-> 1, with |-> backup]  BY <2>3, <2>5 DEF Opening
    <3>2. backup' = chosen'  BY <1>1, <2>5 DEF SetStarts, IInv, BackupInv
    <3> QED  BY <2>1, <2>2, <2>3, <3>1, <3>2, ProxyAssumption DEF IInv, CallInv
  <2> QED  BY <2>4, <2>5
<1>2. CASE ClearStarts(c)
  <2>1. Typed'  BY <1>2, SpentTyped DEF ClearStarts, IInv, Typed
  <2>2. BackupInv'  BY <1>2 DEF ClearStarts, IInv, BackupInv
  <2>3. /\ call'[c] = [pc |-> "restore", at |-> 1, with |-> chosen']
        /\ call' = [x \in {c} |-> call'[c]]
        /\ backup' = chosen'
    BY <1>2 DEF ClearStarts, Restoring, IInv, CallInv, BackupInv
  <2> QED  BY <2>1, <2>2, <2>3, ProxyAssumption DEF IInv, CallInv
<1>3. CASE Recover(c)
  <2>1. Typed' /\ BackupInv'  BY <1>3 DEF Recover, IInv, Typed, BackupInv
  <2>2. CASE backup = NoBackup
    BY <1>3, <2>1, <2>2 DEF Recover, IInv, CallInv, Idle
  <2>3. CASE backup # NoBackup
    <3>1. /\ call'[c] = [pc |-> "restore", at |-> 1, with |-> chosen']
          /\ call' = [x \in {c} |-> call'[c]]
          /\ backup' = chosen'
      BY <1>3, <2>3 DEF Recover, Restoring, IInv, CallInv, BackupInv
    <3> QED  BY <2>1, <3>1, ProxyAssumption DEF IInv, CallInv
  <2> QED  BY <2>2, <2>3
<1>4. CASE Captured(c)
  <2> DEFINE k == call[c].at
             read == [call[c].with EXCEPT ![k] = desktop[k]]
  <2>1. /\ call[c].pc = "capture" /\ backup = NoBackup /\ k \in 1..Keys
        /\ call[c].with \in [1..Keys -> Int] /\ desktop = chosen
    BY <1>4 DEF Captured, IInv, CallInv, BackupInv
  <2>2. read \in [1..Keys -> Int] /\ \A j \in 1..Keys : j <= k => read[j] = chosen[j]
    <3>1. \A j \in 1..Keys : j < k => call[c].with[j] = chosen[j]
      BY <2>1 DEF IInv, CallInv
    <3>2. desktop[k] = chosen[k] /\ desktop[k] \in Int  BY <2>1 DEF IInv, Typed
    <3>3. k \in Int /\ \A j \in 1..Keys : j <= k => j = k \/ j < k  BY <2>1
    <3> DEFINE with == call[c].with
    <3>4. with \in [1..Keys -> Int]  BY <2>1
    <3> HIDE DEF with, k
    <3>5. [with EXCEPT ![k] = desktop[k]] \in [1..Keys -> Int]  BY <3>2, <3>4
    <3>6. \A j \in 1..Keys : j <= k => [with EXCEPT ![k] = desktop[k]][j] = chosen[j]
      BY <3>1, <3>2, <3>3, <3>4 DEF with
    <3> QED  BY <3>5, <3>6 DEF with
  <2>3. Typed'  BY <1>4 DEF Captured, IInv, Typed
  <2>4. UNCHANGED <<desktop, chosen>>  BY <1>4 DEF Captured
  <2>5. CASE k < Keys
    <3>1. /\ call'[c] = [pc |-> "capture", at |-> k + 1, with |-> read]
          /\ call' = [x \in {c} |-> call'[c]] /\ backup' = NoBackup
      BY <1>4, <2>1, <2>5 DEF Captured, IInv, CallInv
    <3>2. k + 1 \in 1..Keys /\ \A j \in 1..Keys : j < k + 1 => j <= k
      BY <2>1, <2>5, ProxyAssumption
    <3>3. BackupInv'  BY <2>1, <2>4, <3>1 DEF BackupInv
    <3>4. CallInv(c)'  BY <2>2, <2>4, <3>1, <3>2 DEF CallInv
    <3> QED  BY <2>3, <3>3, <3>4 DEF IInv
  <2>6. CASE ~(k < Keys)
    <3>0. call' = [call EXCEPT ![c] = [call[c] EXCEPT !.with = read, !.pc = "apply", !.at = 1]]
          /\ backup' = read
      BY <1>4, <2>6 DEF Captured
    <3>1. /\ call'[c] = [pc |-> "apply", at |-> 1, with |-> read]
          /\ call' = [x \in {c} |-> call'[c]] /\ backup' = read
      BY <3>0 DEF IInv, CallInv
    <3>2. \A j \in 1..Keys : j <= k  BY <2>1, <2>6, ProxyAssumption
    <3>3. read = chosen
      <4>1. \A j \in 1..Keys : read[j] = chosen[j]  BY <2>2, <3>2
      <4>2. read = [j \in 1..Keys |-> read[j]]  BY <2>2
      <4>3. chosen = [j \in 1..Keys |-> chosen[j]]  BY DEF IInv, Typed
      <4> HIDE DEF read
      <4> QED  BY <4>1, <4>2, <4>3
    <3>4. BackupInv'  BY <1>0, <2>4, <3>1, <3>3 DEF BackupInv
    <3>5. CallInv(c)'  BY <2>4, <3>1, <3>3, ProxyAssumption DEF CallInv
    <3> QED  BY <2>3, <3>4, <3>5 DEF IInv
  <2> QED  BY <2>5, <2>6
<1>5. CASE Applied(c)
  <2>1. Typed'
    <3>1. desktop' = [desktop EXCEPT ![call[c].at] = -1]  BY <1>5 DEF Applied, Ours
    <3>2. desktop \in [1..Keys -> Int] /\ -1 \in Int  BY DEF IInv, Typed
    <3>3. desktop' \in [1..Keys -> Int]  BY <3>1, <3>2
    <3> QED  BY <1>5, <3>3 DEF Applied, IInv, Typed
  <2>2. backup' = chosen' /\ backup' # NoBackup  BY <1>0, <1>5 DEF Applied, IInv, CallInv
  <2>3. BackupInv'  BY <2>2 DEF BackupInv
  <2>4. CASE call[c].at < Keys
    <3>1. /\ call'[c] = [pc |-> "apply", at |-> call[c].at + 1, with |-> call[c].with]
          /\ call' = [x \in {c} |-> call'[c]]
      BY <1>5, <2>4 DEF Applied, IInv, CallInv
    <3>2. call[c].at + 1 \in 1..Keys  BY <2>4, ProxyAssumption DEF IInv, CallInv
    <3> QED  BY <2>1, <2>2, <2>3, <3>1, <3>2 DEF IInv, CallInv
  <2>5. CASE ~(call[c].at < Keys)
    <3>1. call'[c] = Idle /\ call' = [x \in {c} |-> call'[c]]
      BY <1>5, <2>5 DEF Applied, IInv, CallInv
    <3> QED  BY <2>1, <2>3, <3>1, ProxyAssumption DEF IInv, CallInv, Idle
  <2> QED  BY <2>4, <2>5
<1>6. CASE Restored(c)
  <2> DEFINE k == call[c].at
  <2>1. /\ backup = chosen /\ k \in 1..Keys /\ call[c].pc = "restore"
        /\ call[c].with = chosen
        /\ \A j \in 1..Keys : j < k => desktop[j] = chosen[j]
    BY <1>6 DEF Restored, IInv, CallInv
  <2>2. desktop' = [desktop EXCEPT ![k] = chosen[k]] /\ chosen' = chosen
    BY <1>6, <2>1 DEF Restored
  <2>3. \A j \in 1..Keys : j <= k => desktop'[j] = chosen[j]
    BY <2>1, <2>2 DEF IInv, Typed
  <2>4. CASE k < Keys
    <3>1. /\ call'[c] = [pc |-> "restore", at |-> k + 1, with |-> chosen]
          /\ call' = [x \in {c} |-> call'[c]] /\ backup' = chosen /\ budget' = budget
      BY <1>6, <2>1, <2>4 DEF Restored, IInv, CallInv
    <3>2. k + 1 \in 1..Keys /\ \A j \in 1..Keys : j < k + 1 => j <= k
      BY <2>1, <2>4, ProxyAssumption
    <3>3. Typed'  BY <2>1, <2>2, <3>1 DEF IInv, Typed
    <3>4. BackupInv'  BY <1>0, <2>2, <3>1 DEF BackupInv
    <3>5. CallInv(c)'  BY <2>2, <2>3, <3>1, <3>2 DEF CallInv
    <3> QED  BY <3>3, <3>4, <3>5 DEF IInv
  <2>5. CASE ~(k < Keys)
    <3>1. /\ call'[c] = Idle /\ call' = [x \in {c} |-> call'[c]]
          /\ \/ backup' = NoBackup /\ budget' = budget
             \/ Spend("faults") /\ backup' = chosen
      BY <1>6, <2>1, <2>5 DEF Restored, IInv, CallInv
    <3>2. \A j \in 1..Keys : j <= k  BY <2>1, <2>5, ProxyAssumption
    <3>3. desktop' = chosen'  BY <2>2, <2>3, <3>2 DEF IInv, Typed
    <3>4. Typed'
      <4>1. desktop' \in [1..Keys -> Int] /\ chosen' \in [1..Keys -> Int] /\ \A j \in 1..Keys : chosen'[j] \in Nat
        BY <2>2, <3>3 DEF IInv, Typed
      <4>2. CASE budget' = budget  BY <4>1, <4>2 DEF IInv, Typed
      <4>3. CASE Spend("faults")  BY <4>1, <4>3, SpentTyped DEF IInv, Typed
      <4> QED  BY <3>1, <4>2, <4>3
    <3>5. BackupInv'  BY <2>2, <3>1, <3>3 DEF BackupInv
    <3>6. CallInv(c)'  BY <3>1, ProxyAssumption DEF CallInv, Idle
    <3> QED  BY <3>4, <3>5, <3>6 DEF IInv
  <2> QED  BY <2>4, <2>5
<1>7. CASE CommandFails(c)
  <2>1. Typed'  BY <1>7, SpentTyped DEF CommandFails, IInv, Typed
  <2>2. BackupInv'  BY <1>7 DEF CommandFails, IInv, BackupInv
  <2>3. call'[c] = Idle /\ call' = [x \in {c} |-> call'[c]]
    BY <1>7 DEF CommandFails, IInv, CallInv
  <2> QED  BY <2>1, <2>2, <2>3, ProxyAssumption DEF IInv, CallInv, Idle
<1>8. CASE Crash
  <2>1. Typed'  BY <1>8, SpentTyped DEF Crash, IInv, Typed
  <2>2. BackupInv'  BY <1>8 DEF Crash, IInv, BackupInv
  <2>3. call'[c] = Idle /\ call' = [x \in {c} |-> call'[c]]  BY <1>8 DEF Crash
  <2> QED  BY <2>1, <2>2, <2>3, ProxyAssumption DEF IInv, CallInv, Idle
<1>9. CASE UserEdits
  <2>1. /\ backup' = NoBackup /\ call' = call /\ desktop' = chosen'
        /\ call[c] = Idle
    BY <1>9 DEF UserEdits
  <2>2. budget' = [budget EXCEPT !.edits = budget.edits - 1] /\ budget.edits > 0
    BY <1>9 DEF UserEdits, Spend, IInv, Typed
  <2>3. /\ budget'.edits \in Nat /\ MaxEdits - budget'.edits \in Nat
        /\ budget' = [sets |-> budget'.sets, clears |-> budget'.clears,
                      faults |-> budget'.faults, crashes |-> budget'.crashes,
                      edits |-> budget'.edits]
    BY <2>2, ProxyAssumption DEF IInv, Typed
  <2>4. PICK K \in (SUBSET (1..Keys)) \ {{}} :
          chosen' = [k \in 1..Keys |-> IF k \in K THEN MaxEdits - budget'.edits ELSE chosen[k]]
    BY <1>9 DEF UserEdits
  <2>5. Typed'  BY <2>1, <2>3, <2>4 DEF IInv, Typed
  <2>6. BackupInv'  BY <2>1 DEF BackupInv
  <2>7. CallInv(c)'  BY <2>1 DEF IInv, CallInv, Idle
  <2> QED  BY <2>5, <2>6, <2>7 DEF IInv
<1>10. CASE UNCHANGED vars
  BY <1>10 DEF vars, IInv, Typed, BackupInv, CallInv
<1> QED  BY <1>1, <1>2, <1>3, <1>4, <1>5, <1>6, <1>7, <1>8, <1>9, <1>10 DEF Next, Proceed

\* A backup goes only with the last setting that is put back.
LEMMA StepHandsBack ==
  ASSUME NEW c, Slots = {c}, ~EditsBesideBackup, IInv(c), [Next]_vars,
         backup # NoBackup, backup' = NoBackup
  PROVE  desktop' = chosen'
<1>1. IInv(c)'  BY StepIInv
<1> QED  BY <1>1 DEF IInv, BackupInv

\* While any setting is Ours the backup file holds the user's own settings: calls of
\* LinuxSystemProxy that run one at a time never lose what they replaced, wherever a
\* command fails or the application is killed.
THEOREM OriginalsAlwaysSurvive ==
  ASSUME NEW c, Slots = {c}, ~EditsBesideBackup PROVE Spec => []OriginalsSurvive
<1>1. Init => IInv(c)  BY InitIInv
<1>2. IInv(c) /\ [Next]_vars => IInv(c)'  BY StepIInv
<1>3. IInv(c) => OriginalsSurvive  BY IInvSuffices
<1> QED  BY <1>1, <1>2, <1>3, PTL DEF Spec

\* For a user who does not edit the settings while there is a backup, and calls that run
\* one at a time: the backup is consumed only when every setting is what that user last
\* chose, whichever commands fail and whenever the application is killed.  (SystemProxy:
\* clear deletes the backup after the last setting, and nothing else does.)  Both conditions
\* are needed.  A backup that a failed set left behind outlives an edit beside it and is
\* then written over it.
THEOREM AlwaysHandedBack ==
  ASSUME NEW c, Slots = {c}, ~EditsBesideBackup PROVE Spec => HandedBack
<1>1. Init => IInv(c)  BY InitIInv
<1>2. IInv(c) /\ [Next]_vars => IInv(c)'  BY StepIInv
<1>3. IInv(c) /\ [Next]_vars => [backup # NoBackup /\ backup' = NoBackup => desktop' = chosen']_vars
  BY StepHandsBack
<1> QED  BY <1>1, <1>2, <1>3, PTL DEF Spec, HandedBack

\* Writing the backup changes nothing else.
LEMMA StepNotes ==
  ASSUME NEW c, Slots = {c}, [Next]_vars, backup = NoBackup, backup' # NoBackup
  PROVE  UNCHANGED <<desktop, chosen>>
<1>1. CASE SetStarts(c) \/ ClearStarts(c) \/ Recover(c) \/ CommandFails(c) \/ Crash
  BY <1>1 DEF SetStarts, ClearStarts, Recover, CommandFails, Crash
<1>2. CASE Applied(c) \/ UserEdits  BY <1>2 DEF Applied, UserEdits
<1>3. CASE Captured(c)  BY <1>3 DEF Captured
<1>4. CASE Restored(c)  BY <1>4 DEF Restored
<1>5. CASE UNCHANGED vars  BY <1>5 DEF vars
<1> QED  BY <1>1, <1>2, <1>3, <1>4, <1>5 DEF Next, Proceed

LEMMA StepLoans ==
  ASSUME NEW c, Slots = {c}, ~EditsBesideBackup, IInv(c), [Next]_vars
  PROVE  Loan!Next \/ UNCHANGED Loan!vars
<1> DEFINE Setting == IF desktop = chosen THEN "theirs"
                      ELSE IF \E k \in 1..Keys : desktop[k] = Ours THEN "ours" ELSE "mixed"
           State == IF backup = NoBackup THEN "none" ELSE "whole"
<1>1. IInv(c)'  BY StepIInv
<1>2. Setting' \in {"theirs", "ours", "mixed"}  OBVIOUS
<1>3. CASE backup = NoBackup /\ backup' = NoBackup
  <2>1. desktop = chosen /\ desktop' = chosen'  BY <1>1, <1>3 DEF IInv, BackupInv
  <2>2. Setting = "theirs" /\ Setting' = "theirs"  BY <2>1
  <2> QED  BY <1>3, <2>2 DEF Loan!vars
<1>4. CASE backup = NoBackup /\ backup' # NoBackup
  <2>1. UNCHANGED <<desktop, chosen>>  BY <1>4, StepNotes
  <2>2. Setting' = Setting  BY <2>1
  <2> QED  BY <1>4, <2>2 DEF Loan!Next, Loan!Write
<1>5. CASE backup # NoBackup /\ backup' # NoBackup
  BY <1>2, <1>5 DEF Loan!Next, Loan!Use
<1>6. CASE backup # NoBackup /\ backup' = NoBackup
  <2>1. Setting' = "theirs"  BY <1>6, StepHandsBack
  <2> QED  BY <1>6, <2>1 DEF Loan!Next, Loan!Close
<1> QED  BY <1>3, <1>4, <1>5, <1>6

\* Calls that run one at a time implement the loan, wherever a command fails or the
\* application is killed.
THEOREM LoanImplemented ==
  ASSUME NEW c, Slots = {c}, ~EditsBesideBackup PROVE Spec => LoanSpec
<1>1. Init => IInv(c)  BY InitIInv
<1>2. IInv(c) /\ [Next]_vars => IInv(c)'  BY StepIInv
<1>3. Init => Loan!Init  BY DEF Init, Loan!Init
<1>4. IInv(c) /\ [Next]_vars => [Loan!Next]_(Loan!vars)  BY StepLoans
<1> QED  BY <1>1, <1>2, <1>3, <1>4, PTL DEF Spec, LoanSpec, Loan!Spec
=============================================================================
