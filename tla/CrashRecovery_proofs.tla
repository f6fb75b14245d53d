------------------------ MODULE CrashRecovery_proofs ------------------------
(***************************************************************************)
(* Proofs about CrashRecovery, for every policy, every set of uptimes and  *)
(* every number of commands.                                               *)
(*                                                                         *)
(* The limits are not inductive: what bounds the retries the user sees is  *)
(* that the code's two counters are at least as large as what was seen.    *)
(***************************************************************************)
EXTENDS CrashRecovery, TLAPS

\* What the counters know about the round.
CountersInv ==
  /\ recovery.total <= MaxTotalAttempts
  /\ round.retries = recovery.total
  /\ round.rapid <= recovery.attempts
  /\ round.rapid <= MaxRapidAttempts
  /\ runner.hungUp => round.rapid = 0

RecoveryType == [attempts : Nat, total : Nat]
RunnerType == [kernel : BOOLEAN, waiting : Nat, timer : BOOLEAN, hungUp : BOOLEAN]
RoundType == [commands : 0..MaxCommands, retries : Nat, rapid : Nat]

\* The length of a wait plays no part: powers of two stay opaque to the provers.
CountersTyped == recovery \in RecoveryType /\ runner \in RunnerType /\ round \in RoundType

IInv == CountersTyped /\ CountersInv

\* What an exit adds to the history, below the limits.
LEMMA SeenAdds ==
  ASSUME round \in RoundType, NEW u \in Nat, NEW retried \in BOOLEAN, Seen(u, retried),
         round.retries <= MaxTotalAttempts, round.rapid <= MaxRapidAttempts
  PROVE  /\ round' \in RoundType
         /\ round'.retries = IF retried THEN round.retries + 1 ELSE round.retries
         /\ round'.rapid = IF u >= RapidUptime THEN 0
                           ELSE IF retried THEN round.rapid + 1 ELSE round.rapid
<1>1. Count(round.retries, MaxTotalAttempts) = round.retries + 1
  BY PolicyAssumption DEF Count, RoundType
<1>2. Count(round.rapid, MaxRapidAttempts) = round.rapid + 1
  BY PolicyAssumption DEF Count, RoundType
<1> DEFINE n == IF retried THEN round.retries + 1 ELSE round.retries
           m == IF u >= RapidUptime THEN 0
                ELSE IF retried THEN round.rapid + 1 ELSE round.rapid
<1>3. round' = [round EXCEPT !.retries = n, !.rapid = m]
  BY <1>1, <1>2 DEF Seen
<1>4. n \in Nat /\ m \in Nat
  BY DEF RoundType
<1> HIDE DEF n, m
<1>5. round' \in RoundType /\ round'.retries = n /\ round'.rapid = m
  BY <1>3, <1>4 DEF RoundType
<1> QED BY <1>5 DEF n, m

\* Giving up keeps the counters honest, if the incident's counter is not cut below what
\* was seen.
LEMMA GiveUpKeeps ==
  ASSUME IInv, NEW u \in Nat, NEW r \in RunnerType, r.hungUp = runner.hungUp,
         NEW n \in Nat, GiveUp(u, r, n),
         round.rapid <= n \/ u >= RapidUptime
  PROVE  IInv'
<1>1. round' \in RoundType /\ round'.retries = round.retries
      /\ round'.rapid = IF u >= RapidUptime THEN 0 ELSE round.rapid
  BY SeenAdds DEF IInv, CountersTyped, CountersInv, GiveUp
<1>2. recovery' = [recovery EXCEPT !.attempts = n] /\ runner' = r
  BY DEF GiveUp
<1>3. recovery' \in RecoveryType /\ recovery'.attempts = n /\ recovery'.total = recovery.total
  BY <1>2 DEF IInv, CountersTyped, RecoveryType
<1>4. round.rapid \in Nat
  BY DEF IInv, CountersTyped, RoundType
<1> QED BY <1>1, <1>2, <1>3, <1>4, PolicyAssumption DEF IInv, CountersTyped, CountersInv

\* So does a retry within the limits.
LEMMA RetryKeeps ==
  ASSUME IInv, NEW u \in Nat, NEW r \in RunnerType, r.hungUp = runner.hungUp, ~r.hungUp,
         NEW n \in Nat, Retry(u, r, n), recovery.total < MaxTotalAttempts,
         u < RapidUptime => round.rapid <= n /\ n < MaxRapidAttempts
  PROVE  IInv'
<1>1. round' \in RoundType /\ round'.retries = round.retries + 1
      /\ round'.rapid = IF u >= RapidUptime THEN 0 ELSE round.rapid + 1
  BY SeenAdds DEF IInv, CountersTyped, CountersInv, Retry
<1>2. recovery' = [attempts |-> n + 1, total |-> recovery.total + 1]
  BY DEF Retry
<1>3. recovery' \in RecoveryType
  BY <1>2 DEF IInv, CountersTyped, RecoveryType
<1>4. runner' = [r EXCEPT !.timer = TRUE]
  BY DEF Retry
<1>5. runner' \in RunnerType /\ ~runner'.hungUp
  BY <1>4 DEF RunnerType
<1>6. round.rapid \in Nat /\ recovery.total \in Nat
  BY DEF IInv, CountersTyped, RoundType, RecoveryType
<1> QED BY <1>1, <1>2, <1>3, <1>5, <1>6, PolicyAssumption DEF IInv, CountersTyped, CountersInv

\* The decision keeps the counters honest, whichever way it goes.
LEMMA DecisionKeeps ==
  ASSUME IInv, NEW u \in Uptimes, NEW r \in RunnerType,
         r.hungUp = runner.hungUp, OnCoreExit(u, r)
  PROVE  IInv'
<1>0. u \in Nat /\ recovery.attempts \in Nat /\ recovery.total \in Nat /\ round.rapid \in Nat
  BY PolicyAssumption DEF IInv, CountersTyped, RecoveryType, RoundType
<1>1. Incident(u) \in Nat /\ (u < RapidUptime => Incident(u) = recovery.attempts)
  BY <1>0, PolicyAssumption DEF Incident
<1>2. round.rapid <= recovery.attempts
  BY DEF IInv, CountersInv
<1>3. CASE r.hungUp
  <2>1. GiveUp(u, r, 0) /\ round.rapid = 0
    BY <1>3 DEF OnCoreExit, IInv, CountersInv
  <2> QED BY <1>0, <2>1, GiveUpKeeps
<1>4. CASE ~r.hungUp /\ Exhausted
  <2>1. GiveUp(u, r, recovery.attempts)
    BY <1>4 DEF OnCoreExit
  <2> QED BY <1>0, <1>2, <2>1, GiveUpKeeps
<1>5. CASE ~r.hungUp /\ ~Exhausted /\ Incident(u) >= Limit(u)
  <2>1. GiveUp(u, r, Incident(u))
    BY <1>5 DEF OnCoreExit
  <2>2. round.rapid <= Incident(u) \/ u >= RapidUptime
    BY <1>0, <1>1, <1>2, PolicyAssumption
  <2> QED BY <1>0, <1>1, <2>1, <2>2, GiveUpKeeps
<1>6. CASE ~r.hungUp /\ ~Exhausted /\ ~(Incident(u) >= Limit(u))
  <2>1. Retry(u, r, Incident(u))
    BY <1>6 DEF OnCoreExit
  <2>2. recovery.total < MaxTotalAttempts
    BY <1>0, <1>6, PolicyAssumption DEF Exhausted
  <2>3. u < RapidUptime => round.rapid <= Incident(u) /\ Incident(u) < MaxRapidAttempts
    BY <1>0, <1>1, <1>2, <1>6, PolicyAssumption DEF Limit
  <2> QED BY <1>0, <1>1, <1>6, <2>1, <2>2, <2>3, RetryKeeps
<1> QED BY <1>3, <1>4, <1>5, <1>6

LEMMA InitCounted == Init => IInv
  BY PolicyAssumption DEF Init, IInv, CountersTyped, CountersInv, RecoveryType, RunnerType, RoundType

LEMMA StepCounted == IInv /\ [Next]_vars => IInv'
<1> SUFFICES ASSUME IInv, [Next]_vars PROVE IInv'
  OBVIOUS
<1>0. recovery \in RecoveryType /\ runner \in RunnerType /\ round \in RoundType /\ CountersInv
  BY DEF IInv, CountersTyped
<1>1. CASE UserConnects \/ UserDisconnects
  <2>1. /\ recovery' = [attempts |-> 0, total |-> 0]
        /\ round' = [commands |-> round.commands + 1, retries |-> 0, rapid |-> 0]
        /\ round.commands < MaxCommands
    BY <1>1 DEF UserConnects, UserDisconnects, Reset
  <2>2. recovery' \in RecoveryType /\ round' \in RoundType
    BY <1>0, <2>1, PolicyAssumption DEF RecoveryType, RoundType
  <2>3. runner' \in RunnerType
    BY <1>0, <1>1 DEF UserConnects, UserDisconnects, RunnerType
  <2> QED BY <2>1, <2>2, <2>3, PolicyAssumption DEF IInv, CountersTyped, CountersInv
<1>2. CASE ExitDecided
  <2>1. PICK u \in Uptimes : OnCoreExit(u, [runner EXCEPT !.kernel = FALSE])
    BY <1>2 DEF ExitDecided
  <2>2. [runner EXCEPT !.kernel = FALSE] \in RunnerType
        /\ [runner EXCEPT !.kernel = FALSE].hungUp = runner.hungUp
    BY <1>0 DEF RunnerType
  <2> QED BY <2>1, <2>2, DecisionKeeps
<1>3. CASE LateDecision
  <2>1. PICK u \in Uptimes : OnCoreExit(u, [runner EXCEPT !.waiting = @ - 1])
    BY <1>3 DEF LateDecision
  <2>2. [runner EXCEPT !.waiting = @ - 1] \in RunnerType
        /\ [runner EXCEPT !.waiting = @ - 1].hungUp = runner.hungUp
    BY <1>0, <1>3 DEF LateDecision, RunnerType
  <2> QED BY <2>1, <2>2, DecisionKeeps
<1>4. CASE ExitWaits \/ TimerFires \/ UNCHANGED vars
  <2>1. UNCHANGED <<recovery, round>>
    BY <1>4 DEF ExitWaits, TimerFires, vars
  <2>2. runner'.hungUp = runner.hungUp /\ runner' \in RunnerType
    <3>1. CASE ExitWaits
      <4>1. runner' = [runner EXCEPT !.kernel = FALSE, !.waiting = runner.waiting + 1]
        BY <3>1 DEF ExitWaits
      <4>2. runner.waiting + 1 \in Nat
        BY <1>0 DEF RunnerType
      <4> QED BY <1>0, <4>1, <4>2 DEF RunnerType
    <3>2. CASE TimerFires
      <4>1. PICK started \in {FALSE, ~runner.hungUp} :
              runner' = [runner EXCEPT !.timer = FALSE, !.kernel = runner.kernel \/ started]
        BY <3>2 DEF TimerFires
      <4>2. (runner.kernel \/ started) \in BOOLEAN
        BY <1>0 DEF RunnerType
      <4> DEFINE up == runner.kernel \/ started
      <4>3. runner' = [runner EXCEPT !.timer = FALSE, !.kernel = up]
        BY <4>1
      <4>4. up \in BOOLEAN
        BY <4>2
      <4> HIDE DEF up
      <4> QED BY <1>0, <4>3, <4>4 DEF RunnerType
    <3>3. CASE UNCHANGED vars
      BY <1>0, <3>3 DEF vars
    <3> QED BY <1>4, <3>1, <3>2, <3>3
  <2> QED BY <1>0, <2>1, <2>2 DEF IInv, CountersTyped, CountersInv
<1> QED BY <1>1, <1>2, <1>3, <1>4 DEF Next

LEMMA Counted == Spec => []IInv
  BY InitCounted, StepCounted, PTL DEF Spec

\* The hard limit holds for every policy: no sequence of crashes, commands and late
\* callbacks makes one connection retry more often than MaxTotalAttempts.
THEOREM RetriesAlwaysBounded == Spec => []RetriesBounded
<1>1. IInv => RetriesBounded
  BY DEF IInv, CountersInv, RetriesBounded
<1> QED BY <1>1, Counted, PTL

\* A kernel that dies at once is given up after MaxRapidAttempts retries in a row.
THEOREM RapidRetriesAlwaysBounded == Spec => []RapidRetriesBounded
<1>1. IInv => RapidRetriesBounded
  BY DEF IInv, CountersInv, RapidRetriesBounded
<1> QED BY <1>1, Counted, PTL
=============================================================================
