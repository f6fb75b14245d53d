---------------------------- MODULE CrashRecovery ----------------------------
(***************************************************************************)
(* CrashRecovery, the state machine that decides whether a kernel that     *)
(* exited is started again, driven by SingBoxRunner: the exit callback,    *)
(* the reconnect timer and the user's commands.                            *)
(*                                                                         *)
(* The exit callback asks for a decision either at once or after it has    *)
(* taken the system proxy back; in the second case the user may hang up or *)
(* dial again before the decision, and several callbacks may be waiting.   *)
(***************************************************************************)
EXTENDS Naturals

CONSTANTS
  MaxAttempts, MaxRapidAttempts, MaxTotalAttempts,   \* ReconnectPolicy
  BaseDelay, MaxDelay, StableUptime, RapidUptime,
  Uptimes,       \* how long a kernel may live
  MaxCommands    \* bound on the user's commands

ASSUME PolicyAssumption ==
  /\ MaxAttempts \in Nat /\ MaxRapidAttempts \in Nat /\ MaxTotalAttempts \in Nat
  /\ BaseDelay \in Nat \ {0} /\ MaxDelay \in Nat /\ BaseDelay <= MaxDelay
  /\ RapidUptime \in Nat /\ StableUptime \in Nat /\ RapidUptime <= StableUptime
  /\ Uptimes \subseteq Nat /\ MaxCommands \in Nat

VARIABLES
  recovery,   \* attempts: retries of this incident; total: of this connection
  runner,     \* kernel runs, exit callbacks waiting, timer armed, user hung up
  delay,      \* how long the last retry waits
  round       \* history: what happened since the user's last command

vars == <<recovery, runner, delay, round>>

TypeOK ==
  /\ recovery \in [attempts : Nat, total : Nat]
  /\ runner \in [kernel : BOOLEAN, waiting : Nat, timer : BOOLEAN, hungUp : BOOLEAN]
  /\ delay \in Nat
  /\ round \in [commands : 0..MaxCommands, retries : Nat, rapid : Nat]

Init ==
  /\ recovery = [attempts |-> 0, total |-> 0]
  /\ runner = [kernel |-> FALSE, waiting |-> 0, timer |-> FALSE, hungUp |-> FALSE]
  /\ delay = 0
  /\ round = [commands |-> 0, retries |-> 0, rapid |-> 0]

-----------------------------------------------------------------------------
Capped(millis) == IF millis > MaxDelay THEN MaxDelay ELSE millis

\* delayForAttempt: powers of two, capped.  (The code clamps the exponent at 30,
\* far above the cap.)
DelayForAttempt(attempt) ==
  IF attempt = 0 THEN 0 ELSE Capped(BaseDelay * 2 ^ (attempt - 1))

\* A user's command: the counters start again.
Reset ==
  /\ round.commands < MaxCommands
  /\ recovery' = [attempts |-> 0, total |-> 0]
  /\ round' = [commands |-> round.commands + 1, retries |-> 0, rapid |-> 0]
  /\ UNCHANGED delay

\* connect(): the old kernel is stopped without a callback.  The start may fail.
UserConnects ==
  /\ Reset
  /\ \E started \in BOOLEAN :
       runner' = [runner EXCEPT !.kernel = started, !.timer = FALSE, !.hungUp = FALSE]

UserDisconnects ==
  /\ Reset
  /\ runner' = [runner EXCEPT !.kernel = FALSE, !.timer = FALSE, !.hungUp = TRUE]

\* What the user sees of an exit.  History only: it stops counting above the limits.
Count(n, limit) == IF n > limit THEN n ELSE n + 1

Seen(uptime, retried) ==
  round' = [round EXCEPT !.retries = IF retried THEN Count(@, MaxTotalAttempts) ELSE @,
                         !.rapid = IF uptime >= RapidUptime THEN 0
                                   ELSE IF retried THEN Count(@, MaxRapidAttempts) ELSE @]

\* Mutant: only the incident is counted, not the connection.
RetryUncounted(uptime, r, attempts) ==
  /\ recovery' = [recovery EXCEPT !.attempts = attempts + 1]
  /\ delay' = DelayForAttempt(attempts + 1)
  /\ runner' = [r EXCEPT !.timer = TRUE]
  /\ Seen(uptime, TRUE)

\* The counters agree to a retry: arm the timer.
Retry(uptime, r, attempts) ==
  /\ recovery' = [attempts |-> attempts + 1, total |-> recovery.total + 1]
  /\ delay' = DelayForAttempt(attempts + 1)
  /\ runner' = [r EXCEPT !.timer = TRUE]
  /\ Seen(uptime, TRUE)

GiveUp(uptime, r, attempts) ==
  /\ recovery' = [recovery EXCEPT !.attempts = attempts]
  /\ runner' = r
  /\ UNCHANGED delay
  /\ Seen(uptime, FALSE)

\* A stable run makes the exit a new incident.
Incident(uptime) == IF uptime >= StableUptime THEN 0 ELSE recovery.attempts

\* Mutant: no limit over the whole connection.
NeverExhausted == FALSE

Exhausted == recovery.total >= MaxTotalAttempts

Limit(uptime) == IF uptime < RapidUptime THEN MaxRapidAttempts ELSE MaxAttempts

\* onCoreExit, with the runner's other fields r.
OnCoreExit(uptime, r) ==
  IF r.hungUp THEN GiveUp(uptime, r, 0)
  ELSE IF Exhausted THEN GiveUp(uptime, r, recovery.attempts)
  ELSE IF Incident(uptime) >= Limit(uptime) THEN GiveUp(uptime, r, Incident(uptime))
  ELSE Retry(uptime, r, Incident(uptime))

\* The kernel exits; its callback has no proxy to take back.
ExitDecided ==
  /\ runner.kernel
  /\ \E uptime \in Uptimes : OnCoreExit(uptime, [runner EXCEPT !.kernel = FALSE])

\* The kernel exits; its callback first waits for the system proxy.
ExitWaits ==
  /\ runner.kernel
  /\ runner' = [runner EXCEPT !.kernel = FALSE, !.waiting = @ + 1]
  /\ UNCHANGED <<recovery, delay, round>>

\* The stopwatch is the runner's: by now it may be timing another kernel.
LateDecision ==
  /\ runner.waiting > 0
  /\ \E uptime \in Uptimes : OnCoreExit(uptime, [runner EXCEPT !.waiting = @ - 1])

TimerFires ==
  /\ runner.timer
  /\ \E started \in {FALSE, ~runner.hungUp} :
       runner' = [runner EXCEPT !.timer = FALSE, !.kernel = @ \/ started]
  /\ UNCHANGED <<recovery, delay, round>>

Next == UserConnects \/ UserDisconnects \/ ExitDecided \/ ExitWaits \/ LateDecision \/ TimerFires

Spec == Init /\ [][Next]_vars

\* The timer fires and the proxy call of a callback returns; nothing forces the user
\* to act, nor a kernel to exit or to live.
FairSpec == Spec /\ WF_vars(TimerFires) /\ WF_vars(LateDecision)

-----------------------------------------------------------------------------
Retried == recovery'.total > recovery.total

\* Whatever the uptimes of the kernels, a connection the user asked for once is
\* retried at most MaxTotalAttempts times.  (The hard limit of onCoreExit.)
RetriesBounded == round.retries <= MaxTotalAttempts

\* A kernel that dies at once every time is retried at most MaxRapidAttempts times in
\* a row.  (attempts is not cleared when a start succeeds.)
RapidRetriesBounded == round.rapid <= MaxRapidAttempts

\* Within an incident every wait is twice the one before, up to the cap; a new
\* incident starts with the base delay.  (delayForAttempt.)
BackoffDoubles ==
  [][Retried => delay' = IF recovery'.attempts = 1 THEN BaseDelay
                         ELSE Capped(2 * delay)]_vars

\* After the user's last command the reconnecting comes to an end, even when every
\* kernel runs long enough to count as a new incident.
ReconnectingEnds == <>[](~runner.timer)
=============================================================================
