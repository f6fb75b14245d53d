---------------------------- MODULE RouteLearning ----------------------------
(***************************************************************************)
(* What the program learns about the way one domain should go: the table's *)
(* rule for it (AutoRouteTable) and the evidence CoreMonitor feeds it.     *)
(*                                                                         *)
(* Three kinds of evidence move the rule: setbacks of direct connections   *)
(* and slow direct deliveries send the domain into the tunnel, DNS answers *)
(* inside the domestic address ranges take it out.  The kernel follows the *)
(* table with a delay, so connections of an old route outlive a new rule,  *)
(* and two pieces of evidence arrive after an await: a failure waits for a *)
(* DNS cross-check, a candidate waits for its lookup.                      *)
(*                                                                         *)
(* Counters saturate at the threshold they are compared with; a throughput *)
(* sample is its verdict against the link's median.  The counters of a     *)
(* user's rule are never read and stay 0.                                  *)
(***************************************************************************)
EXTENDS Naturals

CONSTANTS
  Promotion, Domestic, Revoke, Slow,  \* thresholds of LearningPolicy
  Bases,       \* the ways the domain may go when the table has no rule for it
  PresetPref,  \* what the direct white list says of it, or "none"
  MaxLate,     \* failures waiting for their DNS cross-check
  MaxOutside   \* steps of the user, of other domains and of the session

Paths == {"direct", "proxy"}
Verdicts == {"insufficient", "healthy", "slow"}
Kinds == {"delivery", "stall"}      \* of evidence that are throttled
UserCommands == {"set_direct", "set_proxy", "remove", "preset_on", "preset_off", "restore"}
Crowds == {"rule", "stale", "pending", "domestic", "queue"}

ASSUME ThresholdAssumption == /\ Promotion \in Nat \ {0} /\ Domestic \in Nat \ {0}
                              /\ Revoke \in Nat \ {0} /\ Slow \in Nat \ {0}
ASSUME DomainAssumption == Bases \subseteq Paths /\ PresetPref \in Paths \cup {"none"}
ASSUME BudgetAssumption == MaxLate \in Nat /\ MaxOutside \in Nat

VARIABLES
  rule,      \* the table's entry for the domain, or NoRule
  pending,   \* consecutive setbacks that are no rule yet
  domestic,  \* consecutive domestic answers that are no rule yet
  rate,      \* slow streaks of both paths, and the cool-down of a trial
  throttled, \* kinds of evidence recorded within the window
  probe,     \* the domain as a candidate for going direct
  kernel,    \* the way its own rules say, and the way it sends new connections
  open,      \* TRUE while a direct connection is open
  late,      \* failures whose cross-check is in flight
  budget,
  hist       \* what was observed, for the properties only

evidence == <<rule, pending, domestic, rate>>
vars == <<evidence, throttled, probe, kernel, open, late, budget, hist>>

NoRule == [pref |-> "none", source |-> "none", fails |-> 0, succs |-> 0, byRate |-> FALSE]
Rule(pref, source) == [NoRule EXCEPT !.pref = pref, !.source = source]

LearnedProxy(r) == r.source = "learned" /\ r.pref = "proxy"
LearnedDirect(r) == r.source = "learned" /\ r.pref = "direct"

Bump(n, cap) == IF n < cap THEN n + 1 ELSE n

\* A run of slow samples after one more sample.
Streak(n, verdict) == IF verdict = "slow" THEN Bump(n, Slow)
                      ELSE IF verdict = "healthy" THEN 0 ELSE n

Way(r) == IF r = NoRule THEN kernel.base ELSE r.pref
Sends(r) == [kernel EXCEPT !.sends = Way(r)]

Init ==
  /\ rule = NoRule /\ pending = 0 /\ domestic = 0
  /\ rate = [direct |-> 0, proxy |-> 0, cooling |-> FALSE]
  /\ throttled = {}
  /\ probe = [queued |-> FALSE, asked |-> "no"]
  /\ \E base \in Bases : kernel = [base |-> base, sends |-> base]
  /\ open = FALSE /\ late = 0
  /\ budget = MaxOutside
  /\ hist = [setbacks |-> 0, deliveries |-> 0, answers |-> 0,
             slow |-> [direct |-> 0, proxy |-> 0], trial |-> FALSE, other |-> FALSE]

-----------------------------------------------------------------------------
(* The history of what was observed while no rule of the user's stood:     *)
(* setbacks since the last learned proxy rule, with no delivery between    *)
(* them; deliveries on the program's own rule, with no setback between     *)
(* them; answers since the last rule they made, with no setback between    *)
(* them; slow samples of each path, with no healthy one between them;      *)
(* whether such a run on the direct way made the learned proxy rule or was *)
(* seen under it; whether a rule of another origin was in force since      *)
(* nothing was pending.                                                    *)
NoteSample(event, path, verdict) ==
  LET setback == event \in {"setback", "conclusive"}
      counts == path # "none" /\ rule.source # "user"
      run == Streak(hist.slow[path], verdict)
  IN
  hist' = [setbacks |-> IF LearnedProxy(rule) \/ event = "delivery" THEN 0
                        ELSE IF rule.source = "user" THEN hist.setbacks
                        ELSE IF event = "conclusive" THEN Promotion
                        ELSE IF setback THEN Bump(hist.setbacks, Promotion) ELSE hist.setbacks,
           deliveries |-> IF rule.source \in {"none", "user"} \/ setback THEN 0
                          ELSE IF event = "delivery" THEN Bump(hist.deliveries, Revoke)
                          ELSE hist.deliveries,
           answers |-> IF setback \/ (~LearnedDirect(rule) /\ LearnedDirect(rule')) THEN 0
                       ELSE IF event = "answer" THEN Bump(hist.answers, Domestic - 1)
                       ELSE hist.answers,
           slow |-> IF counts THEN [hist.slow EXCEPT ![path] = run] ELSE hist.slow,
           trial |-> /\ LearnedProxy(rule')
                     /\ \/ LearnedProxy(rule) /\ hist.trial
                        \/ counts /\ path = "direct" /\ run >= Slow,
           other |-> /\ pending' # 0
                     /\ hist.other \/ (rule' # NoRule /\ ~LearnedProxy(rule'))]

Note(event) == NoteSample(event, "none", "none")

-----------------------------------------------------------------------------
(* Setbacks, deliveries and samples.                                       *)

\* judgeSetback: enough consecutive setbacks, or one with a contradicted DNS
\* answer, and not in the tunnel already.
Promotes(count, pref, poisoned) ==
  count >= (IF poisoned THEN 1 ELSE Promotion) /\ pref # "proxy"

\* Mutant: a setback leaves the streak of domestic answers standing.
SetbackKeepsAnswers(poisoned) ==
  /\ UNCHANGED <<domestic, rate>>
  /\ IF rule = NoRule
     THEN LET n == Bump(pending, Promotion) IN
          IF Promotes(n, "none", poisoned)
          THEN pending' = 0 /\ rule' = [Rule("proxy", "learned") EXCEPT !.fails = n]
          ELSE pending' = n /\ UNCHANGED rule
     ELSE LET n == Bump(rule.fails, Promotion) IN
          /\ UNCHANGED pending
          /\ rule' = IF rule.source = "user" THEN rule
                     ELSE IF Promotes(n, rule.pref, poisoned)
                     THEN [rule EXCEPT !.pref = "proxy", !.source = "learned",
                                       !.fails = n, !.succs = 0, !.byRate = FALSE]
                     ELSE [rule EXCEPT !.fails = n, !.succs = 0]

\* Mutant: a setback does not look whose rule it judges.
SetbackJudgesUser(poisoned) ==
  /\ domestic' = 0
  /\ UNCHANGED <<pending, rate>>
  /\ rule' = IF Promotes(Bump(rule.fails, Promotion), rule.pref, poisoned)
             THEN [rule EXCEPT !.pref = "proxy", !.source = "learned", !.succs = 0]
             ELSE [rule EXCEPT !.fails = Bump(@, Promotion), !.succs = 0]

\* Mutant: deliveries add up over setbacks.
SetbackKeepsSuccesses(poisoned) ==
  /\ domestic' = 0
  /\ UNCHANGED rate
  /\ IF rule = NoRule
     THEN LET n == Bump(pending, Promotion) IN
          IF Promotes(n, "none", poisoned)
          THEN pending' = 0 /\ rule' = [Rule("proxy", "learned") EXCEPT !.fails = n]
          ELSE pending' = n /\ UNCHANGED rule
     ELSE /\ UNCHANGED pending
          /\ rule' = IF rule.source = "user" THEN rule
                     ELSE [rule EXCEPT !.fails = Bump(@, Promotion)]

\* _recordDirectSetback: counts on the rule if there is one, in the pending area
\* otherwise; the streak of domestic answers ends in any case.
Setback(poisoned) ==
  /\ domestic' = 0
  /\ UNCHANGED rate
  /\ IF rule = NoRule
     THEN LET n == Bump(pending, Promotion) IN
          IF Promotes(n, "none", poisoned)
          THEN /\ pending' = 0
               /\ rule' = [Rule("proxy", "learned") EXCEPT !.fails = n]
          ELSE pending' = n /\ UNCHANGED rule
     ELSE LET n == Bump(rule.fails, Promotion) IN
          /\ UNCHANGED pending
          /\ rule' = IF rule.source = "user" THEN rule
                     ELSE IF Promotes(n, rule.pref, poisoned)
                     THEN [rule EXCEPT !.pref = "proxy", !.source = "learned",
                                       !.fails = n, !.succs = 0, !.byRate = FALSE]
                     ELSE [rule EXCEPT !.fails = n, !.succs = 0]

\* recordDirectSuccess: with no rule it wipes the pending setbacks; on a rule it
\* ends the failures, and enough in a row take a learned proxy rule away.
AfterDelivery(r) ==
  IF r = NoRule \/ r.source = "user" THEN r
  ELSE LET n == Bump(r.succs, Revoke) IN
       IF LearnedProxy(r) /\ n >= Revoke THEN NoRule
       ELSE [r EXCEPT !.succs = n, !.fails = 0]

\* recordDeliveryRate on the rule r this connection's delivery left: a trial that
\* is slow in the tunnel too is given up, a slow direct way is tried in the tunnel.
Sample(r, path, verdict) ==
  LET streak == Streak(rate[path], verdict)
      noted == [rate EXCEPT ![path] = streak] IN
  IF r.source = "user" THEN rule' = r /\ UNCHANGED rate
  ELSE IF path = "proxy" /\ r.byRate /\ r.pref = "proxy" /\ streak >= Slow
  THEN rule' = NoRule /\ rate' = [noted EXCEPT !.cooling = TRUE]
  ELSE IF path = "direct" /\ streak >= Slow /\ ~rate.cooling
  THEN /\ rule' = [r EXCEPT !.pref = "proxy", !.source = "learned", !.byRate = TRUE]
       /\ rate' = noted
  ELSE rule' = r /\ rate' = noted

-----------------------------------------------------------------------------
(* Connections.                                                            *)

\* _enqueueDirectCandidate.
Enqueued == probe.queued \/ ~(rule.source = "user" \/ rule.pref = "direct")

OpenDirect ==
  /\ kernel.sends = "direct" /\ ~open
  /\ open' = TRUE
  /\ UNCHANGED <<evidence, throttled, probe, kernel, late, budget>>
  /\ Note("none")

\* A connection seen for the first time in the tunnel makes the domain a candidate.
OpenProxied ==
  /\ kernel.sends = "proxy" /\ ~probe.queued /\ Enqueued
  /\ probe' = [probe EXCEPT !.queued = TRUE]
  /\ UNCHANGED <<evidence, throttled, kernel, open, late, budget>>
  /\ Note("none")

\* Mutant: a delivery does not refute what is pending.
DeliveredKeepsPending ==
  /\ open
  /\ open' = FALSE
  /\ IF "delivery" \in throttled
     THEN UNCHANGED <<evidence, throttled>> /\ Note("none")
     ELSE /\ throttled' = throttled \cup {"delivery"}
          /\ rule' = AfterDelivery(rule)
          /\ UNCHANGED <<pending, domestic, rate>>
          /\ Note("delivery")
  /\ UNCHANGED <<probe, kernel, late, budget>>

\* A direct connection closes with content delivered; a second one within the
\* window is dropped before its rate is looked at.
Delivered ==
  /\ open
  /\ open' = FALSE
  /\ IF "delivery" \in throttled
     THEN UNCHANGED <<evidence, throttled>> /\ Note("none")
     ELSE /\ throttled' = throttled \cup {"delivery"}
          /\ pending' = IF rule = NoRule THEN 0 ELSE pending
          /\ \/ rule' = AfterDelivery(rule) /\ UNCHANGED rate /\ Note("delivery")
             \/ \E v \in Verdicts :
                  Sample(AfterDelivery(rule), "direct", v) /\ NoteSample("delivery", "direct", v)
          /\ UNCHANGED domestic
  /\ UNCHANGED <<probe, kernel, late, budget>>

\* It closes after a long life with next to no content.
Stalled ==
  /\ open
  /\ open' = FALSE
  /\ IF "stall" \in throttled
     THEN UNCHANGED <<evidence, throttled>>
     ELSE throttled' = throttled \cup {"stall"} /\ Setback(FALSE)
  /\ UNCHANGED <<probe, kernel, late, budget>>
  /\ Note(IF "stall" \in throttled THEN "none" ELSE "setback")

\* It closes early with little content: no verdict.
ClosedEarly ==
  /\ open
  /\ open' = FALSE
  /\ UNCHANGED <<evidence, throttled, probe, kernel, late, budget>>
  /\ Note("none")

ClosedProxied ==
  /\ kernel.sends = "proxy"
  /\ UNCHANGED <<pending, domestic, throttled, probe, kernel, open, late, budget>>
  /\ \/ UNCHANGED <<rule, rate>> /\ Note("none")
     \/ \E v \in Verdicts : Sample(rule, "proxy", v) /\ NoteSample("none", "proxy", v)

\* onCoreLogLine: the kernel logs a direct connection that failed.
ConnectFails ==
  /\ kernel.sends = "direct" /\ late < MaxLate
  /\ late' = late + 1
  /\ UNCHANGED <<evidence, throttled, probe, kernel, open, budget>>
  /\ Note("none")

\* _learnFromFailure after the cross-check; nothing throttles it.
FailureLearned ==
  /\ late > 0
  /\ late' = late - 1
  /\ UNCHANGED <<throttled, probe, kernel, open, budget>>
  /\ \E poisoned \in BOOLEAN :
       Setback(poisoned) /\ Note(IF poisoned THEN "conclusive" ELSE "setback")

-----------------------------------------------------------------------------
(* Candidates for going direct: probeDirectCandidates.                     *)

\* A round takes the domain off the queue before it asks.
Asks ==
  /\ probe.queued /\ probe.asked = "no"
  /\ probe' = [queued |-> FALSE, asked |-> "asked"]
  /\ UNCHANGED <<evidence, throttled, kernel, open, late, budget>>
  /\ Note("none")

\* Mutant: only the user's rules stand against an answer.
RefusedForUserOnly == rule.source = "user"

\* recordDomesticAnswer: users' rules and learned proxy rules stand against it.
Refused == rule.source = "user" \/ LearnedProxy(rule)
Decides == ~Refused /\ domestic + 1 >= Domestic

\* Mutant: an answer that decides nothing is not remembered.
AnswerForgotten ==
  /\ UNCHANGED domestic
  /\ rule' = IF Decides
             THEN [rule EXCEPT !.pref = "direct", !.source = "learned", !.byRate = FALSE]
             ELSE rule

Answer ==
  /\ domestic' = IF rule.source = "user" THEN domestic
                 ELSE IF Refused \/ Decides THEN 0 ELSE domestic + 1
  /\ rule' = IF Decides
             THEN [rule EXCEPT !.pref = "direct", !.source = "learned", !.byRate = FALSE]
             ELSE rule

\* An answer that decided nothing is asked for again, but in a later round.
Answered(inRange) ==
  /\ probe.asked = "asked"
  /\ IF inRange
     THEN /\ Answer
          /\ probe' = [probe EXCEPT !.asked = IF Decides THEN "no" ELSE "again"]
     ELSE /\ probe' = [probe EXCEPT !.asked = "no"]
          /\ UNCHANGED <<rule, domestic>>
  /\ UNCHANGED <<pending, rate, throttled, kernel, open, late, budget>>
  /\ Note(IF inRange /\ ~Refused THEN "answer" ELSE "none")

\* The end of the round puts it back, as any connection through the tunnel would.
RoundEnds ==
  /\ probe.asked = "again"
  /\ probe' = [queued |-> Enqueued, asked |-> "no"]
  /\ UNCHANGED <<evidence, throttled, kernel, open, late, budget>>
  /\ Note("none")

-----------------------------------------------------------------------------
(* The kernel, time, and the world around.                                 *)

\* The kernel fetches the rule sets of the table.
RulesFetched ==
  /\ kernel # Sends(rule)
  /\ kernel' = Sends(rule)
  /\ UNCHANGED <<evidence, throttled, probe, open, late, budget>>
  /\ Note("none")

\* Mutant: each kind of evidence counts once a session.
WindowNeverPasses(kind) == kind \in throttled /\ FALSE /\ UNCHANGED vars

WindowPasses(kind) ==
  /\ kind \in throttled
  /\ throttled' = throttled \ {kind}
  /\ UNCHANGED <<evidence, probe, kernel, open, late, budget>>
  /\ Note("none")

CoolDownEnds ==
  /\ rate.cooling
  /\ rate' = [rate EXCEPT !.cooling = FALSE]
  /\ UNCHANGED <<rule, pending, domestic, throttled, probe, kernel, open, late, budget>>
  /\ Note("none")

\* The user, other domains and the session act a bounded number of times.
Outside == budget > 0 /\ budget' = budget - 1

\* evictStale takes a rule of the program's that is old and shows no sign of use;
\* age and use are left to chance here.
Stale == rule.source \in {"learned", "preset"}

\* A new session: CoreMonitor.start forgets throttle, connections and candidates,
\* stale rules go, and the kernel starts on the table of before or after that.
Reconnects ==
  /\ Outside
  /\ \/ UNCHANGED rule
     \/ Stale /\ rule' = NoRule
  /\ kernel' \in {Sends(rule), Sends(rule')}
  /\ throttled' = {} /\ open' = FALSE
  /\ probe' = [probe EXCEPT !.queued = FALSE]
  /\ UNCHANGED <<pending, domestic, rate, late>>
  /\ Note("none")

\* Other domains fill a table, and it drops what it holds about this one; or the
\* user has stale rules cleared away.  (A full throttle forgets as a window does.)
Crowded(what) ==
  /\ Outside
  /\ rule' = IF what = "rule" /\ rule.source = "learned" THEN NoRule
             ELSE IF what = "stale" /\ Stale THEN NoRule ELSE rule
  /\ pending' = IF what = "pending" THEN 0 ELSE pending
  /\ domestic' = IF what = "domestic" THEN 0 ELSE domestic
  /\ probe' = IF what = "queue" THEN [probe EXCEPT !.queued = FALSE] ELSE probe
  /\ UNCHANGED <<rate, throttled, kernel, open, late>>
  /\ Note("none")

\* The user sets or removes the rule, switches the white list or restores the
\* built-in rules (removeLearned).
Install(command) ==
  CASE command = "set_direct" -> Rule("direct", "user")
    [] command = "set_proxy" -> Rule("proxy", "user")
    [] command = "remove" -> NoRule
    [] command = "preset_on" ->
         IF PresetPref = "none" \/ rule.source \in {"user", "learned"} THEN rule
         ELSE [rule EXCEPT !.pref = PresetPref, !.source = "preset"]
    [] command = "preset_off" -> IF rule.source = "preset" THEN NoRule ELSE rule
    [] command = "restore" -> IF rule.source = "learned" THEN NoRule ELSE rule

User(command) ==
  /\ Outside
  /\ rule' = Install(command)
  /\ pending' = IF command = "restore" THEN 0 ELSE pending
  /\ rate' = IF command = "restore"
             THEN [direct |-> 0, proxy |-> 0, cooling |-> FALSE] ELSE rate
  /\ UNCHANGED <<domestic, throttled, probe, kernel, open, late>>
  /\ Note("none")

Next ==
  \/ OpenDirect \/ OpenProxied \/ Delivered \/ Stalled \/ ClosedEarly \/ ClosedProxied
  \/ ConnectFails \/ FailureLearned
  \/ Asks \/ (\E inRange \in BOOLEAN : Answered(inRange)) \/ RoundEnds
  \/ RulesFetched \/ CoolDownEnds \/ Reconnects
  \/ \E kind \in Kinds : WindowPasses(kind)
  \/ \E what \in Crowds : Crowded(what)
  \/ \E command \in UserCommands : User(command)

Spec == Init /\ [][Next]_vars

\* The domain keeps being visited, connections end, awaits return, the kernel
\* fetches its rules and the window of a stall passes.  Nothing is assumed of Asks: a
\* round takes the two newest of up to 64 waiting domains, and puts back the two it asked.
Fairness ==
  /\ WF_vars(OpenDirect) /\ WF_vars(Delivered \/ Stalled \/ ClosedEarly)
  /\ WF_vars(OpenProxied)
  /\ WF_vars(\E inRange \in BOOLEAN : Answered(inRange)) /\ WF_vars(RoundEnds)
  /\ WF_vars(RulesFetched) /\ WF_vars(WindowPasses("stall"))

FairSpec == Spec /\ Fairness

-----------------------------------------------------------------------------
(* Properties.                                                             *)

RuleType == [pref : Paths \cup {"none"}, source : {"none", "user", "learned", "preset"},
             fails : 0 .. Promotion, succs : 0 .. Revoke, byRate : BOOLEAN]

\* Types; and evidence below a threshold is no rule yet, a rate rule goes through
\* the tunnel, a rule has a source.
TypeOK ==
  /\ rule \in RuleType
  /\ pending \in 0 .. (Promotion - 1) /\ domestic \in 0 .. (Domestic - 1)
  /\ rate \in [direct : 0 .. Slow, proxy : 0 .. Slow, cooling : BOOLEAN]
  /\ throttled \subseteq Kinds
  /\ probe \in [queued : BOOLEAN, asked : {"no", "asked", "again"}]
  /\ kernel \in [base : Bases, sends : Paths] /\ open \in BOOLEAN /\ late \in 0 .. MaxLate
  /\ budget \in 0 .. MaxOutside
  /\ hist \in [setbacks : 0 .. Promotion, deliveries : 0 .. Revoke,
               answers : 0 .. (Domestic - 1), slow : [Paths -> 0 .. Slow],
               trial : BOOLEAN, other : BOOLEAN]
  /\ rule.byRate => LearnedProxy(rule)
  /\ (rule.source = "none") <=> (rule = NoRule)
  /\ (rule.source = "none") <=> (rule.pref = "none")

\* What the user, other domains and time do is charged to the budget.
Uncharged == budget' = budget

\* A rule the user set stands until the user changes it, whatever evidence arrives.
UserRuleStands ==
  [][rule.source = "user" /\ Uncharged => rule' = rule]_vars

\* An inference never overturns an observation: a learned proxy rule is not turned
\* into a direct one, not even by an answer asked for before the rule was there.
InferenceYields ==
  [][LearnedProxy(rule) /\ Uncharged => rule'.pref # "direct"]_vars

\* A learned direct rule rests on enough answers with no setback between them, none of
\* which made an earlier rule: those before this one, and this one.
AnswersUnbroken ==
  [][~LearnedDirect(rule) /\ LearnedDirect(rule') => hist.answers + 1 >= Domestic]_vars

\* A domain is learned into the tunnel by enough setbacks with no recorded delivery
\* between them, unless they were pending when a rule of another origin came.
PromotionNeedsEvidence ==
  [][/\ ~LearnedProxy(rule) /\ LearnedProxy(rule') /\ ~rule'.byRate
     /\ rule # NoRule \/ ~hist.other
     => hist'.setbacks >= Promotion]_vars

\* A learned proxy rule goes by itself only after enough deliveries on it with no
\* setback between them; or, if enough slow direct samples made it or were seen under
\* it, after enough slow samples of the tunnel with no healthy one between them.
ReleaseNeedsDeliveries ==
  [][LearnedProxy(rule) /\ rule' = NoRule /\ Uncharged
     => \/ hist'.deliveries >= Revoke
        \/ hist.trial /\ hist'.slow.proxy >= Slow]_vars

\* A domain whose direct connections stop delivering ends up in the tunnel, unless
\* the user says otherwise.
BrokenDirectEscapes ==
  /\ <>[][open /\ ~open' => Stalled]_vars
  /\ <>[](rule.source # "user")
  => <>[](kernel.sends = "proxy")

\* A domain that waits again and again has its turn again and again.
NotStarved == []<>probe.queued => []<><<Asks>>_vars

\* A domain that has its turn among the candidates, answers from domestic addresses,
\* and of which nothing bad is observed, ends up on the direct way.
DomesticComesHome ==
  /\ NotStarved
  /\ <>[][~Stalled /\ ~FailureLearned /\ ~Answered(FALSE)]_vars
  /\ <>[](rule.source # "user" /\ ~LearnedProxy(rule))
  => <>[](kernel.sends = "direct")

-----------------------------------------------------------------------------
(* What the docs say and the code does not keep; see the README.           *)

\* Setbacks are consecutive whatever rule was in force between them.
PendingIsConsecutive ==
  [][~LearnedProxy(rule) /\ LearnedProxy(rule') /\ ~rule'.byRate
     => hist'.setbacks >= Promotion]_vars

\* A rule that as many setbacks speak for as it takes to learn it is never given up
\* because the tunnel is slow too.
BackedRuleKept ==
  [][LearnedProxy(rule) /\ rule.fails >= Promotion /\ rule' = NoRule /\ Uncharged
     => hist'.deliveries >= Revoke]_vars

\* A candidate has its turn.
CandidateIsAsked == probe.queued ~> ~probe.queued

\* A direct way that has recovered is found out and used again.
RecoveredDirectReturns ==
  <>[][~Stalled /\ ~FailureLearned]_vars => []<>(~LearnedProxy(rule))

=============================================================================
