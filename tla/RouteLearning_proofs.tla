------------------------ MODULE RouteLearning_proofs ------------------------
(***************************************************************************)
(* Theorems about RouteLearning, for all thresholds and budgets: type      *)
(* correctness, and that every rule the program learns, changes or drops   *)
(* rests on the evidence it should rest on.                                *)
(***************************************************************************)
EXTENDS RouteLearning, TLAPS

-----------------------------------------------------------------------------
(* The operators on rules and rates.                                       *)

RuleOK(r) ==
  /\ r \in RuleType
  /\ r.byRate => LearnedProxy(r)
  /\ (r.source = "none") <=> (r = NoRule)
  /\ (r.source = "none") <=> (r.pref = "none")

RateType == [direct : 0 .. Slow, proxy : 0 .. Slow, cooling : BOOLEAN]
HistType == [setbacks : 0 .. Promotion, deliveries : 0 .. Revoke,
             answers : 0 .. (Domestic - 1), slow : [Paths -> 0 .. Slow],
             trial : BOOLEAN, other : BOOLEAN]
KernelType == [base : Bases, sends : Paths]

\* A counter that saturates stays in its range, grows, and keeps an order.
LEMMA BumpRange ==
  ASSUME NEW cap \in Nat, NEW n \in 0 .. cap
  PROVE  /\ Bump(n, cap) \in 0 .. cap
         /\ n <= Bump(n, cap)
         /\ \A k \in 0 .. cap : k <= n => Bump(k, cap) <= Bump(n, cap)
  BY DEF Bump

\* So does a run of samples.
LEMMA StreakRange ==
  ASSUME NEW n \in 0 .. Slow, NEW verdict
  PROVE  /\ Streak(n, verdict) \in 0 .. Slow
         /\ \A k \in 0 .. Slow : k <= n => Streak(k, verdict) <= Streak(n, verdict)
<1>1. /\ Bump(n, Slow) \in 0 .. Slow
      /\ \A k \in 0 .. Slow : k <= n => Bump(k, Slow) <= Bump(n, Slow)
  BY BumpRange, ThresholdAssumption
<1> QED BY <1>1, ThresholdAssumption DEF Streak

\* A rule with a source and a way is well formed, and the other way round.
LEMMA OwnedRule ==
  ASSUME NEW r \in RuleType, r.source # "none", r.pref # "none", r.byRate => LearnedProxy(r)
  PROVE  RuleOK(r)
<1>1. NoRule.source = "none" BY DEF NoRule
<1> QED BY <1>1 DEF RuleOK

LEMMA RuleFields ==
  ASSUME NEW r, RuleOK(r)
  PROVE  /\ r \in RuleType
         /\ r # NoRule => r.pref # "none" /\ r.source # "none"
         /\ r.byRate => r.source = "learned" /\ r.pref = "proxy"
  BY DEF RuleOK, LearnedProxy

\* The empty rule and a fresh rule are well formed.
LEMMA FreshRule ==
  /\ RuleOK(NoRule)
  /\ \A pref \in Paths, source \in {"user", "learned", "preset"} : RuleOK(Rule(pref, source))
<1>1. NoRule \in RuleType BY ThresholdAssumption DEF NoRule, RuleType
<1>2. NoRule.source = "none" /\ NoRule.pref = "none" /\ NoRule.byRate = FALSE BY DEF NoRule
<1>3. RuleOK(NoRule) BY <1>1, <1>2 DEF RuleOK
<1>4. ASSUME NEW pref \in Paths, NEW source \in {"user", "learned", "preset"}
      PROVE  RuleOK(Rule(pref, source))
  <2>1. Rule(pref, source) \in RuleType BY <1>1 DEF Rule, RuleType
  <2>2. /\ Rule(pref, source).source = source /\ Rule(pref, source).pref = pref
        /\ Rule(pref, source).byRate = FALSE
    BY <1>1, <1>2 DEF Rule, RuleType
  <2> QED BY <2>1, <2>2, OwnedRule DEF Paths
<1> QED BY <1>3, <1>4

\* A delivery leaves a well-formed rule, or none.
LEMMA DeliveryRule ==
  ASSUME NEW r, RuleOK(r) PROVE RuleOK(AfterDelivery(r))
<1>1. CASE r = NoRule \/ r.source = "user" BY <1>1 DEF AfterDelivery
<1>2. CASE ~(r = NoRule \/ r.source = "user")
  <2> DEFINE n == Bump(r.succs, Revoke)
             kept == [r EXCEPT !.succs = n, !.fails = 0]
  <2>0. r \in RuleType BY RuleFields
  <2>1. n \in 0 .. Revoke /\ 0 \in 0 .. Promotion
    BY <2>0, BumpRange, ThresholdAssumption DEF RuleType
  <2>2. AfterDelivery(r) \in {NoRule, kept} BY <1>2 DEF AfterDelivery
  <2> HIDE DEF n
  <2>3. /\ kept \in RuleType /\ kept.source = r.source /\ kept.pref = r.pref
        /\ kept.byRate = r.byRate
    BY <2>0, <2>1 DEF RuleType
  <2> HIDE DEF kept
  <2>4. RuleOK(kept)
    BY <1>2, <2>3, RuleFields, OwnedRule DEF LearnedProxy
  <2> QED BY <2>2, <2>4, FreshRule
<1> QED BY <1>1, <1>2

\* A sample leaves a well-formed rule and well-formed streaks.
LEMMA SampleRule ==
  ASSUME NEW r, RuleOK(r), rate \in RateType,
         NEW path \in Paths, NEW verdict \in Verdicts, Sample(r, path, verdict)
  PROVE  RuleOK(rule') /\ rate' \in RateType
<1> DEFINE streak == Streak(rate[path], verdict)
           noted == [rate EXCEPT ![path] = streak]
           cooled == [noted EXCEPT !.cooling = TRUE]
           tried == [r EXCEPT !.pref = "proxy", !.source = "learned", !.byRate = TRUE]
<1>0. r \in RuleType BY RuleFields
<1>1. rate[path] \in 0 .. Slow BY DEF RateType, Paths
<1>2. streak \in 0 .. Slow BY <1>1, StreakRange
<1>3. rule' \in {r, NoRule, tried} /\ rate' \in {rate, noted, cooled} BY DEF Sample
<1> HIDE DEF streak
<1>4. noted \in RateType BY <1>2 DEF RateType, Paths
<1> HIDE DEF noted
<1>5. cooled \in RateType BY <1>4 DEF RateType
<1>6. /\ tried \in RuleType /\ tried.pref = "proxy" /\ tried.source = "learned"
  BY <1>0 DEF RuleType, Paths
<1> HIDE DEF tried, cooled
<1>7. RuleOK(tried) BY <1>6, OwnedRule DEF LearnedProxy
<1> QED BY <1>3, <1>4, <1>5, <1>7, FreshRule

\* A setback leaves well-formed evidence.
LEMMA SetbackRule ==
  ASSUME TypeOK, RuleOK(rule), NEW poisoned \in BOOLEAN, Setback(poisoned)
  PROVE  RuleOK(rule') /\ pending' \in 0 .. (Promotion - 1) /\ domestic' = 0 /\ rate' = rate
<1>0. domestic' = 0 /\ rate' = rate BY DEF Setback
<1>1. CASE rule = NoRule
  <2> DEFINE n == Bump(pending, Promotion)
             learned == [Rule("proxy", "learned") EXCEPT !.fails = n]
  <2>1. n \in 0 .. Promotion
    <3>1. pending \in 0 .. Promotion BY ThresholdAssumption DEF TypeOK
    <3> QED BY <3>1, BumpRange, ThresholdAssumption
  <2>2. \/ pending' = 0 /\ rule' = learned
        \/ pending' = n /\ rule' = rule /\ ~Promotes(n, "none", poisoned)
    BY <1>1 DEF Setback
  <2> HIDE DEF n
  <2>3. RuleOK(learned)
    <3>1. Rule("proxy", "learned") \in RuleType
      BY FreshRule, RuleFields DEF Paths
    <3>2. /\ Rule("proxy", "learned").pref = "proxy"
          /\ Rule("proxy", "learned").source = "learned"
      BY DEF Rule, NoRule
    <3>3. learned \in RuleType /\ learned.pref = "proxy" /\ learned.source = "learned"
      BY <3>1, <3>2, <2>1 DEF RuleType
    <3> HIDE DEF learned
    <3> QED BY <3>3, OwnedRule DEF LearnedProxy
  <2>4. ~Promotes(n, "none", poisoned) => n \in 0 .. (Promotion - 1)
    BY <2>1, ThresholdAssumption DEF Promotes
  <2> HIDE DEF learned
  <2> QED BY <1>0, <2>2, <2>3, <2>4, ThresholdAssumption
<1>2. CASE rule # NoRule
  <2> DEFINE n == Bump(rule.fails, Promotion)
             judged == [rule EXCEPT !.pref = "proxy", !.source = "learned",
                                    !.fails = n, !.succs = 0, !.byRate = FALSE]
             counted == [rule EXCEPT !.fails = n, !.succs = 0]
  <2>0. rule \in RuleType BY RuleFields
  <2>1. n \in 0 .. Promotion /\ 0 \in 0 .. Revoke
    BY <2>0, BumpRange, ThresholdAssumption DEF RuleType
  <2>2. pending' = pending /\ rule' \in {rule, judged, counted} BY <1>2 DEF Setback
  <2> HIDE DEF n
  <2>3. /\ judged \in RuleType /\ judged.pref = "proxy" /\ judged.source = "learned"
    BY <2>0, <2>1 DEF RuleType, Paths
  <2>4. /\ counted \in RuleType /\ counted.source = rule.source /\ counted.pref = rule.pref
        /\ counted.byRate = rule.byRate
    BY <2>0, <2>1 DEF RuleType
  <2> HIDE DEF judged, counted
  <2>5. RuleOK(judged) BY <2>3, OwnedRule DEF LearnedProxy
  <2>6. RuleOK(counted) BY <1>2, <2>4, RuleFields, OwnedRule DEF LearnedProxy
  <2> QED BY <1>0, <2>2, <2>5, <2>6 DEF TypeOK
<1> QED BY <1>1, <1>2

\* An answer leaves a well-formed rule and a streak below its threshold.
LEMMA AnswerRule ==
  ASSUME TypeOK, RuleOK(rule), Answer
  PROVE  RuleOK(rule') /\ domestic' \in 0 .. (Domestic - 1)
<1> DEFINE learned == [rule EXCEPT !.pref = "direct", !.source = "learned", !.byRate = FALSE]
<1>0. rule \in RuleType BY RuleFields
<1>1. rule' \in {rule, learned} BY DEF Answer
<1>2. /\ learned \in RuleType /\ learned.pref = "direct" /\ learned.source = "learned"
      /\ learned.byRate = FALSE
  BY <1>0 DEF RuleType, Paths
<1>3. domestic' \in {0, domestic} \/ (domestic' = domestic + 1 /\ domestic + 1 < Domestic)
  BY ThresholdAssumption DEF Answer, Decides, TypeOK
<1> HIDE DEF learned
<1>4. RuleOK(learned) BY <1>2, OwnedRule
<1> QED BY <1>1, <1>3, <1>4, ThresholdAssumption DEF TypeOK

\* So does a command of the user.
LEMMA InstallRule ==
  ASSUME RuleOK(rule), NEW command \in UserCommands
  PROVE  RuleOK(Install(command))
<1> DEFINE listed == [rule EXCEPT !.pref = PresetPref, !.source = "preset"]
<1>0. rule \in RuleType BY RuleFields
<1>1. Install(command) \in {Rule("direct", "user"), Rule("proxy", "user"), NoRule, rule}
      \/ (Install(command) = listed /\ PresetPref # "none" /\ rule.source \in {"none", "preset"})
  BY <1>0 DEF Install, UserCommands, RuleType
<1>2. /\ listed \in RuleType /\ listed.pref = PresetPref /\ listed.source = "preset"
      /\ listed.byRate = rule.byRate
  BY <1>0, DomainAssumption DEF RuleType
<1> HIDE DEF listed
<1>3. PresetPref # "none" /\ rule.source \in {"none", "preset"} => RuleOK(listed)
  BY <1>2, RuleFields, OwnedRule
<1> QED BY <1>1, <1>3, FreshRule DEF Paths

\* The history keeps its type.
LEMMA NoteSampleType ==
  ASSUME TypeOK, NEW event, NEW path \in Paths \cup {"none"}, NEW verdict,
         NoteSample(event, path, verdict)
  PROVE  hist' \in HistType
<1> DEFINE run == Streak(hist.slow[path], verdict)
           counts == path # "none" /\ rule.source # "user"
<1>1. /\ Bump(hist.setbacks, Promotion) \in 0 .. Promotion
      /\ Bump(hist.deliveries, Revoke) \in 0 .. Revoke
  BY BumpRange, ThresholdAssumption DEF TypeOK
<1>2. Bump(hist.answers, Domestic - 1) \in 0 .. (Domestic - 1)
  BY BumpRange, ThresholdAssumption DEF TypeOK
<1>3. path # "none" => run \in 0 .. Slow BY StreakRange DEF TypeOK
<1> DEFINE s == IF LearnedProxy(rule) \/ event = "delivery" THEN 0
                ELSE IF rule.source = "user" THEN hist.setbacks
                ELSE IF event = "conclusive" THEN Promotion
                ELSE IF event \in {"setback", "conclusive"} THEN Bump(hist.setbacks, Promotion)
                ELSE hist.setbacks
           d == IF rule.source \in {"none", "user"} \/ event \in {"setback", "conclusive"} THEN 0
                ELSE IF event = "delivery" THEN Bump(hist.deliveries, Revoke) ELSE hist.deliveries
           a == IF \/ event \in {"setback", "conclusive"}
                   \/ ~LearnedDirect(rule) /\ LearnedDirect(rule') THEN 0
                ELSE IF event = "answer" THEN Bump(hist.answers, Domestic - 1) ELSE hist.answers
           w == IF counts THEN [hist.slow EXCEPT ![path] = run] ELSE hist.slow
           t == /\ LearnedProxy(rule')
                /\ \/ LearnedProxy(rule) /\ hist.trial
                   \/ counts /\ path = "direct" /\ run >= Slow
           o == pending' # 0 /\ (hist.other \/ (rule' # NoRule /\ ~LearnedProxy(rule')))
<1>4. hist' = [setbacks |-> s, deliveries |-> d, answers |-> a, slow |-> w, trial |-> t,
               other |-> o]
  BY DEF NoteSample
<1> HIDE DEF run
<1>5. s \in 0 .. Promotion /\ d \in 0 .. Revoke /\ a \in 0 .. (Domestic - 1)
  BY <1>1, <1>2, ThresholdAssumption DEF TypeOK
<1>6. w \in [Paths -> 0 .. Slow] BY <1>3 DEF TypeOK
<1>7. t \in BOOLEAN /\ o \in BOOLEAN OBVIOUS
<1> HIDE DEF s, d, a, w, t, o
<1> QED BY <1>4, <1>5, <1>6, <1>7 DEF HistType

LEMMA NoteType ==
  ASSUME TypeOK, NEW event, Note(event) PROVE hist' \in HistType
  BY NoteSampleType DEF Note

-----------------------------------------------------------------------------
(* Type correctness.                                                       *)

LEMMA TypedRule == ASSUME TypeOK PROVE RuleOK(rule)
  BY DEF TypeOK, RuleOK

\* The parts of the type, one for each variable.
LEMMA TypeParts ==
  ASSUME RuleOK(rule)', pending' \in 0 .. (Promotion - 1), domestic' \in 0 .. (Domestic - 1),
         rate' \in RateType, throttled' \subseteq Kinds,
         probe' \in [queued : BOOLEAN, asked : {"no", "asked", "again"}],
         kernel' \in KernelType, open' \in BOOLEAN, late' \in 0 .. MaxLate,
         budget' \in 0 .. MaxOutside, hist' \in HistType
  PROVE  TypeOK'
  BY DEF TypeOK, RuleOK, RateType, HistType, KernelType

LEMMA TypeInit == ASSUME Init PROVE TypeOK
<1>1. RuleOK(rule) BY FreshRule DEF Init
<1>2. /\ pending \in 0 .. (Promotion - 1) /\ domestic \in 0 .. (Domestic - 1)
      /\ rate \in RateType /\ hist \in HistType
  BY ThresholdAssumption DEF Init, RateType, HistType, Paths
<1>3. /\ throttled \subseteq Kinds /\ open \in BOOLEAN
      /\ probe \in [queued : BOOLEAN, asked : {"no", "asked", "again"}]
  BY DEF Init
<1>5. kernel \in KernelType
  <2>1. PICK base \in Bases : kernel = [base |-> base, sends |-> base] BY DEF Init
  <2>2. base \in Paths BY DomainAssumption
  <2> QED BY <2>1, <2>2 DEF KernelType
<1>4. late \in 0 .. MaxLate /\ budget \in 0 .. MaxOutside BY BudgetAssumption DEF Init
<1> QED BY <1>1, <1>2, <1>3, <1>4, <1>5 DEF TypeOK, RuleOK, RateType, HistType, KernelType

\* Connections and their evidence.
LEMMA TypeConnections ==
  ASSUME TypeOK,
         OpenDirect \/ Delivered \/ Stalled \/ ClosedEarly \/ ClosedProxied
           \/ ConnectFails \/ FailureLearned
  PROVE  TypeOK'
<1>0. RuleOK(rule) BY TypedRule
<1>1. CASE OpenDirect
  <2>1. hist' \in HistType BY <1>1, NoteType DEF OpenDirect
  <2> QED BY <1>0, <1>1, <2>1, TypeParts DEF OpenDirect, TypeOK, RuleOK, RateType, KernelType, evidence
<1>2. CASE Delivered
  <2>1. hist' \in HistType BY <1>2, NoteType, NoteSampleType DEF Delivered, Paths
  <2>2. RuleOK(AfterDelivery(rule)) BY <1>0, DeliveryRule
  <2>3. rate \in RateType BY DEF TypeOK, RateType
  <2>4. RuleOK(rule)' /\ rate' \in RateType
    <3>1. \/ rule' = rule /\ rate' = rate
          \/ rule' = AfterDelivery(rule) /\ rate' = rate
          \/ \E v \in Verdicts : Sample(AfterDelivery(rule), "direct", v)
      BY <1>2 DEF Delivered, evidence
    <3>2. ASSUME NEW v \in Verdicts, Sample(AfterDelivery(rule), "direct", v)
          PROVE  RuleOK(rule') /\ rate' \in RateType
      BY <3>2, <2>2, <2>3, SampleRule DEF Paths
    <3>3. RuleOK(rule') /\ rate' \in RateType BY <1>0, <2>2, <2>3, <3>1, <3>2
    <3> QED BY <3>3 DEF RuleOK
  <2>5. pending' \in 0 .. (Promotion - 1) /\ domestic' \in 0 .. (Domestic - 1)
    BY <1>2, ThresholdAssumption DEF Delivered, TypeOK, evidence
  <2>6. throttled' \subseteq Kinds BY <1>2 DEF Delivered, TypeOK, Kinds
  <2> QED BY <1>2, <2>1, <2>4, <2>5, <2>6, TypeParts DEF Delivered, TypeOK, KernelType
<1>3. CASE Stalled
  <2>1. hist' \in HistType BY <1>3, NoteType DEF Stalled
  <2>2. throttled' \subseteq Kinds BY <1>3 DEF Stalled, TypeOK, Kinds
  <2>3. /\ RuleOK(rule') /\ pending' \in 0 .. (Promotion - 1)
        /\ domestic' \in 0 .. (Domestic - 1) /\ rate' \in RateType
    <3>1. CASE "stall" \in throttled
      BY <1>0, <1>3, <3>1 DEF Stalled, TypeOK, RateType, evidence
    <3>2. CASE "stall" \notin throttled
      <4>1. Setback(FALSE) BY <1>3, <3>2 DEF Stalled
      <4>2. RuleOK(rule') /\ pending' \in 0 .. (Promotion - 1) /\ domestic' = 0 /\ rate' = rate
        BY <1>0, <4>1, SetbackRule
      <4>3. 0 \in 0 .. (Domestic - 1) /\ rate \in RateType
        BY ThresholdAssumption DEF TypeOK, RateType
      <4> QED BY <4>2, <4>3
    <3> QED BY <3>1, <3>2
  <2>4. RuleOK(rule)' BY <2>3 DEF RuleOK
  <2> QED BY <1>3, <2>1, <2>2, <2>3, <2>4, TypeParts DEF Stalled, TypeOK, KernelType
<1>4. CASE ClosedEarly
  <2>1. hist' \in HistType BY <1>4, NoteType DEF ClosedEarly
  <2> QED BY <1>0, <1>4, <2>1, TypeParts DEF ClosedEarly, TypeOK, RuleOK, RateType, KernelType, evidence
<1>5. CASE ClosedProxied
  <2>1. hist' \in HistType BY <1>5, NoteType, NoteSampleType DEF ClosedProxied, Paths
  <2>2. rate \in RateType BY DEF TypeOK, RateType
  <2>3. ASSUME NEW v \in Verdicts, Sample(rule, "proxy", v)
        PROVE  RuleOK(rule') /\ rate' \in RateType
    BY <1>0, <2>2, <2>3, SampleRule DEF Paths
  <2>4. RuleOK(rule') /\ rate' \in RateType BY <1>0, <1>5, <2>2, <2>3 DEF ClosedProxied
  <2>5. RuleOK(rule)' BY <2>4 DEF RuleOK
  <2> QED BY <1>5, <2>1, <2>4, <2>5, TypeParts DEF ClosedProxied, TypeOK, KernelType
<1>6. CASE ConnectFails
  <2>1. hist' \in HistType BY <1>6, NoteType DEF ConnectFails
  <2>2. late' \in 0 .. MaxLate BY <1>6, BudgetAssumption DEF ConnectFails, TypeOK
  <2> QED BY <1>0, <1>6, <2>1, <2>2, TypeParts DEF ConnectFails, TypeOK, RuleOK, RateType, KernelType, evidence
<1>7. CASE FailureLearned
  <2>1. PICK poisoned \in BOOLEAN :
          Setback(poisoned) /\ Note(IF poisoned THEN "conclusive" ELSE "setback")
    BY <1>7 DEF FailureLearned
  <2>2. hist' \in HistType BY <2>1, NoteType
  <2>3. RuleOK(rule') /\ pending' \in 0 .. (Promotion - 1) /\ domestic' = 0 /\ rate' = rate
    BY <1>0, <2>1, SetbackRule
  <2>4. RuleOK(rule)' BY <2>3 DEF RuleOK
  <2>5. late' \in 0 .. MaxLate BY <1>7, BudgetAssumption DEF FailureLearned, TypeOK
  <2>6. domestic' \in 0 .. (Domestic - 1) /\ rate' \in RateType
    BY <2>3, ThresholdAssumption DEF TypeOK, RateType
  <2> QED BY <1>7, <2>2, <2>3, <2>4, <2>5, <2>6, TypeParts DEF FailureLearned, TypeOK, KernelType
<1> QED BY <1>1, <1>2, <1>3, <1>4, <1>5, <1>6, <1>7

\* Candidates for going direct.
LEMMA TypeCandidates ==
  ASSUME TypeOK,
         OpenProxied \/ Asks \/ (\E inRange \in BOOLEAN : Answered(inRange)) \/ RoundEnds
  PROVE  TypeOK'
<1>0. RuleOK(rule) BY TypedRule
<1>1. CASE OpenProxied
  <2>1. hist' \in HistType BY <1>1, NoteType DEF OpenProxied
  <2> QED BY <1>0, <1>1, <2>1, TypeParts DEF OpenProxied, TypeOK, RuleOK, RateType, KernelType, evidence
<1>2. CASE Asks
  <2>1. hist' \in HistType BY <1>2, NoteType DEF Asks
  <2> QED BY <1>0, <1>2, <2>1, TypeParts DEF Asks, TypeOK, RuleOK, RateType, KernelType, evidence
<1>3. ASSUME NEW inRange \in BOOLEAN, Answered(inRange) PROVE TypeOK'
  <2>1. hist' \in HistType BY <1>3, NoteType DEF Answered
  <2>2. RuleOK(rule') /\ domestic' \in 0 .. (Domestic - 1)
    <3>1. CASE inRange
      BY <1>0, <1>3, <3>1, AnswerRule DEF Answered
    <3>2. CASE ~inRange BY <1>0, <1>3, <3>2 DEF Answered, TypeOK
    <3> QED BY <3>1, <3>2
  <2>3. RuleOK(rule)' BY <2>2 DEF RuleOK
  <2>4. probe' \in [queued : BOOLEAN, asked : {"no", "asked", "again"}]
    BY <1>3 DEF Answered, TypeOK
  <2> QED BY <1>3, <2>1, <2>2, <2>3, <2>4, TypeParts DEF Answered, TypeOK, RateType, KernelType
<1>4. CASE RoundEnds
  <2>1. hist' \in HistType BY <1>4, NoteType DEF RoundEnds
  <2>2. Enqueued \in BOOLEAN BY DEF Enqueued, TypeOK
  <2> QED BY <1>0, <1>4, <2>1, <2>2, TypeParts DEF RoundEnds, TypeOK, RuleOK, RateType, KernelType, evidence
<1> QED BY <1>1, <1>2, <1>3, <1>4

\* The kernel, time, and the world around.
LEMMA TypeOutside ==
  ASSUME TypeOK,
         RulesFetched \/ CoolDownEnds \/ Reconnects
           \/ (\E kind \in Kinds : WindowPasses(kind)) \/ (\E what \in Crowds : Crowded(what))
           \/ (\E command \in UserCommands : User(command))
  PROVE  TypeOK'
<1>0. RuleOK(rule) BY TypedRule
<1>W. ASSUME NEW r, RuleOK(r) PROVE Sends(r) \in KernelType
  <2>1. r \in RuleType /\ (r # NoRule => r.pref # "none") BY <1>W, RuleFields
  <2>2. Way(r) \in Paths BY <2>1, DomainAssumption DEF Way, RuleType, TypeOK
  <2> QED BY <2>2 DEF Sends, TypeOK, KernelType
<1>B. ASSUME Outside PROVE budget' \in 0 .. MaxOutside
  BY <1>B, BudgetAssumption DEF Outside, TypeOK
<1>1. CASE RulesFetched
  <2>1. hist' \in HistType BY <1>1, NoteType DEF RulesFetched
  <2>2. kernel' \in KernelType BY <1>0, <1>1, <1>W DEF RulesFetched
  <2> QED BY <1>0, <1>1, <2>1, <2>2, TypeParts
          DEF RulesFetched, TypeOK, RuleOK, RateType, KernelType, evidence
<1>2. CASE CoolDownEnds
  <2>1. hist' \in HistType BY <1>2, NoteType DEF CoolDownEnds
  <2>2. rate' \in RateType BY <1>2 DEF CoolDownEnds, TypeOK, RateType
  <2> QED BY <1>0, <1>2, <2>1, <2>2, TypeParts DEF CoolDownEnds, TypeOK, RuleOK, KernelType
<1>3. CASE Reconnects
  <2>1. hist' \in HistType BY <1>3, NoteType DEF Reconnects
  <2>2. RuleOK(rule') BY <1>0, <1>3, FreshRule DEF Reconnects
  <2>3. kernel' \in KernelType BY <1>0, <1>3, <1>W, <2>2 DEF Reconnects
  <2>4. RuleOK(rule)' BY <2>2 DEF RuleOK
  <2>5. /\ probe' \in [queued : BOOLEAN, asked : {"no", "asked", "again"}]
        /\ throttled' \subseteq Kinds /\ open' \in BOOLEAN
    BY <1>3 DEF Reconnects, TypeOK
  <2>6. budget' \in 0 .. MaxOutside BY <1>3, <1>B DEF Reconnects
  <2> QED BY <1>3, <2>1, <2>3, <2>4, <2>5, <2>6, TypeParts DEF Reconnects, TypeOK, RateType, KernelType
<1>4. ASSUME NEW kind \in Kinds, WindowPasses(kind) PROVE TypeOK'
  <2>1. hist' \in HistType BY <1>4, NoteType DEF WindowPasses
  <2>2. throttled' \subseteq Kinds BY <1>4 DEF WindowPasses, TypeOK
  <2> QED BY <1>0, <1>4, <2>1, <2>2, TypeParts
          DEF WindowPasses, TypeOK, RuleOK, RateType, KernelType, evidence
<1>5. ASSUME NEW what \in Crowds, Crowded(what) PROVE TypeOK'
  <2>1. hist' \in HistType BY <1>5, NoteType DEF Crowded
  <2>2. RuleOK(rule') BY <1>0, <1>5, FreshRule DEF Crowded
  <2>3. RuleOK(rule)' BY <2>2 DEF RuleOK
  <2>4. pending' \in 0 .. (Promotion - 1) /\ domestic' \in 0 .. (Domestic - 1)
    BY <1>5, ThresholdAssumption DEF Crowded, TypeOK
  <2>5. probe' \in [queued : BOOLEAN, asked : {"no", "asked", "again"}]
    BY <1>5 DEF Crowded, TypeOK
  <2>6. budget' \in 0 .. MaxOutside BY <1>5, <1>B DEF Crowded
  <2> QED BY <1>5, <2>1, <2>3, <2>4, <2>5, <2>6, TypeParts DEF Crowded, TypeOK, RateType, KernelType
<1>6. ASSUME NEW command \in UserCommands, User(command) PROVE TypeOK'
  <2>1. hist' \in HistType BY <1>6, NoteType DEF User
  <2>2. RuleOK(rule') BY <1>0, <1>6, InstallRule DEF User
  <2>3. RuleOK(rule)' BY <2>2 DEF RuleOK
  <2>4. pending' \in 0 .. (Promotion - 1)
    BY <1>6, ThresholdAssumption DEF User, TypeOK
  <2>5. rate' \in RateType
    BY <1>6, ThresholdAssumption DEF User, TypeOK, RateType
  <2>6. budget' \in 0 .. MaxOutside BY <1>6, <1>B DEF User
  <2> QED BY <1>6, <2>1, <2>3, <2>4, <2>5, <2>6, TypeParts DEF User, TypeOK, KernelType
<1> QED BY <1>1, <1>2, <1>3, <1>4, <1>5, <1>6

LEMMA TypeNext == ASSUME TypeOK, [Next]_vars PROVE TypeOK'
<1>1. CASE Next BY <1>1, TypeConnections, TypeCandidates, TypeOutside DEF Next
<1>2. CASE UNCHANGED vars
  BY <1>2 DEF vars, evidence, TypeOK, LearnedProxy
<1> QED BY <1>1, <1>2

\* Types, and evidence below a threshold is never a rule.
THEOREM TypeCorrect == Spec => []TypeOK
  BY TypeInit, TypeNext, PTL DEF Spec

-----------------------------------------------------------------------------
(* The counters of the program never run ahead of what was observed.       *)

AnswersCounted == domestic <= hist.answers

DeliveriesCounted == rule.source # "user" => rule.succs <= hist.deliveries

SetbacksCounted ==
  /\ rule # NoRule /\ rule.source # "user" /\ ~LearnedProxy(rule)
       => rule.fails <= hist.setbacks
  /\ ~hist.other /\ rule = NoRule => pending <= hist.setbacks
  /\ ~hist.other /\ rule # NoRule => pending = 0

SamplesCounted ==
  /\ \A path \in Paths : rate[path] <= hist.slow[path]
  /\ rule.byRate => hist.trial

Counted == AnswersCounted /\ DeliveriesCounted /\ SetbacksCounted /\ SamplesCounted

\* What every step is held to, without the brackets of the properties.
Justified ==
  /\ rule.source = "user" /\ Uncharged => rule' = rule
  /\ LearnedProxy(rule) /\ Uncharged => rule'.pref # "direct"
  /\ ~LearnedDirect(rule) /\ LearnedDirect(rule') => hist.answers + 1 >= Domestic
  /\ /\ ~LearnedProxy(rule) /\ LearnedProxy(rule') /\ ~rule'.byRate
     /\ rule # NoRule \/ ~hist.other
     => hist'.setbacks >= Promotion
  /\ LearnedProxy(rule) /\ rule' = NoRule /\ Uncharged
     => \/ hist'.deliveries >= Revoke
        \/ hist.trial /\ hist'.slow.proxy >= Slow

LEMMA CountedInit == ASSUME Init PROVE Counted
<1>1. ~LearnedProxy(rule) /\ rule.succs = 0 /\ rule.byRate = FALSE
  BY DEF Init, LearnedProxy, NoRule
<1>2. SamplesCounted BY <1>1 DEF Init, SamplesCounted, Paths
<1> QED BY <1>1, <1>2 DEF Init, Counted, AnswersCounted, DeliveriesCounted, SetbacksCounted

\* The history, field by field.
LEMMA NoteSampleEffect ==
  ASSUME TypeOK, NEW event, NEW path, NEW verdict, NoteSample(event, path, verdict)
  PROVE  /\ hist'.setbacks = IF LearnedProxy(rule) \/ event = "delivery" THEN 0
                             ELSE IF rule.source = "user" THEN hist.setbacks
                             ELSE IF event = "conclusive" THEN Promotion
                             ELSE IF event = "setback" THEN Bump(hist.setbacks, Promotion)
                             ELSE hist.setbacks
         /\ hist'.deliveries = IF \/ rule.source \in {"none", "user"}
                                  \/ event \in {"setback", "conclusive"} THEN 0
                               ELSE IF event = "delivery" THEN Bump(hist.deliveries, Revoke)
                               ELSE hist.deliveries
         /\ hist'.answers = IF \/ event \in {"setback", "conclusive"}
                               \/ ~LearnedDirect(rule) /\ LearnedDirect(rule') THEN 0
                            ELSE IF event = "answer" THEN Bump(hist.answers, Domestic - 1)
                            ELSE hist.answers
         /\ hist'.other <=> /\ pending' # 0
                            /\ hist.other \/ (rule' # NoRule /\ ~LearnedProxy(rule'))
         /\ hist.setbacks \in 0 .. Promotion /\ hist.deliveries \in 0 .. Revoke
         /\ hist.answers \in 0 .. (Domestic - 1)
  BY DEF NoteSample, TypeOK

LEMMA RunEffect ==
  ASSUME TypeOK, NEW event, NEW path, NEW verdict, NoteSample(event, path, verdict)
  PROVE  /\ hist'.slow = IF path # "none" /\ rule.source # "user"
                         THEN [hist.slow EXCEPT ![path] = Streak(hist.slow[path], verdict)]
                         ELSE hist.slow
         /\ hist'.trial <=> /\ LearnedProxy(rule')
                            /\ \/ LearnedProxy(rule) /\ hist.trial
                               \/ /\ rule.source # "user" /\ path = "direct"
                                  /\ Streak(hist.slow[path], verdict) >= Slow
  BY DEF NoteSample, TypeOK

LEMMA NoteEffect ==
  ASSUME TypeOK, NEW event, Note(event)
  PROVE  /\ hist'.setbacks = IF LearnedProxy(rule) \/ event = "delivery" THEN 0
                             ELSE IF rule.source = "user" THEN hist.setbacks
                             ELSE IF event = "conclusive" THEN Promotion
                             ELSE IF event = "setback" THEN Bump(hist.setbacks, Promotion)
                             ELSE hist.setbacks
         /\ hist'.deliveries = IF \/ rule.source \in {"none", "user"}
                                  \/ event \in {"setback", "conclusive"} THEN 0
                               ELSE IF event = "delivery" THEN Bump(hist.deliveries, Revoke)
                               ELSE hist.deliveries
         /\ hist'.answers = IF \/ event \in {"setback", "conclusive"}
                               \/ ~LearnedDirect(rule) /\ LearnedDirect(rule') THEN 0
                            ELSE IF event = "answer" THEN Bump(hist.answers, Domestic - 1)
                            ELSE hist.answers
         /\ hist'.slow = hist.slow
         /\ hist'.trial <=> LearnedProxy(rule') /\ LearnedProxy(rule) /\ hist.trial
         /\ hist'.other <=> /\ pending' # 0
                            /\ hist.other \/ (rule' # NoRule /\ ~LearnedProxy(rule'))
         /\ hist.setbacks \in 0 .. Promotion /\ hist.deliveries \in 0 .. Revoke
         /\ hist.answers \in 0 .. (Domestic - 1)
<1>1. NoteSample(event, "none", "none") BY DEF Note
<1>2. /\ hist'.slow = hist.slow
      /\ hist'.trial <=> LearnedProxy(rule') /\ LearnedProxy(rule) /\ hist.trial
  BY <1>1, RunEffect
<1> QED BY <1>1, <1>2, NoteSampleEffect

\* Without a sample the runs stay behind what was observed.
LEMMA RunsKept ==
  ASSUME TypeOK, TypeOK', SamplesCounted, NEW event, Note(event),
         \A path \in Paths : rate'[path] \in {0, rate[path]},
         rule'.byRate => rule.byRate
  PROVE  SamplesCounted'
<1>1. \A path \in Paths : hist.slow[path] \in Nat BY ThresholdAssumption DEF TypeOK
<1>2. rule'.byRate => LearnedProxy(rule) /\ LearnedProxy(rule') BY DEF TypeOK, LearnedProxy
<1> QED BY <1>1, <1>2, NoteEffect DEF SamplesCounted

\* A sample keeps the runs behind what was observed, and shows what a trial rests on.
LEMMA RunsSampled ==
  ASSUME TypeOK, TypeOK', SamplesCounted, NEW r, RuleOK(r), r.source = "user" <=> rule.source = "user",
         r.byRate => rule.byRate, NEW event, NEW path \in Paths, NEW verdict,
         Sample(r, path, verdict), NoteSample(event, path, verdict)
  PROVE  /\ SamplesCounted'
         /\ path = "proxy" /\ rule' # r => hist.trial /\ hist'.slow.proxy >= Slow
<1> DEFINE streak == Streak(rate[path], verdict)
           run == Streak(hist.slow[path], verdict)
           noted == [rate EXCEPT ![path] = streak]
<1>1. CASE r.source = "user"
  <2>1. rule' = r /\ rate' = rate /\ hist'.slow = hist.slow /\ ~rule'.byRate
    BY <1>1, RunEffect DEF Sample, RuleOK, LearnedProxy
  <2> QED BY <2>1 DEF SamplesCounted
<1>2. CASE r.source # "user"
  <2>1. /\ rate \in RateType /\ rate[path] \in 0 .. Slow /\ hist.slow[path] \in 0 .. Slow
        /\ hist.slow \in [Paths -> 0 .. Slow] /\ rate[path] <= hist.slow[path]
    BY DEF TypeOK, RateType, SamplesCounted, Paths
  <2>2. streak <= run /\ streak \in Nat /\ run \in Nat
    BY <2>1, StreakRange, ThresholdAssumption
  <2>0. path # "none" /\ rule.source # "user" BY <1>2 DEF Paths
  <2>3. /\ hist'.slow = [hist.slow EXCEPT ![path] = run]
        /\ hist'.trial <=> /\ LearnedProxy(rule')
                           /\ \/ LearnedProxy(rule) /\ hist.trial
                              \/ path = "direct" /\ run >= Slow
    <3>1. hist'.slow = [hist.slow EXCEPT ![path] = run] BY <2>0, RunEffect
    <3>2. hist'.trial <=> /\ LearnedProxy(rule')
                          /\ \/ LearnedProxy(rule) /\ hist.trial
                             \/ path = "direct" /\ run >= Slow
      BY <2>0, RunEffect
    <3> QED BY <3>1, <3>2
  <2>4. \/ /\ path = "proxy" /\ r.byRate /\ streak >= Slow /\ rule' = NoRule
           /\ rate' = [noted EXCEPT !.cooling = TRUE]
        \/ path = "direct" /\ streak >= Slow /\ rate' = noted
        \/ rule' = r /\ rate' = noted
    BY <1>2 DEF Sample
  <2> HIDE DEF streak, run
  <2>5. \A p \in Paths : rate'[p] = IF p = path THEN streak ELSE rate[p]
    <3>1. \A p \in Paths : noted[p] = IF p = path THEN streak ELSE rate[p]
      BY <2>1 DEF RateType, Paths
    <3>2. noted \in [direct : {noted.direct}, proxy : {noted.proxy}, cooling : BOOLEAN]
      BY <2>1 DEF RateType, Paths
    <3> HIDE DEF noted
    <3>3. \A p \in Paths : [noted EXCEPT !.cooling = TRUE][p] = noted[p]
      BY <3>2 DEF Paths
    <3> QED BY <2>4, <3>1, <3>3
  <2>6. \A p \in Paths : rate'[p] <= hist'.slow[p]
    BY <2>1, <2>2, <2>3, <2>5 DEF SamplesCounted
  <2>7. rule.byRate => LearnedProxy(rule) /\ hist.trial BY DEF TypeOK, SamplesCounted
  <2>8. rule'.byRate => LearnedProxy(rule') BY DEF TypeOK
  <2>9. NoRule.byRate = FALSE BY DEF NoRule
  <2>10. streak >= Slow => run >= Slow BY <2>2, ThresholdAssumption
  <2>11. rule'.byRate => hist'.trial
    BY <2>3, <2>4, <2>7, <2>8, <2>9, <2>10
  <2>12. path = "proxy" => hist'.slow.proxy = run BY <2>1, <2>3
  <2> QED BY <2>4, <2>6, <2>7, <2>10, <2>11, <2>12 DEF SamplesCounted, Paths
<1> QED BY <1>1, <1>2

\* Steps that leave the evidence alone.
LEMMA QuietStep ==
  ASSUME TypeOK, TypeOK', Counted, rule' = rule, pending' = pending, domestic' = domestic,
         \A path \in Paths : rate'[path] = rate[path], Note("none")
  PROVE  Counted' /\ Justified
<1>1. RuleOK(rule) BY TypedRule
<1>2. ~LearnedProxy(NoRule) /\ NoRule.source = "none" /\ NoRule.succs = 0
  BY DEF LearnedProxy, NoRule
<1>3. pending \in Nat BY ThresholdAssumption DEF TypeOK
<1>4. rule = NoRule => rule.pref = "none" BY DEF NoRule
<1>5. SamplesCounted' BY RunsKept DEF Counted
<1>6. rule.source = "none" => rule.succs = 0 BY <1>1, <1>2 DEF RuleOK
<1>7. AnswersCounted' /\ DeliveriesCounted'
  BY <1>6, NoteEffect DEF Counted, AnswersCounted, DeliveriesCounted, TypeOK
<1>8. SetbacksCounted' BY <1>2, <1>3, NoteEffect DEF Counted, SetbacksCounted, TypeOK
<1>9. Justified BY <1>2, <1>4 DEF Justified, LearnedProxy
<1> QED BY <1>5, <1>7, <1>8, <1>9 DEF Counted

\* What a setback does to the evidence.
LEMMA SetbackEffect ==
  ASSUME TypeOK, NEW poisoned \in BOOLEAN, Setback(poisoned)
  PROVE  \/ rule # NoRule /\ rule.source = "user" /\ rule' = rule /\ pending' = pending
         \/ rule = NoRule /\ rule' = NoRule /\ pending' = Bump(pending, Promotion)
         \/ /\ pending' = IF rule = NoRule THEN 0 ELSE pending
            /\ LearnedProxy(rule') /\ ~LearnedProxy(rule) /\ ~rule'.byRate /\ rule'.succs = 0
            /\ rule.source # "user"
            /\ poisoned \/ Bump(IF rule = NoRule THEN pending ELSE rule.fails, Promotion) >= Promotion
         \/ /\ rule # NoRule /\ rule.source # "user" /\ pending' = pending
            /\ rule'.source = rule.source /\ rule'.pref = rule.pref /\ rule'.succs = 0
            /\ rule'.fails = Bump(rule.fails, Promotion)
<1>0. RuleOK(rule) /\ rule \in RuleType BY TypedRule, RuleFields
<1>1. CASE rule = NoRule
  <2> DEFINE n == Bump(pending, Promotion)
             learned == [Rule("proxy", "learned") EXCEPT !.fails = n]
  <2>1. \/ pending' = 0 /\ rule' = learned /\ Promotes(n, "none", poisoned)
        \/ pending' = n /\ rule' = rule
    BY <1>1 DEF Setback
  <2>2. Rule("proxy", "learned") \in RuleType BY FreshRule, RuleFields DEF Paths
  <2>3. /\ Rule("proxy", "learned").pref = "proxy" /\ Rule("proxy", "learned").source = "learned"
        /\ Rule("proxy", "learned").byRate = FALSE /\ Rule("proxy", "learned").succs = 0
    BY DEF Rule, NoRule
  <2> HIDE DEF n
  <2>4. /\ learned.pref = "proxy" /\ learned.source = "learned" /\ learned.byRate = FALSE
        /\ learned.succs = 0
    BY <2>2, <2>3 DEF RuleType
  <2> HIDE DEF learned
  <2>5. Promotes(n, "none", poisoned) => poisoned \/ n >= Promotion BY DEF Promotes
  <2>6. ~LearnedProxy(rule) /\ rule.source # "user" BY <1>1 DEF LearnedProxy, NoRule
  <2>7. pending' = n => pending' = Bump(pending, Promotion) BY DEF n
  <2>8. n >= Promotion => Bump(pending, Promotion) >= Promotion BY DEF n
  <2> QED BY <1>1, <2>1, <2>4, <2>5, <2>6, <2>7, <2>8 DEF LearnedProxy
<1>2. CASE rule # NoRule
  <2> DEFINE n == Bump(rule.fails, Promotion)
             judged == [rule EXCEPT !.pref = "proxy", !.source = "learned",
                                    !.fails = n, !.succs = 0, !.byRate = FALSE]
             counted == [rule EXCEPT !.fails = n, !.succs = 0]
  <2>1. /\ pending' = pending
        /\ \/ rule.source = "user" /\ rule' = rule
           \/ rule.source # "user" /\ rule' = judged /\ Promotes(n, rule.pref, poisoned)
           \/ rule.source # "user" /\ rule' = counted
    BY <1>2 DEF Setback
  <2> HIDE DEF n
  <2>2. /\ judged.pref = "proxy" /\ judged.source = "learned" /\ judged.byRate = FALSE
        /\ judged.succs = 0
    BY <1>0 DEF RuleType
  <2>3. /\ counted.pref = rule.pref /\ counted.source = rule.source /\ counted.succs = 0
        /\ counted.fails = n
    BY <1>0 DEF RuleType
  <2> HIDE DEF judged, counted
  <2>4. Promotes(n, rule.pref, poisoned) => rule.pref # "proxy" /\ (poisoned \/ n >= Promotion)
    BY DEF Promotes
  <2>5. n = Bump(rule.fails, Promotion) BY DEF n
  <2> QED BY <1>2, <2>1, <2>2, <2>3, <2>4, <2>5 DEF LearnedProxy
<1> QED BY <1>1, <1>2

\* A setback takes no sample, and makes no trial.
LEMMA SetbackTrial ==
  ASSUME TypeOK, NEW poisoned, Setback(poisoned)
  PROVE  rate' = rate /\ (rule'.byRate => rule.byRate)
<1> DEFINE fresh(n) == [Rule("proxy", "learned") EXCEPT !.fails = n]
           judged(n) == [rule EXCEPT !.pref = "proxy", !.source = "learned",
                                     !.fails = n, !.succs = 0, !.byRate = FALSE]
           counted(n) == [rule EXCEPT !.fails = n, !.succs = 0]
<1>0. rule \in RuleType BY TypedRule, RuleFields
<1>1. rate' = rate /\ \E n : rule' \in {rule, fresh(n), judged(n), counted(n)} BY DEF Setback
<1>2. \A n : fresh(n).byRate = FALSE BY DEF Rule, NoRule
<1>3. \A n : judged(n).byRate = FALSE /\ counted(n).byRate = rule.byRate BY <1>0 DEF RuleType
<1> HIDE DEF fresh, judged, counted
<1> QED BY <1>1, <1>2, <1>3

\* A setback, conclusive or not, is a step the evidence justifies.
LEMMA SetbackStep ==
  ASSUME TypeOK, TypeOK', Counted, NEW poisoned \in BOOLEAN, Setback(poisoned),
         Note(IF poisoned THEN "conclusive" ELSE "setback")
  PROVE  Counted' /\ Justified
<1>1. RuleOK(rule) /\ rule \in RuleType BY TypedRule, RuleFields
<1>2. ~LearnedProxy(NoRule) /\ NoRule.source = "none" /\ NoRule.succs = 0
  BY DEF LearnedProxy, NoRule
<1>S. SamplesCounted'
  <2>1. rate' = rate /\ (rule'.byRate => rule.byRate) BY <1>1, SetbackTrial
  <2> QED BY <2>1, RunsKept DEF Counted
<1>3. /\ pending \in 0 .. Promotion /\ rule.fails \in 0 .. Promotion
      /\ hist.setbacks \in 0 .. Promotion
  BY <1>1, ThresholdAssumption DEF TypeOK, RuleType
<1>4. /\ hist'.setbacks = IF LearnedProxy(rule) THEN 0
                          ELSE IF rule.source = "user" THEN hist.setbacks
                          ELSE IF poisoned THEN Promotion ELSE Bump(hist.setbacks, Promotion)
      /\ hist'.answers = 0 /\ hist'.deliveries = 0
      /\ hist'.other <=> /\ pending' # 0
                         /\ hist.other \/ (rule' # NoRule /\ ~LearnedProxy(rule'))
  BY NoteEffect
<1>5. \A k \in 0 .. Promotion :
        k <= hist.setbacks => Bump(k, Promotion) <= Bump(hist.setbacks, Promotion)
  BY <1>3, BumpRange, ThresholdAssumption
<1>6. /\ Bump(pending, Promotion) \in 0 .. Promotion
      /\ Bump(rule.fails, Promotion) \in 0 .. Promotion
      /\ Bump(hist.setbacks, Promotion) \in 0 .. Promotion
      /\ hist.setbacks <= Bump(hist.setbacks, Promotion)
  BY <1>3, BumpRange, ThresholdAssumption
<1>7. domestic' = 0 BY DEF Setback
<1>8. CASE rule # NoRule /\ rule.source = "user" /\ rule' = rule /\ pending' = pending
  <2>1. ~LearnedProxy(rule) BY <1>8 DEF LearnedProxy
  <2>2. Counted' BY <1>S, <1>2, <1>3, <1>4, <1>6, <1>7, <1>8, <2>1
        DEF Counted, AnswersCounted, DeliveriesCounted, SetbacksCounted
  <2> QED BY <1>8, <2>1, <2>2 DEF Justified
<1>9. CASE rule = NoRule /\ rule' = NoRule /\ pending' = Bump(pending, Promotion)
  <2>1. Counted' BY <1>S, <1>2, <1>3, <1>4, <1>5, <1>6, <1>7, <1>9
        DEF Counted, AnswersCounted, DeliveriesCounted, SetbacksCounted
  <2> QED BY <1>2, <1>9, <2>1 DEF Justified
<1>10. CASE /\ pending' = IF rule = NoRule THEN 0 ELSE pending
            /\ LearnedProxy(rule') /\ ~LearnedProxy(rule) /\ ~rule'.byRate /\ rule'.succs = 0
            /\ rule.source # "user"
            /\ poisoned \/ Bump(IF rule = NoRule THEN pending ELSE rule.fails, Promotion) >= Promotion
  <2>1. rule' # NoRule /\ ~LearnedDirect(rule') /\ rule'.pref = "proxy"
    BY <1>2, <1>10 DEF LearnedProxy, LearnedDirect
  <2>2. Counted' BY <1>S, <1>4, <1>7, <1>10, <2>1
        DEF Counted, AnswersCounted, DeliveriesCounted, SetbacksCounted
  <2>3. rule # NoRule \/ ~hist.other =>
          (IF rule = NoRule THEN pending ELSE rule.fails) <= hist.setbacks
    BY <1>10 DEF Counted, SetbacksCounted
  <2>4. rule # NoRule \/ ~hist.other => hist'.setbacks >= Promotion
    BY <1>3, <1>4, <1>5, <1>6, <1>10, <2>3, ThresholdAssumption
  <2> QED BY <1>10, <2>1, <2>2, <2>4 DEF Justified
<1>11. CASE /\ rule # NoRule /\ rule.source # "user" /\ pending' = pending
            /\ rule'.source = rule.source /\ rule'.pref = rule.pref /\ rule'.succs = 0
            /\ rule'.fails = Bump(rule.fails, Promotion)
  <2>1. LearnedProxy(rule') <=> LearnedProxy(rule) BY <1>11 DEF LearnedProxy
  <2>2. LearnedDirect(rule') <=> LearnedDirect(rule) BY <1>11 DEF LearnedDirect
  <2>3. rule.source # "none" BY <1>1, <1>11 DEF RuleOK
  <2>4. rule' # NoRule BY <1>2, <1>11, <2>3
  <2>5. Counted' BY <1>S, <1>2, <1>3, <1>4, <1>5, <1>6, <1>7, <1>11, <2>1, <2>4
        DEF Counted, AnswersCounted, DeliveriesCounted, SetbacksCounted
  <2>6. LearnedProxy(rule) => rule'.pref # "direct" BY <1>11 DEF LearnedProxy
  <2> QED BY <1>11, <2>1, <2>2, <2>4, <2>5, <2>6 DEF Justified
<1> QED BY <1>8, <1>9, <1>10, <1>11, SetbackEffect

\* What a delivery does to a rule.
LEMMA DeliveryEffect ==
  ASSUME RuleOK(rule)
  PROVE  LET a == AfterDelivery(rule) IN
         \/ a = rule /\ (rule = NoRule \/ rule.source = "user")
         \/ LearnedProxy(rule) /\ a = NoRule /\ Bump(rule.succs, Revoke) >= Revoke
         \/ /\ rule # NoRule /\ rule.source # "user" /\ a.source = rule.source
            /\ a.pref = rule.pref /\ a.byRate = rule.byRate /\ a.fails = 0
            /\ a.succs = Bump(rule.succs, Revoke)
<1> DEFINE n == Bump(rule.succs, Revoke)
           kept == [rule EXCEPT !.succs = n, !.fails = 0]
<1>1. rule \in RuleType BY RuleFields
<1>2. CASE rule = NoRule \/ rule.source = "user" BY <1>2 DEF AfterDelivery
<1>3. CASE ~(rule = NoRule \/ rule.source = "user")
  <2>1. AfterDelivery(rule) = IF LearnedProxy(rule) /\ n >= Revoke THEN NoRule ELSE kept
    BY <1>3 DEF AfterDelivery
  <2>2. n = Bump(rule.succs, Revoke) OBVIOUS
  <2> HIDE DEF n
  <2>3. /\ kept.source = rule.source /\ kept.pref = rule.pref /\ kept.byRate = rule.byRate
        /\ kept.fails = 0 /\ kept.succs = n
    BY <1>1 DEF RuleType
  <2> HIDE DEF kept
  <2> QED BY <1>3, <2>1, <2>2, <2>3
<1> QED BY <1>2, <1>3

\* What a sample does to the rule it meets.
LEMMA SampleEffect ==
  ASSUME NEW r, RuleOK(r), NEW path, NEW verdict, Sample(r, path, verdict)
  PROVE  \/ rule' = r
         \/ path = "proxy" /\ r.byRate /\ r.source # "user" /\ rule' = NoRule
         \/ /\ path = "direct" /\ r.source # "user"
            /\ rule'.pref = "proxy" /\ rule'.source = "learned" /\ rule'.byRate = TRUE
            /\ rule'.succs = r.succs
<1> DEFINE tried == [r EXCEPT !.pref = "proxy", !.source = "learned", !.byRate = TRUE]
<1>1. r \in RuleType BY RuleFields
<1>2. \/ rule' = r
      \/ path = "proxy" /\ r.byRate /\ r.source # "user" /\ rule' = NoRule
      \/ path = "direct" /\ r.source # "user" /\ rule' = tried
  BY DEF Sample
<1>3. /\ tried.pref = "proxy" /\ tried.source = "learned" /\ tried.byRate = TRUE
      /\ tried.succs = r.succs
  BY <1>1 DEF RuleType
<1> HIDE DEF tried
<1> QED BY <1>2, <1>3

\* A recorded delivery, with or without a sample.
LEMMA DeliveredStep ==
  ASSUME TypeOK, TypeOK', Counted, Delivered PROVE Counted' /\ Justified
<1>1. CASE "delivery" \in throttled
  BY <1>1, QuietStep DEF Delivered, evidence
<1>2. CASE "delivery" \notin throttled
  <2> DEFINE a == AfterDelivery(rule)
  <2>0. RuleOK(rule) /\ rule \in RuleType /\ RuleOK(a) BY TypedRule, RuleFields, DeliveryRule
  <2>7. /\ NoRule.source = "none" /\ NoRule.pref = "none" /\ NoRule.succs = 0
        /\ NoRule.byRate = FALSE /\ ~LearnedProxy(NoRule) /\ ~LearnedDirect(NoRule)
    BY DEF NoRule, LearnedProxy, LearnedDirect
  <2>1. /\ pending' = IF rule = NoRule THEN 0 ELSE pending
        /\ domestic' = domestic
        /\ \/ rule' = a /\ rate' = rate /\ Note("delivery")
           \/ \E v \in Verdicts : Sample(a, "direct", v) /\ NoteSample("delivery", "direct", v)
    BY <1>2 DEF Delivered
  <2>N. PICK path, verdict : NoteSample("delivery", path, verdict) BY <2>1 DEF Note
  <2>2. /\ hist'.setbacks = 0
        /\ hist'.answers \in {0, hist.answers} /\ hist.answers \in Nat
        /\ ~LearnedDirect(rule') \/ LearnedDirect(rule) => hist'.answers = hist.answers
        /\ hist'.deliveries = IF rule.source \in {"none", "user"} THEN 0
                              ELSE Bump(hist.deliveries, Revoke)
        /\ hist'.other <=> /\ pending' # 0
                           /\ hist.other \/ (rule' # NoRule /\ ~LearnedProxy(rule'))
        /\ hist.deliveries \in 0 .. Revoke
    BY <2>N, NoteSampleEffect, ThresholdAssumption
  <2>D. \/ a = rule /\ (rule = NoRule \/ rule.source = "user")
        \/ LearnedProxy(rule) /\ a = NoRule /\ Bump(rule.succs, Revoke) >= Revoke
        \/ /\ rule # NoRule /\ rule.source # "user" /\ a.source = rule.source
           /\ a.pref = rule.pref /\ a.byRate = rule.byRate /\ a.fails = 0
           /\ a.succs = Bump(rule.succs, Revoke)
    BY <2>0, DeliveryEffect
  <2>S. SamplesCounted'
    <3>1. a.byRate => rule.byRate BY <2>7, <2>D
    <3>2. a.source = "user" <=> rule.source = "user" BY <2>7, <2>D DEF LearnedProxy
    <3>3. ASSUME NEW v \in Verdicts, Sample(a, "direct", v), NoteSample("delivery", "direct", v)
          PROVE  SamplesCounted'
      BY <2>0, <3>1, <3>2, <3>3, RunsSampled DEF Counted, Paths
    <3>4. ASSUME rule' = a, rate' = rate, Note("delivery") PROVE SamplesCounted'
      BY <3>1, <3>4, RunsKept DEF Counted
    <3> QED BY <2>1, <3>3, <3>4
  <2>3. \/ rule' = a
        \/ /\ a.source # "user" /\ rule'.pref = "proxy" /\ rule'.source = "learned"
           /\ rule'.byRate = TRUE /\ rule'.succs = a.succs
    BY <2>0, <2>1, SampleEffect
  <2>4. rule.succs \in 0 .. Revoke BY <2>0 DEF RuleType
  <2>5. rule.succs <= hist.deliveries
          => Bump(rule.succs, Revoke) <= Bump(hist.deliveries, Revoke)
    BY <2>2, <2>4, BumpRange, ThresholdAssumption
  <2>6. /\ Bump(rule.succs, Revoke) \in 0 .. Revoke
        /\ Bump(hist.deliveries, Revoke) \in 0 .. Revoke
    BY <2>2, <2>4, BumpRange, ThresholdAssumption
  <2> HIDE DEF a
  <2>9. a.source # "user" => a.succs <= hist'.deliveries
    <3>1. rule # NoRule => rule.source # "none" BY <2>0 DEF RuleOK
    <3> QED BY <2>2, <2>5, <2>6, <2>7, <2>D, <3>1 DEF Counted, DeliveriesCounted
  <2>10. DeliveriesCounted' BY <2>3, <2>9 DEF DeliveriesCounted
  <2>11. ~LearnedDirect(rule') \/ LearnedDirect(rule)
    BY <2>3, <2>7, <2>D DEF LearnedDirect
  <2>12. AnswersCounted' BY <2>1, <2>2, <2>11 DEF Counted, AnswersCounted
  <2>13. /\ ~hist'.other /\ rule' = NoRule => pending' <= 0
         /\ ~hist'.other /\ rule' # NoRule => pending' = 0
    BY <2>1, <2>2 DEF Counted, SetbacksCounted
  <2>14. rule' # NoRule /\ rule'.source # "user" /\ ~LearnedProxy(rule') => rule'.fails = 0
    BY <2>3, <2>7, <2>D DEF LearnedProxy
  <2>15. Counted' BY <2>2, <2>10, <2>12, <2>13, <2>14, <2>S DEF Counted, SetbacksCounted
  <2>16. rule.source = "user" => rule' = rule BY <2>3, <2>7, <2>D DEF LearnedProxy
  <2>17. LearnedProxy(rule) => rule'.pref # "direct" BY <2>3, <2>7, <2>D DEF LearnedProxy
  <2>18. ~LearnedProxy(rule) /\ LearnedProxy(rule') => rule'.byRate
    BY <2>3, <2>7, <2>D DEF LearnedProxy
  <2>19. LearnedProxy(rule) /\ rule' = NoRule => hist'.deliveries >= Revoke
    <3>1. LearnedProxy(rule) => rule.source # "user" /\ rule.source # "none" /\ rule.pref = "proxy"
      BY DEF LearnedProxy
    <3>2. LearnedProxy(rule) /\ rule' = NoRule => Bump(rule.succs, Revoke) >= Revoke
      BY <2>3, <2>7, <2>D, <3>1
    <3> QED BY <2>2, <2>5, <2>6, <3>1, <3>2, ThresholdAssumption DEF Counted, DeliveriesCounted
  <2> QED BY <2>11, <2>15, <2>16, <2>17, <2>18, <2>19 DEF Justified
<1> QED BY <1>1, <1>2

\* A connection through the tunnel closes: only a trial may go, and only as one.
LEMMA ClosedProxiedStep ==
  ASSUME TypeOK, TypeOK', Counted, ClosedProxied PROVE Counted' /\ Justified
<1>0. RuleOK(rule) BY TypedRule
<1>1. pending' = pending /\ domestic' = domestic BY DEF ClosedProxied
<1>2. CASE rule' = rule /\ rate' = rate /\ Note("none") BY <1>1, <1>2, QuietStep
<1>3. ASSUME NEW v \in Verdicts, Sample(rule, "proxy", v), NoteSample("none", "proxy", v)
      PROVE  Counted' /\ Justified
  <2>1. \/ rule' = rule
        \/ rule.byRate /\ rule.source # "user" /\ rule' = NoRule
    BY <1>0, <1>3, SampleEffect
  <2>2. /\ SamplesCounted'
        /\ rule' # rule => hist.trial /\ hist'.slow.proxy >= Slow
    BY <1>0, <1>3, RunsSampled DEF Counted, Paths
  <2>3. /\ NoRule.pref = "none" /\ NoRule.source = "none" /\ NoRule.succs = 0
        /\ ~LearnedProxy(NoRule) /\ ~LearnedDirect(NoRule)
    BY DEF NoRule, LearnedProxy, LearnedDirect
  <2>4. /\ ~LearnedDirect(rule') \/ LearnedDirect(rule)
        /\ ~LearnedProxy(rule') \/ LearnedProxy(rule)
        /\ rule' = rule \/ LearnedProxy(rule)
    BY <1>0, <2>1, <2>3 DEF RuleOK
  <2>5. /\ hist'.setbacks = IF LearnedProxy(rule) THEN 0 ELSE hist.setbacks
        /\ hist'.deliveries = IF rule.source \in {"none", "user"} THEN 0 ELSE hist.deliveries
        /\ hist'.answers = hist.answers
        /\ hist'.other <=> /\ pending' # 0
                           /\ hist.other \/ (rule' # NoRule /\ ~LearnedProxy(rule'))
        /\ hist.setbacks \in Nat /\ hist.deliveries \in Nat /\ pending \in Nat
    BY <1>3, <2>4, NoteSampleEffect, ThresholdAssumption DEF TypeOK
  <2>6. AnswersCounted' BY <1>1, <2>5 DEF Counted, AnswersCounted
  <2>7. DeliveriesCounted'
    <3>1. rule.source = "none" => rule.succs = 0 BY <1>0, <2>3 DEF RuleOK
    <3> QED BY <2>1, <2>3, <2>5, <3>1 DEF Counted, DeliveriesCounted
  <2>8. SetbacksCounted'
    <3>1. CASE rule' = rule BY <1>1, <2>3, <2>5, <3>1 DEF Counted, SetbacksCounted
    <3>2. CASE LearnedProxy(rule) /\ rule' = NoRule
      <4>1. rule # NoRule BY <2>3, <3>2
      <4>2. hist'.other <=> pending # 0 /\ hist.other BY <1>1, <2>5, <3>2
      <4>3. hist.other \/ pending = 0 BY <4>1 DEF Counted, SetbacksCounted
      <4> QED BY <1>1, <2>5, <3>2, <4>1, <4>2, <4>3 DEF SetbacksCounted
    <3> QED BY <2>1, <2>4, <3>1, <3>2
  <2>9. rule' = rule => (LearnedProxy(rule) => rule'.pref # "direct") BY DEF LearnedProxy
  <2>10. LearnedProxy(rule) => rule # NoRule /\ rule.source # "user" BY <2>3 DEF LearnedProxy
  <2> QED BY <2>1, <2>2, <2>3, <2>4, <2>6, <2>7, <2>8, <2>9, <2>10 DEF Counted, Justified
<1> QED BY <1>2, <1>3 DEF ClosedProxied

\* A lookup comes back.
LEMMA AnsweredStep ==
  ASSUME TypeOK, TypeOK', Counted, NEW inRange \in BOOLEAN, Answered(inRange)
  PROVE  Counted' /\ Justified
<1> DEFINE learned == [rule EXCEPT !.pref = "direct", !.source = "learned", !.byRate = FALSE]
<1>0. RuleOK(rule) /\ rule \in RuleType BY TypedRule, RuleFields
<1>1. pending' = pending /\ rate' = rate BY DEF Answered
<1>N. /\ NoRule.source = "none" /\ NoRule.fails = 0 /\ NoRule.succs = 0
      /\ ~LearnedProxy(NoRule)
  BY DEF NoRule, LearnedProxy
<1>D. rule.source = "none" => rule.succs = 0 BY <1>0, <1>N DEF RuleOK
<1>2. CASE ~inRange BY <1>1, <1>2, QuietStep DEF Answered
<1>3. CASE inRange /\ Refused
  <2>1. rule' = rule /\ domestic' \in {0, domestic} /\ Note("none")
    BY <1>3 DEF Answered, Answer, Decides
  <2>2. rule # NoRule BY <1>3 DEF Refused, NoRule, LearnedProxy
  <2>3. AnswersCounted'
    BY <2>1, NoteEffect DEF Counted, AnswersCounted, TypeOK
  <2>4. DeliveriesCounted' BY <1>D, <2>1, NoteEffect DEF Counted, DeliveriesCounted, TypeOK
  <2>5. SetbacksCounted' BY <1>1, <2>1, <2>2, NoteEffect DEF Counted, SetbacksCounted
  <2>6. SamplesCounted' BY <1>1, <2>1, RunsKept DEF Counted
  <2>7. LearnedProxy(rule) => rule.pref # "direct" BY DEF LearnedProxy
  <2> QED BY <2>1, <2>2, <2>3, <2>4, <2>5, <2>6, <2>7 DEF Counted, Justified
<1>4. CASE inRange /\ ~Refused
  <2>1. Answer /\ Note("answer") BY <1>4 DEF Answered
  <2>2. ~LearnedProxy(rule) /\ rule.source # "user" BY <1>4 DEF Refused
  <2>3. \/ rule' = rule /\ domestic' \in {domestic + 1, 0} /\ domestic' < Domestic
        \/ rule' = learned /\ domestic' = 0 /\ domestic + 1 >= Domestic
    BY <1>4, <2>1, <2>2, ThresholdAssumption DEF Answer, Decides, TypeOK
  <2>4. /\ hist'.setbacks = hist.setbacks
        /\ hist'.deliveries = IF rule.source = "none" THEN 0 ELSE hist.deliveries
        /\ hist'.answers = IF ~LearnedDirect(rule) /\ LearnedDirect(rule') THEN 0
                           ELSE Bump(hist.answers, Domestic - 1)
        /\ hist.answers \in 0 .. (Domestic - 1)
        /\ hist'.other <=> /\ pending' # 0
                           /\ hist.other \/ (rule' # NoRule /\ ~LearnedProxy(rule'))
    BY <2>1, <2>2, NoteEffect
  <2>5. domestic <= hist.answers /\ domestic \in 0 .. (Domestic - 1)
    BY DEF Counted, AnswersCounted, TypeOK
  <2>6. domestic + 1 < Domestic => domestic + 1 <= Bump(hist.answers, Domestic - 1)
    BY <2>4, <2>5, ThresholdAssumption DEF Bump
  <2>7. 0 <= Bump(hist.answers, Domestic - 1)
    BY <2>4, ThresholdAssumption DEF Bump
  <2>8. CASE rule' = rule /\ domestic' \in {domestic + 1, 0} /\ domestic' < Domestic
    <3>1. AnswersCounted' BY <2>4, <2>6, <2>7, <2>8 DEF AnswersCounted
    <3>2. DeliveriesCounted' BY <1>D, <2>4, <2>8 DEF Counted, DeliveriesCounted
    <3>3. SetbacksCounted'
      BY <1>1, <2>2, <2>4, <2>8 DEF Counted, SetbacksCounted, TypeOK
    <3>4. SamplesCounted' BY <1>1, <2>1, <2>8, RunsKept DEF Counted
    <3> QED BY <2>2, <2>8, <3>1, <3>2, <3>3, <3>4 DEF Counted, Justified
  <2>9. CASE rule' = learned /\ domestic' = 0 /\ domestic + 1 >= Domestic
    <3>1. /\ learned.pref = "direct" /\ learned.source = "learned" /\ learned.byRate = FALSE
          /\ learned.fails = rule.fails /\ learned.succs = rule.succs
      BY <1>0 DEF RuleType
    <3>2. hist.answers + 1 >= Domestic BY <2>4, <2>5, <2>9, ThresholdAssumption
    <3> HIDE DEF learned
    <3>3. ~LearnedProxy(rule') /\ rule' # NoRule /\ ~rule'.byRate
      BY <1>N, <2>9, <3>1 DEF LearnedProxy
    <3>4. rule.fails <= hist.setbacks
      BY <1>N, <2>2 DEF Counted, SetbacksCounted, TypeOK
    <3>5. AnswersCounted' BY <2>4, <2>7, <2>9 DEF AnswersCounted
    <3>6. DeliveriesCounted' BY <1>D, <2>2, <2>4, <2>9, <3>1 DEF Counted, DeliveriesCounted
    <3>7. SetbacksCounted' BY <2>4, <2>9, <3>1, <3>3, <3>4 DEF SetbacksCounted
    <3>8. SamplesCounted' BY <1>1, <2>1, <3>3, RunsKept DEF Counted
    <3> QED BY <2>2, <3>2, <3>3, <3>5, <3>6, <3>7, <3>8 DEF Counted, Justified
  <2> QED BY <2>3, <2>8, <2>9
<1> QED BY <1>2, <1>3, <1>4

\* The user, other domains and the session take rules and evidence away, and set
\* rules of their own.
LEMMA ChargedStep ==
  ASSUME TypeOK, TypeOK', Counted, Note("none"), ~Uncharged,
         \/ rule' \in {rule, NoRule}
         \/ rule'.source = "user"
         \/ /\ rule'.source = "preset" /\ rule.source \in {"none", "preset"}
            /\ rule'.fails = rule.fails /\ rule'.succs = rule.succs,
         pending' \in {0, pending}, domestic' \in {0, domestic},
         \A path \in Paths : rate'[path] \in {0, rate[path]}
  PROVE  Counted' /\ Justified
<1>0. RuleOK(rule) /\ RuleOK(rule')
  BY TypedRule DEF TypeOK, RuleOK, LearnedProxy
<1>1. /\ NoRule.source = "none" /\ NoRule.fails = 0 /\ NoRule.succs = 0
      /\ ~NoRule.byRate /\ ~LearnedProxy(NoRule) /\ ~LearnedDirect(NoRule)
  BY DEF NoRule, LearnedProxy, LearnedDirect
<1>2. rule.source = "none" => rule.succs = 0 BY <1>0, <1>1 DEF RuleOK
<1>3. pending \in Nat BY ThresholdAssumption DEF TypeOK
<1>4. \/ rule' = rule \/ rule' = NoRule
      \/ /\ ~LearnedProxy(rule') /\ ~LearnedDirect(rule') /\ ~rule'.byRate /\ rule' # NoRule
         /\ \/ rule'.source = "user"
            \/ /\ ~LearnedProxy(rule) /\ rule.source # "user"
               /\ rule'.fails = rule.fails /\ rule'.succs = rule.succs
  BY <1>0, <1>1 DEF RuleOK, LearnedProxy, LearnedDirect
<1>5. LearnedDirect(rule') => LearnedDirect(rule) BY <1>1, <1>4
<1>6. LearnedProxy(rule') => LearnedProxy(rule) BY <1>1, <1>4
<1>7. rule'.byRate => rule.byRate BY <1>1, <1>4
<1>8. SamplesCounted' BY <1>7, RunsKept DEF Counted
<1>9. AnswersCounted' BY <1>5, NoteEffect DEF Counted, AnswersCounted, TypeOK
<1>10. DeliveriesCounted'
  BY <1>1, <1>2, <1>4, NoteEffect DEF Counted, DeliveriesCounted, TypeOK
<1>11. SetbacksCounted'
  <2>1. /\ hist'.setbacks = IF LearnedProxy(rule) THEN 0 ELSE hist.setbacks
        /\ hist'.other <=> /\ pending' # 0
                           /\ hist.other \/ (rule' # NoRule /\ ~LearnedProxy(rule'))
        /\ hist.setbacks \in Nat
    BY NoteEffect
  <2>2. /\ rule' # NoRule /\ rule'.source # "user" /\ ~LearnedProxy(rule')
        => rule'.fails <= hist'.setbacks
    <3>1. rule = NoRule => rule.fails <= hist.setbacks BY <1>1, <2>1
    <3>2. rule # NoRule /\ rule.source # "user" /\ ~LearnedProxy(rule)
            => rule.fails <= hist.setbacks
      BY DEF Counted, SetbacksCounted
    <3> QED BY <1>4, <2>1, <3>1, <3>2
  <2>3. ~hist'.other /\ rule' # NoRule => pending' = 0
    BY <1>1, <1>3, <1>4, <2>1 DEF Counted, SetbacksCounted
  <2>4. ~hist'.other /\ rule' = NoRule => pending' <= hist'.setbacks
    <3>1. CASE pending' = 0 BY <2>1, <3>1
    <3>2. CASE pending' = pending /\ pending # 0 /\ ~hist.other
      <4>1. rule = NoRule /\ pending <= hist.setbacks
        BY <3>2 DEF Counted, SetbacksCounted
      <4> QED BY <1>1, <2>1, <3>2, <4>1
    <3> QED BY <2>1, <3>1, <3>2
  <2> QED BY <2>2, <2>3, <2>4 DEF SetbacksCounted
<1>12. Justified BY <1>1, <1>5, <1>6 DEF Justified
<1> QED BY <1>8, <1>9, <1>10, <1>11, <1>12 DEF Counted

LEMMA InstallEffect ==
  ASSUME RuleOK(rule), NEW command \in UserCommands
  PROVE  LET r == Install(command) IN
         \/ r \in {rule, NoRule}
         \/ r.source = "user"
         \/ /\ r.source = "preset" /\ rule.source \in {"none", "preset"}
            /\ r.fails = rule.fails /\ r.succs = rule.succs
<1> DEFINE listed == [rule EXCEPT !.pref = PresetPref, !.source = "preset"]
<1>0. rule \in RuleType BY RuleFields
<1>1. Install(command) \in {Rule("direct", "user"), Rule("proxy", "user"), NoRule, rule}
      \/ (Install(command) = listed /\ rule.source \in {"none", "preset"})
  BY <1>0 DEF Install, UserCommands, RuleType
<1>2. listed.source = "preset" /\ listed.fails = rule.fails /\ listed.succs = rule.succs
  BY <1>0 DEF RuleType
<1>3. \A p \in Paths : Rule(p, "user").source = "user" BY DEF Rule, NoRule
<1> HIDE DEF listed
<1> QED BY <1>1, <1>2, <1>3 DEF Paths

LEMMA CountedNext == ASSUME TypeOK, TypeOK', Counted, [Next]_vars PROVE Counted' /\ [Justified]_vars
<1>0. RuleOK(rule) BY TypedRule
<1>B. Outside => ~Uncharged
  BY BudgetAssumption DEF Outside, Uncharged, TypeOK
<1>1. CASE \/ OpenDirect \/ OpenProxied \/ ClosedEarly \/ ConnectFails \/ Asks \/ RoundEnds
           \/ RulesFetched \/ CoolDownEnds \/ \E kind \in Kinds : WindowPasses(kind)
  <2>1. \A path \in Paths : [rate EXCEPT !.cooling = FALSE][path] = rate[path]
    BY DEF TypeOK, Paths
  <2>2. /\ rule' = rule /\ pending' = pending /\ domestic' = domestic
        /\ rate' \in {rate, [rate EXCEPT !.cooling = FALSE]} /\ Note("none")
    BY <1>1
    DEF OpenDirect, OpenProxied, ClosedEarly, ConnectFails, Asks, RoundEnds, RulesFetched,
        CoolDownEnds, WindowPasses, evidence
  <2> QED BY <2>1, <2>2, QuietStep
<1>2. CASE Delivered BY <1>2, DeliveredStep
<1>3. CASE Stalled
  <2>1. CASE "stall" \in throttled BY <1>3, <2>1, QuietStep DEF Stalled, evidence
  <2>2. CASE "stall" \notin throttled
    <3>1. Setback(FALSE) /\ Note("setback") BY <1>3, <2>2 DEF Stalled
    <3>2. Note(IF FALSE THEN "conclusive" ELSE "setback") BY <3>1
    <3> QED BY <3>1, <3>2, SetbackStep
  <2> QED BY <2>1, <2>2
<1>4. CASE ClosedProxied BY <1>4, ClosedProxiedStep
<1>5. CASE FailureLearned BY <1>5, SetbackStep DEF FailureLearned
<1>6. CASE \E inRange \in BOOLEAN : Answered(inRange) BY <1>6, AnsweredStep
<1>7. CASE Reconnects
  <2>1. rule' \in {rule, NoRule} BY <1>7 DEF Reconnects
  <2> QED BY <1>7, <1>B, <2>1, ChargedStep DEF Reconnects
<1>8. CASE \E what \in Crowds : Crowded(what)
  <2>1. PICK what \in Crowds : Crowded(what) BY <1>8
  <2>2. /\ rule' \in {rule, NoRule} /\ pending' \in {0, pending} /\ domestic' \in {0, domestic}
        /\ rate' = rate /\ Note("none") /\ Outside
    BY <2>1 DEF Crowded
  <2> QED BY <1>B, <2>2, ChargedStep
<1>9. CASE \E command \in UserCommands : User(command)
  <2>1. PICK command \in UserCommands : User(command) BY <1>9
  <2>2. /\ rule' = Install(command) /\ pending' \in {0, pending} /\ domestic' = domestic
        /\ Note("none") /\ Outside
        /\ rate' \in {rate, [direct |-> 0, proxy |-> 0, cooling |-> FALSE]}
    BY <2>1 DEF User
  <2>3. \A path \in Paths : rate'[path] \in {0, rate[path]} BY <2>2 DEF Paths
  <2> QED BY <1>0, <1>B, <2>2, <2>3, InstallEffect, ChargedStep
<1>10. CASE UNCHANGED vars
  BY <1>10 DEF vars, evidence, Counted, AnswersCounted, DeliveriesCounted, SetbacksCounted,
              SamplesCounted, LearnedProxy
<1> QED BY <1>1, <1>2, <1>3, <1>4, <1>5, <1>6, <1>7, <1>8, <1>9, <1>10 DEF Next

-----------------------------------------------------------------------------
(* The theorems.                                                           *)

LEMMA StepsJustified == Spec => [][Justified]_vars
<1>1. Init => TypeOK /\ Counted BY TypeInit, CountedInit
<1>2. TypeOK /\ Counted /\ [Next]_vars => TypeOK' /\ Counted' /\ [Justified]_vars
  BY TypeNext, CountedNext
<1> QED BY <1>1, <1>2, PTL DEF Spec

\* Whatever evidence arrives, a rule the user set stands.
THEOREM UserRuleAlwaysStands == Spec => UserRuleStands
<1>1. [Justified]_vars => [rule.source = "user" /\ Uncharged => rule' = rule]_vars
  BY DEF Justified
<1> QED BY <1>1, StepsJustified, PTL DEF UserRuleStands

\* No inference overturns an observation.
THEOREM InferenceAlwaysYields == Spec => InferenceYields
<1>1. [Justified]_vars => [LearnedProxy(rule) /\ Uncharged => rule'.pref # "direct"]_vars
  BY DEF Justified
<1> QED BY <1>1, StepsJustified, PTL DEF InferenceYields

\* Every learned direct rule rests on an unbroken run of answers, counted anew for each.
THEOREM AnswersAlwaysUnbroken == Spec => AnswersUnbroken
<1>1. [Justified]_vars
        => [~LearnedDirect(rule) /\ LearnedDirect(rule') => hist.answers + 1 >= Domestic]_vars
  BY DEF Justified
<1> QED BY <1>1, StepsJustified, PTL DEF AnswersUnbroken

\* Every learned proxy rule that is no trial rests on enough setbacks.
THEOREM PromotionAlwaysNeedsEvidence == Spec => PromotionNeedsEvidence
<1>1. [Justified]_vars
        => [/\ ~LearnedProxy(rule) /\ LearnedProxy(rule') /\ ~rule'.byRate
            /\ rule # NoRule \/ ~hist.other
            => hist'.setbacks >= Promotion]_vars
  BY DEF Justified
<1> QED BY <1>1, StepsJustified, PTL DEF PromotionNeedsEvidence

\* No learned proxy rule goes by itself but for enough deliveries on it in a row, or as
\* a trial of the tunnel that was as slow.
THEOREM ReleaseAlwaysNeedsDeliveries == Spec => ReleaseNeedsDeliveries
<1>1. [Justified]_vars
        => [LearnedProxy(rule) /\ rule' = NoRule /\ Uncharged
            => \/ hist'.deliveries >= Revoke
               \/ hist.trial /\ hist'.slow.proxy >= Slow]_vars
  BY DEF Justified
<1> QED BY <1>1, StepsJustified, PTL DEF ReleaseNeedsDeliveries

=============================================================================
