--------------------------- MODULE MCRouteLearning ---------------------------
(* RouteLearning with an observer that also sees the deliveries the        *)
(* throttle drops, and remembers what the rule in force was learned from.  *)
EXTENDS RouteLearning

VARIABLES
  refuted,  \* TRUE: a dropped delivery refuted what is still pending
  failed    \* TRUE: setbacks made the learned proxy rule in force

observed == <<vars, refuted, failed>>

Observe ==
  /\ refuted' = /\ rule' = NoRule /\ pending' # 0
                /\ refuted \/ (pending # 0 /\ Delivered /\ "delivery" \in throttled)
  /\ failed' = /\ LearnedProxy(rule')
               /\ IF LearnedProxy(rule) THEN failed ELSE Stalled \/ FailureLearned

ObservedSpec ==
  /\ Init /\ refuted = FALSE /\ failed = FALSE
  /\ [][Next /\ Observe]_observed

\* A domain is learned into the tunnel by consecutive setbacks: one delivery, recorded
\* or not, refutes those before it.
DeliveryRefutes ==
  [][rule = NoRule /\ LearnedProxy(rule') /\ rule'.fails >= Promotion => ~refuted]_observed

\* A rule learned from setbacks is never given up because the tunnel is slow too
\* (AutoRouteEntry.byRate): only as many deliveries as the threshold asks take it away.
FailureRuleKept ==
  [][failed /\ rule' = NoRule /\ Uncharged => hist'.deliveries >= Revoke]_observed

=============================================================================
