---------------------------- MODULE ReviewPolicy ----------------------------
(***************************************************************************)
(* What a reviewer's answer is worth (src/src/review/schema.ts) and whether *)
(* a change may be merged without a person                                 *)
(* (src/src/orchestrator/risk-policy.ts).                                  *)
(*                                                                         *)
(* A review is [parses, verdict, scope, findings, met]: findings is the    *)
(* set of their severities and met[c] the sequence of answers about the    *)
(* criterion c.  A policy is [severities, all, tier, rules, labels,        *)
(* conditions], a change is [paths, labels, criteria, manifest].  A rule   *)
(* about paths is [valid, paths], with the paths its glob stands for.      *)
(***************************************************************************)
EXTENDS Naturals, Sequences, FiniteSets

\* parseReview, parseReviewJson: malformed is never passing.
Parses(review) ==
  /\ review.parses
  /\ review.verdict \in {"approved", "changes_required", "no_findings"}

\* Mutant: the severities decide even when changes are required.
BlockingBySeverity(review, policy) == review.findings \cap policy.severities

\* blockingFindings.
BlockingFindings(review, policy) ==
  IF policy.all \/ review.verdict = "changes_required" THEN review.findings
  ELSE review.findings \cap policy.severities

\* validRiskPathRule: a rule of an unknown dialect has no meaning.
ValidRule(rule) == rule.valid

\* matchesRiskPath.
Matches(path, rule) == ValidRule(rule) /\ path \in rule.paths
TouchesRisk(change, policy) ==
  \E path \in change.paths, rule \in policy.rules : Matches(path, rule)

\* One answer, and a positive one, for every criterion of the task packet.
CriteriaMet(review, change) ==
  \A c \in change.criteria : c \in DOMAIN review.met /\ review.met[c] = <<TRUE>>

\* crossCheckVerdict.
CrossCheckVerdict(review, change, policy) ==
  /\ review.verdict = "no_findings" => review.findings = {}
  /\ review.verdict = "changes_required" => review.findings # {}
  /\ review.verdict # "changes_required" => review.scope = "within_scope"
  /\ \A rule \in policy.rules : ValidRule(rule)
  /\ review.verdict = "no_findings" => ~TouchesRisk(change, policy)
  /\ review.verdict # "changes_required" => CriteriaMet(review, change)

\* What the orchestrator makes of a review.
Conclusion(review, change, policy) ==
  IF ~Parses(review) \/ ~CrossCheckVerdict(review, change, policy) THEN "rejected"
  ELSE IF BlockingFindings(review, policy) # {} THEN "blocking" ELSE "clean"

\* The reviewer lets the change pass: it asks for nothing, finds nothing that
\* blocks, and vouches for scope and criteria.
Approves(review, change, policy) ==
  /\ review.verdict \in {"approved", "no_findings"} /\ review.scope = "within_scope"
  /\ review.findings \cap policy.severities = {} /\ (policy.all => review.findings = {})
  /\ \A c \in change.criteria :
       {review.met[c][i] : i \in DOMAIN review.met[c]} = {TRUE}

-----------------------------------------------------------------------------
\* conditionResult: "none" when the condition is proved absent.
ConditionResult(condition, change) ==
  CASE condition = "missing_acceptance_criteria" ->
         IF change.criteria = {} THEN "matched" ELSE "none"
    [] condition = "check_config_changed" ->
         IF ~ValidRule(change.manifest) THEN "unknown"
         ELSE IF \E path \in change.paths : Matches(path, change.manifest) THEN "matched"
         ELSE "none"
    [] condition = "lockfile_changed" ->
         IF "lockfile" \in change.paths THEN "matched" ELSE "none"
    [] OTHER -> "unknown"

Tiers == {"low", "medium", "high", "critical"}

\* evaluateAutomaticMergeRisk: the reasons it cannot tell,
Untold(policy, change) ==
  \/ policy.tier \notin Tiers
  \/ \E rule \in policy.rules : ~ValidRule(rule)
  \/ "" \in policy.labels
  \/ \E c \in policy.conditions : ConditionResult(c, change) = "unknown"

\* and the reasons for a person.
Manual(policy, change) ==
  \/ policy.tier # "low" \/ TouchesRisk(change, policy)
  \/ policy.labels \cap change.labels # {}
  \/ \E c \in policy.conditions : ConditionResult(c, change) = "matched"

MergeRisk(policy, change) ==
  IF Untold(policy, change) THEN "unknown"
  ELSE IF Manual(policy, change) THEN "manual-approval" ELSE "allow"

\* What the operator's policy is there to keep from being merged by itself:
\* anything but a low tier, a path under a rule or a rule nobody can read, a
\* label, a lockfile, and every condition that a diff cannot disprove.
Sensitive(policy, change) ==
  \/ policy.tier # "low" \/ policy.labels \cap change.labels # {}
  \/ \E rule \in policy.rules : ~rule.valid \/ change.paths \cap rule.paths # {}
  \/ "lockfile_changed" \in policy.conditions /\ "lockfile" \in change.paths
  \/ "missing_acceptance_criteria" \in policy.conditions /\ change.criteria = {}
  \/ policy.conditions \cap {"public_api_change", "permissions_change", "secret_related_change"}
       # {}
=============================================================================
