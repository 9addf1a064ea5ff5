----------------------------- MODULE MCDelivery -----------------------------
(* One run in every mode with small loop bounds, or two runs in a row. *)
EXTENDS Delivery, TLC

SmallCap == "total" :> 7 @@ "implementer" :> 1 @@ "localReview" :> 2 @@ "fixer" :> 1
              @@ "prReview" :> 2 @@ "prFixer" :> 1

\* Up to the pull request and no further.
TinyCap == "total" :> 2 @@ "implementer" :> 1 @@ "localReview" :> 1 @@ "fixer" :> 0
             @@ "prReview" :> 0 @@ "prFixer" :> 0

OneRun ==
  {[autonomy |-> a, assigns |-> b, delivers |-> b, completes |-> b, draft |-> b,
    fixes |-> 1, cap |-> SmallCap, polls |-> 1, runs |-> 1, rivals |-> TRUE] :
     a \in {"observe", "pr-only", "merge"}, b \in BOOLEAN}

\* The default mode, without the optional effects.
TwoRuns ==
  {[autonomy |-> "pr-only", assigns |-> FALSE, delivers |-> FALSE, completes |-> FALSE,
    draft |-> FALSE, fixes |-> 0, cap |-> TinyCap, polls |-> 0, runs |-> 2,
    rivals |-> FALSE]}

\* What a check may report: tests "a" and "b" passed, skipped, failed, gone or
\* named twice, in every format, well formed or not.
T(id, status) == [id |-> id, status |-> status]
Inventories == {<<>>, <<T("a", "passed")>>, <<T("b", "passed")>>,
                <<T("a", "passed"), T("b", "passed")>>, <<T("a", "passed"), T("b", "skipped")>>,
                <<T("a", "passed"), T("b", "failed")>>, <<T("a", "passed"), T("a", "passed")>>,
                <<T("", "passed"), T("b", "contradictory")>>}
Reports == [format : {"junit", "tap", "go-json"}, wellFormed : {TRUE}, planned : {2},
            tests : Inventories]
             \cup [format : {"junit", "html"}, wellFormed : {FALSE, TRUE}, planned : {1},
                   tests : {<<T("a", "passed")>>}]
Ran(report) == [ended |-> "exited", exit |-> 0, changed |-> FALSE, stale |-> FALSE,
                written |-> report, zero |-> FALSE, focused |-> FALSE, skips |-> 0]
Spoilt(x) == {x, [x EXCEPT !.ended = "timeout", !.exit = 1], [x EXCEPT !.exit = 1],
              [x EXCEPT !.changed = TRUE], [x EXCEPT !.stale = TRUE], [x EXCEPT !.zero = TRUE],
              [x EXCEPT !.focused = TRUE], [x EXCEPT !.skips = 1]}
Executions == UNION {Spoilt(Ran(report)) : report \in Reports}
Unit(required, report, declared) ==
  [id |-> "unit", required |-> required, runs |-> TRUE, report |-> report, declared |-> declared]
MCVerifications ==
  [checks : {{Unit(TRUE, r, d)} : r \in BOOLEAN, d \in SUBSET {"a", "b"}} \cup {{Unit(FALSE, TRUE, {})}},
   strict : BOOLEAN, base : [{"unit"} -> Executions], cand : [{"unit"} -> Executions]]

\* Reviews of every verdict, with findings, answers and scopes that agree with
\* it or not; changes that touch a rule, a lockfile, a label or nothing.
Reviews == [parses : BOOLEAN, verdict : {"approved", "changes_required", "no_findings", "fine"},
            scope : {"within_scope", "unclear"}, findings : SUBSET {"high", "low"},
            met : [{"c"} -> {<<>>, <<TRUE>>, <<FALSE>>, <<TRUE, FALSE>>}]]
Changes == [paths : {{"app"}, {"auth"}, {"app", "lockfile"}}, labels : {{}, {"security"}},
            criteria : {{}, {"c"}}, manifest : [valid : BOOLEAN, paths : {{"app"}}]]
Policies == [severities : {{"high"}}, all : BOOLEAN, tier : {"low", "high", "unheard-of"},
             rules : {{}, {[valid |-> TRUE, paths |-> {"auth"}]},
                      {[valid |-> FALSE, paths |-> {"app"}]}},
             labels : {{}, {"security"}},
             conditions : {{}, {"lockfile_changed", "missing_acceptance_criteria"},
                           {"check_config_changed"}, {"public_api_change"}}]
\* Each review under every policy, and each change under every policy.
OneChange == [paths |-> {"auth"}, labels |-> {}, criteria |-> {"c"},
              manifest |-> [valid |-> TRUE, paths |-> {"app"}]]
OneReview == [parses |-> TRUE, verdict |-> "approved", scope |-> "within_scope",
              findings |-> {}, met |-> "c" :> <<TRUE>>]
MCAssessments == [review : Reviews, change : {OneChange}, policy : Policies]
                   \cup [review : {OneReview}, change : Changes, policy : Policies]

MCConfigs == OneRun \cup TwoRuns
=============================================================================
