-------------------------------- MODULE AsfCi --------------------------------
(***************************************************************************)
(* How the CI controller (src/src/asf/github-ci-controller.ts) reads       *)
(* GitHub: it lists the check runs and the commit statuses of a candidate, *)
(* page by page, and gives every required context one outcome.             *)
(*                                                                         *)
(* A row has an id, a context, its producer "by" (0: nobody known) and a   *)
(* time "at" (0: none): when a check run was completed, or else started,   *)
(* and when a status was updated.  A listing is what the pages brought:    *)
(* the check runs with the totals the pages declared, and the statuses.    *)
(* Statuses and conclusions that the code treats alike are one value.      *)
(***************************************************************************)
EXTENDS Naturals, Sequences, FiniteSets

CheckRun(id, context, by, status, conclusion, at) ==
  [id |-> id, source |-> "check-run", context |-> context, by |-> by, status |-> status,
   conclusion |-> conclusion, at |-> at]
CommitStatus(id, context, by, state, at) ==
  [id |-> id, source |-> "commit-status", context |-> context, by |-> by, status |-> state,
   conclusion |-> state, at |-> at]

\* checkRunOutcome.
CheckRunOutcome(status, conclusion) ==
  CASE status = "in_progress" /\ conclusion = "none" -> "pending"
    [] status = "completed" /\ conclusion = "success" -> "passed"
    [] OTHER -> "failed"

\* commitStatusOutcome.
CommitStatusOutcome(state) ==
  CASE state = "success" -> "passed" [] state = "pending" -> "pending" [] OTHER -> "failed"

Normalized(row, outcome, coherent) ==
  [source |-> row.source, context |-> row.context, by |-> row.by, at |-> row.at,
   outcome |-> outcome, coherent |-> row.at # 0 /\ row.by # 0 /\ coherent]

\* #normalizeCheckRun.
NormalizeCheckRun(row) ==
  Normalized(row, CheckRunOutcome(row.status, row.conclusion),
             /\ "unknown" \notin {row.status, row.conclusion}
             /\ row.status = "completed" <=> row.conclusion # "none")

\* #normalizeCommitStatus.
NormalizeCommitStatus(row) ==
  Normalized(row, CommitStatusOutcome(row.status), row.status # "unknown")

\* normalizedOutcome: rows of two producers have no winner, and neither have
\* two rows of the same time that disagree.
NormalizedOutcome(rows) ==
  LET latest == {o \in rows : \A p \in rows : p.at <= o.at}
      outcomes == {o.outcome : o \in latest}
  IN CASE rows = {} -> "not-scheduled"
       [] rows # {} /\ (\A o \in rows : o.coherent) /\ Cardinality(outcomes) = 1
            /\ Cardinality({<<o.source, o.by>> : o \in rows}) = 1 ->
            CHOOSE outcome \in outcomes : TRUE
       [] OTHER -> "failed"

Distinct(rows) == \A i, j \in DOMAIN rows : rows[i].id = rows[j].id => i = j

\* #listCheckRuns: every page declares the same total, and that many come.
ListCheckRuns(listing) ==
  listing.totals = {Len(listing.runs)} /\ Distinct(listing.runs)

\* #listCommitStatuses: a status that moves to the next page comes twice.
ListCommitStatuses(listing) == Distinct(listing.statuses)

\* #observeExactHead: nothing is said of an incomplete listing; each context
\* has the outcome of its own rows.
Complete(listing) == ListCheckRuns(listing) /\ ListCommitStatuses(listing)
Rows(listing) ==
  {NormalizeCheckRun(listing.runs[i]) : i \in DOMAIN listing.runs}
    \cup {NormalizeCommitStatus(listing.statuses[i]) : i \in DOMAIN listing.statuses}
OutcomeOf(listing, context) == NormalizedOutcome({o \in Rows(listing) : o.context = context})

\* What it takes for a context to be green: a success of a known producer, and
\* nothing else by anybody that is not older than it and of the same producer.
Green(listing, context) ==
  LET raw == {r \in {listing.runs[i] : i \in DOMAIN listing.runs}
                      \cup {listing.statuses[i] : i \in DOMAIN listing.statuses}
                : r.context = context}
  IN \E r \in raw :
       /\ r.by # 0 /\ r.conclusion = "success"
       /\ \A q \in raw \ {r} :
            /\ q.source = r.source /\ q.by = r.by
            /\ q.at < r.at \/ (q.at = r.at /\ q.conclusion = "success")
=============================================================================
