------------------------------ MODULE MCAsfRun ------------------------------
(* The run life cycle on a small instance. *)
EXTENDS AsfRun

Passed(id, at) == Ci!CheckRun(id, "build", 1, "completed", "success", at)
Failed(id, at) == Ci!CheckRun(id, "build", 1, "completed", "failure", at)
Running(id, at) == Ci!CheckRun(id, "build", 1, "in_progress", "none", at)
Status(id, by, state, at) == Ci!CommitStatus(id, "build", by, state, at)
List(runs, statuses) == [runs |-> runs, totals |-> {Len(runs)}, statuses |-> statuses]

\* Green; not scheduled; another context only; a re-run that passes, fails or
\* still runs; a disagreement of the same time, of a status with a check run
\* and of two producers; a producer nobody knows; a conclusion nobody knows;
\* a listing that grew between two pages, and one whose rows moved.
GitHubListings ==
  {List(<<Passed(1, 1)>>, <<>>), List(<<>>, <<Status(1, 2, "success", 1)>>),
   List(<<>>, <<>>),
   List(<<Ci!CheckRun(1, "lint", 1, "completed", "success", 1)>>, <<>>),
   List(<<Failed(1, 1), Passed(2, 2)>>, <<>>), List(<<Passed(1, 1), Failed(2, 2)>>, <<>>),
   List(<<Passed(1, 1), Running(2, 2)>>, <<>>), List(<<Passed(1, 1), Failed(2, 1)>>, <<>>),
   List(<<Failed(1, 1)>>, <<Status(1, 2, "success", 2)>>),
   List(<<>>, <<Status(1, 2, "failure", 1), Status(2, 3, "success", 2)>>),
   List(<<Ci!CheckRun(1, "build", 0, "completed", "success", 1)>>, <<>>),
   List(<<Ci!CheckRun(1, "build", 1, "completed", "unknown", 1)>>, <<>>),
   [runs |-> <<Passed(1, 1)>>, totals |-> {1, 2}, statuses |-> <<>>],
   List(<<>>, <<Status(1, 2, "success", 1), Status(1, 2, "success", 1)>>)}
=============================================================================
