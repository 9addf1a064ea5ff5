CONSTANTS
  MaxRuns = 2
  Configs <- MCConfigs
  Verifications <- MCVerifications
  Assessments <- MCAssessments
SPECIFICATION FairSpec
INVARIANTS MergedIsVetted CleanExitIsComplete OnePullRequestPerIssue
PROPERTIES ImplementsOutbox RunEnds
CHECK_DEADLOCK FALSE
