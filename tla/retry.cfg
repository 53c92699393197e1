CONSTANTS
  r1 = r1  r2 = r2
  Calls = {r1, r2}
  Configs <- Bounded
SPECIFICATION FairSpec
INVARIANTS TypeOK AttemptsWithin SubmissionsBounded
PROPERTIES BackoffGrows CallsEnd
CHECK_DEADLOCK FALSE
