\* One run_command against a Termix that does anything at any time.
CONSTANTS
  None = None
  Retry = 1
  Answers <- MCAnswers
SPECIFICATION FairSpec
INVARIANTS TypeOK RunsOnceUnlessStale OutputIsOwn CleanUnlessLate
PROPERTIES CallEnds
