CONSTANTS
  h1 = h1
  h2 = h2
  s1 = s1
  s2 = s2
  s3 = s3
  s4 = s4
  s5 = s5
  w1 = w1
  None = None
  Hosts <- OneHost
  CallKinds <- Kinds
  Sessions <- FourSessions
  Sweepers <- OneSweeper
  MaxSessions = 1
  IdleMs = 1
  MaxTime = 1
SPECIFICATION FairSpec
PROPERTY CallCompletes
PROPERTY IdleReclaimed
