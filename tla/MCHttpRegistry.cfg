CONSTANTS
  r1 = r1
  r2 = r2
  s1 = s1
  s2 = s2
  s3 = s3
  None = None
  Requests <- TwoRequests
  Sids <- ThreeSids
  MaxSessions = 1
  IdleMs = 1
  MaxTime = 2
SPECIFICATION FairSpec
INVARIANT TypeOK
INVARIANT RegistryBounded
INVARIANT ReleasedExactly
PROPERTY DoomedLeaves
PROPERTY KeptStays
PROPERTY DroppedWithReason
