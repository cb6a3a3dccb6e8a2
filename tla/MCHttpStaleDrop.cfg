CONSTANTS
  r1 = r1
  r2 = r2
  s1 = s1
  s2 = s2
  s3 = s3
  None = None
  Requests <- TwoRequests
  Sids <- ThreeSids
  MaxSessions = 3
  IdleMs = 1
  MaxTime = 1
SPECIFICATION Spec
PROPERTY DroppedWasIdle
