CONSTANTS
  h1 = h1
  h2 = h2
  c1 = c1
  c2 = c2
  c3 = c3
  None = None
  Hosts <- TwoHosts
  Calls <- ThreeCalls
  Policies <- AllPolicies
SPECIFICATION Spec
SYMMETRY Symmetric
INVARIANT TypeOK
INVARIANT ReadOnlyHolds
INVARIANT ForbiddenUntouched
INVARIANT RecordTruthful
INVARIANT OneHandlerPerHost
