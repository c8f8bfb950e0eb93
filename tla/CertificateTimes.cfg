SPECIFICATION Spec
CONSTANTS
  HalfRange = 64
  Second = 2
  Epoch = 40
  Absent = Absent
  Tokens <- MCTokens
  Policies <- MCPolicies
  Leeway = 2
  DefaultOffset <- MCDefaultOffset
  DefaultMax = 3
  Skews <- MCSkews
  Start = 5
  Horizon = 19
INVARIANT TypeOK NoExpiredToken NoEarlyToken DeadWithinTheMaximum WorksInItsInterval TokenBoundsCertificate
CHECK_DEADLOCK FALSE
