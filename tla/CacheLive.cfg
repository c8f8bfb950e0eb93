SPECIFICATION SlowSpec
CONSTANTS
  Issuers = {i1,i2}
  Requests = {r1,r2}
  Keys = {k1}
  Providers = {p1,p2,p3,p4}
  JwksTTL = 1
  RetryDelay = 1
  Nobody = Nobody
  NoProvider = NoProvider
  SlowIssuer = i1
PROPERTY EveryRequestEnds
