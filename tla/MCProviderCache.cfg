SPECIFICATION HSpec
CONSTANTS
  Issuers = {i1}
  Requests = {r1,r2}
  Keys = {k1,k2}
  Providers = {p1,p2,p3}
  JwksTTL = 2
  RetryDelay = 1
  Nobody = Nobody
  NoProvider = NoProvider
  SlowIssuer = none
SYMMETRY Interchangeable
VIEW Distinguishable
INVARIANT HistoryTypeOK OneDiscoveryPerIssuer MutexIsNeverAbandoned RotatedKeysExpire NegativeCacheIsHonest HealthyIssuerServes
PROPERTY FailedRefreshKeepsProvider RetryDelayRespected
