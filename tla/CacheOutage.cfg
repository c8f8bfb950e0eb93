SPECIFICATION HSpec
CONSTANTS
  Issuers = {i1}
  Requests = {r1}
  Keys = {k1}
  Providers = {p1,p2}
  JwksTTL = 1
  RetryDelay = 1
  Nobody = Nobody
  NoProvider = NoProvider
  SlowIssuer = none
PROPERTY FetchedKeysKeepWorking
