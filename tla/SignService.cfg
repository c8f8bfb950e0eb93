SPECIFICATION MCSpec
CONSTANTS
  Policies <- MCPolicies
  Tokens <- MCTokens
  Disabled <- MCDisabled
  KeyTypes <- MCKeyTypes
  Names <- MCNames
  Rule <- MCRule
  TTL <- MCTTL
  Ceiling = 1
  NoToken = "none"
  Inputs <- MCInputs
  Requests = {r1, r2}
  Invalid = "invalid"
  StdoutMayFail = FALSE
  Issuers = {"i1"}
  IssuerOf <- MCIssuerOf
  Keys = {k1}
  Providers = {p1, p2, p3}
  JwksTTL = 1
  RetryDelay = 1
  Nobody = Nobody
  NoProvider = NoProvider
PROPERTY ImplementsSignServer EveryRequestIsAnswered
