SPECIFICATION HSpec
CONSTANTS
  Policies <- MCPolicies
  Tokens <- MCTokens
  Disabled <- MCDisabled
  KeyTypes <- MCKeyTypes
  Names <- MCNames
  Rule <- MCRule
  TTL <- MCTTL
  Ceiling = 2
  NoToken = "none"
  Inputs <- AllInputs
  Requests = {r1, r2}
  Invalid = "invalid"
  StdoutMayFail = FALSE
SYMMETRY Interchangeable
VIEW Distinguishable
INVARIANT HistoryTypeOK AnswersAreAudited StopDeniesNewRequests StopOutlastsCertificates
PROPERTY ImplementsCertificateAuthority
