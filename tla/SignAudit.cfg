SPECIFICATION HSpec
CONSTANTS
  Policies <- MCPolicies
  Tokens <- MCTokens
  Disabled <- MCDisabled
  KeyTypes <- MCKeyTypes
  Names <- MCNames
  Rule <- MCRule
  TTL <- MCTTL
  Ceiling = 2
  NoToken = "none"
  Inputs <- TwoInputs
  Requests = {r1}
  Invalid = "invalid"
  StdoutMayFail = TRUE
INVARIANT AnswersAreAudited
