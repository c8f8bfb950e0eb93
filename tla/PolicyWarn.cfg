SPECIFICATION Spec
CONSTANTS
  NameChars <- MCNameChars
  KeyIDChars <- MCKeyIDChars
  MaxKeyIDLength = 4
  NonString = NonString
  LeftOut = LeftOut
  DefaultMax = 2
  Principals <- MCPrincipals
  Commands <- MCCommands
  Ranges <- MCRanges
  SupportedKeyTypes = {"ssh-ed25519"}
  Repository <- MCRepository
  KnownClaims <- MCKnownClaims
  Cases <- MCCases
  MaxTemplate = 2
INVARIANT UnpinnedClaimsAreWarnedOf
CHECK_DEADLOCK FALSE
