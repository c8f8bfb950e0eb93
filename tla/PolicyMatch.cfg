SPECIFICATION Spec
CONSTANTS
  NameChars <- MCNameChars
  KeyIDChars <- MCKeyIDChars
  MaxKeyIDLength = 4
  NonString = NonString
  LeftOut = LeftOut
  DefaultMax = 2
  Principals <- MCPrincipals
  Commands <- MCCommands
  Ranges <- MCRanges
  SupportedKeyTypes = {"ssh-ed25519"}
  Repository <- MCRepository
  KnownClaims <- MCKnownClaims
  Cases <- MCCases
  MaxTemplate = 5
INVARIANT TypeOK ExplainPredictsSign EveryRuleIsExplained OrderIsIrrelevant
INVARIANT OwnerAndNamePinTheRepository RecheckNeverFires ListingPredictsSign
INVARIANT BroadRulesAreWarnedOf EventTellsTheCertificate
CHECK_DEADLOCK FALSE
