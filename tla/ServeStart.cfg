SPECIFICATION SSpec
CONSTANTS
  Policies = {a, b, c}
  Invalid = Invalid
  Files <- MCFiles
  NoFile = "none"
  Kind <- MCKind
  Strict <- MCStrict
  Content <- MCContent
  Ed25519 = {"k1", "k2", "k3", "k4"}
  OtherPEM = {"rsa"}
  Empty = "nothing"
  EnvPEM = "k4"
INVARIANT STypeOK ActiveWasOffered SignalIsPending KeyIsFromItsSoleSource
PROPERTY ReloadTakesEffect StartupEnds
