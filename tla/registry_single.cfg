SPECIFICATION Spec
CONSTANTS
  Account = {alice, bob, deployer, fdc}
  Admin = deployer
  EnclaveOracle = deployer
  VaultOwner = {alice}
  GuardianKey = {bob}
  Verifier = {fdc}
  Registry = Registry
  NoAddress = NoAddress
  Asset = {fxrp}
  LenientAsset = {}
  PlanHash = {plan}
  LegalDoc = {doc}
  NoHash = NoHash
  Timing <- TwoTimings
  Amount = {1, 2}
  Threshold = {1, 2}
  InitialTokens = 3
  MaxVaultId = 1
  MaxTime = 12
  MaxDeposit = 3
  MaxAttestations = 2
INVARIANTS
  TypeOK
  Conservation
  SilenceBeforeRelease
  HaltSavesHalf
PROPERTIES
  TerminalIsFinal
  ImplementsLifecycle
