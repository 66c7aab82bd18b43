SPECIFICATION RelaySpec
CONSTANTS
  Account = {alice, deployer}
  Admin = deployer
  EnclaveOracle = deployer
  VaultOwner = {alice}
  GuardianKey = {deployer}
  Verifier = {}
  Registry = Registry
  NoAddress = NoAddress
  Asset = {fxrp}
  LenientAsset = {}
  PlanHash = {plan}
  LegalDoc = {}
  NoHash = NoHash
  Timing <- OneTiming
  Amount = {}
  Threshold = {}
  InitialTokens = 0
  MaxVaultId = 1
  MaxTime = 13
  MaxDeposit = 0
  MaxAttestations = 0
  RelayerKey = deployer
  ReminderLeadTime = 2
  MaxPending = 2
  MaxTroubles = 0
  MaxRevivals = 1
  LastCreation = 1
PROPERTIES
  SilenceIsActedUpon
