SPECIFICATION Spec
CONSTANTS
  Account = {alice, bob, deployer, fdc}
  Admin = deployer
  EnclaveOracle = deployer
  VaultOwner = {alice}
  GuardianKey = {bob}
  Verifier = {}
  Registry = Registry
  NoAddress = NoAddress
  Asset = {fxrp}
  LenientAsset = {}
  PlanHash = {plan}
  LegalDoc = {}
  NoHash = NoHash
  Timing <- OneTiming
  Amount = {1, 2}
  Threshold = {1, 2}
  InitialTokens = 3
  MaxVaultId = 1
  MaxTime = 6
  MaxDeposit = 3
  MaxAttestations = 2
CHECK_DEADLOCK FALSE
INVARIANTS
  ReleasedFundsLeave
