SPECIFICATION ForExistingSpec
CONSTANTS
  Account = {alice, bob, deployer, fdc}
  Admin = deployer
  EnclaveOracle = deployer
  VaultOwner = {alice}
  GuardianKey = {bob}
  Verifier = {fdc}
  Registry = Registry
  NoAddress = NoAddress
  Asset = {fxrp}
  LenientAsset = {}
  PlanHash = {plan}
  LegalDoc = {}
  NoHash = NoHash
  Timing <- OneTiming
  Amount = {}
  Threshold = {2}
  InitialTokens = 0
  MaxVaultId = 1
  MaxTime = 7
  MaxDeposit = 0
  MaxAttestations = 3
  Case = {c1}
  Attestor = {t1, t2}
  FdcContract = fdc
CHECK_DEADLOCK FALSE
INVARIANTS
  QuorumMetNeverWaits
