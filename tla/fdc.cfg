SPECIFICATION FdcSpec
CONSTANTS
  Account = {alice, bob, deployer, fdc}
  Admin = deployer
  EnclaveOracle = deployer
  VaultOwner = {alice}
  GuardianKey = {bob}
  Verifier = {fdc}
  Registry = Registry
  NoAddress = NoAddress
  Asset = {fxrp}
  LenientAsset = {}
  PlanHash = {plan}
  LegalDoc = {}
  NoHash = NoHash
  Timing <- OneTiming
  Amount = {}
  Threshold = {1, 2}
  InitialTokens = 0
  MaxVaultId = 1
  MaxTime = 6
  MaxDeposit = 0
  MaxAttestations = 3
  Case = {c1, c2}
  Attestor = {t1, t2, t3}
  FdcContract = fdc
SYMMETRY Interchangeable
CHECK_DEADLOCK FALSE
INVARIANTS
  FdcTypeOK
  CountMatchesAttestors
PROPERTIES
  QuorumOfDistinctAttestors
