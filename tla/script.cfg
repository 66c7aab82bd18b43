SPECIFICATION ScriptSpec
CONSTANTS
  Account = {alice, bob, deployer, router}
  Admin = deployer
  EnclaveOracle = bob
  VaultOwner = {alice, deployer}
  GuardianKey = {alice, bob}
  Verifier = {}
  Registry = Registry
  NoAddress = NoAddress
  Asset = {fxrp, fbtc, loose}
  LenientAsset = {loose}
  PlanHash = {plan}
  LegalDoc = {}
  NoHash = NoHash
  Timing <- OneTiming
  Amount = {1, 2, 4}
  Threshold = {1}
  InitialTokens = 7
  MaxVaultId = 5
  MaxTime = 3
  MaxDeposit = 4
  MaxAttestations = 0
  Router = router
  RouterAdmin = deployer
  Fxrp = fxrp
  ScriptOwner = deployer
  ScriptGuardian = bob
  Stranger = alice
  Argument <- Arguments
  DemoTimings <- ScaledTimings
  Pause = 1
  PrintsFraction = {TRUE, FALSE}
  OthersAmount = {1}
  MaxOthers = 2
CHECK_DEADLOCK FALSE
INVARIANTS
  ScriptTypeOK
  Solvency
  CustodyExplained
  UndisturbedFailsOnText
PROPERTIES
  ConfigFixed
  ImplementsLifecycle
  PassIsEarned
  StrangersSpared
  ScriptEnds
