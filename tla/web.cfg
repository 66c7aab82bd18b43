SPECIFICATION WebFrontEndSpec
CONSTANTS
  alice = alice
  bob = bob
  carol = carol
  Account = {alice, bob, carol, deployer}
  Admin = deployer
  EnclaveOracle = deployer
  VaultOwner = {alice, carol}
  GuardianKey = {bob}
  Verifier = {}
  Registry = Registry
  NoAddress = NoAddress
  Asset = {fxrp, fbtc}
  LenientAsset = {}
  PlanHash = {plan}
  LegalDoc = {doc}
  NoHash = NoHash
  Timing <- OneTiming
  Amount = {1, 2}
  Threshold = {}
  InitialTokens = 2
  MaxVaultId = 2
  MaxTime = 7
  MaxDeposit = 2
  MaxAttestations = 0
  Visit <- Visits
  FXRP = fxrp
  FormWindows <- Typed
  DEMO_PRESETS <- ShortWindows
  Unread = Unread
  Failed = Failed
  Created <- Creators
  MaxLost = 1
  Case = {1, 2}
  Attestor = {t1, t2}
  Blank = Blank
CHECK_DEADLOCK FALSE
INVARIANTS
  WebTypeOK
  OffersMatchContract
  OwnVaultsOnly
  ShownEndIsTrue
  CountdownIsRight
  PaysOneApproval
  AnsweredIsRecorded
PROPERTIES
  TimelineMovesForward
  ConfirmedIsShown
