SPECIFICATION FairEnclaveSpec
CONSTANTS
  death = death
  incapacity = incapacity
  Vault = {v1}
  Attestor = {t1, t2}
  Type <- Types
  Plan <- Plans
  Request = {r1, r2}
  MaxBoot = 2
  MaxClock = 1
INVARIANTS
  EnclaveTypeOK
  ResultHasAttestors
PROPERTIES
  EvaluationIsStable
  RequestsAnswered
