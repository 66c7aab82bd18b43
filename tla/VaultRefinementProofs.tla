------------------------ MODULE VaultRefinementProofs ------------------------
(***************************************************************************)
(* VaultRegistry implements VaultLifecycle: the refinement mapping is the  *)
(* instance Lifecycle of VaultRegistry.  Under it a vault id that was never*)
(* created is unborn, and the calls the contract accepts for such an id are*)
(* stuttering steps.                                                       *)
(***************************************************************************)
EXTENDS VaultRegistryProofs

\* The images of the abstract variables.
PhaseMap == [v \in VaultId |-> PhaseOf(v)]
HeldMap == [v \in VaultId |-> vaults[v].balance]
PaidMap == [v \in VaultId |-> ledger[v].released]

\* The abstract step, and standing still, in terms of the images.
AbstractStep == [Lifecycle!LifecycleNext]_(Lifecycle!lifecycleVars)

\* Where no image changes, the lifecycle stands still.
LEMMA StandStill ==
    ASSUME PhaseMap' = PhaseMap, HeldMap' = HeldMap, PaidMap' = PaidMap
    PROVE  AbstractStep
BY DEF AbstractStep, Lifecycle!lifecycleVars, PhaseMap, HeldMap, PaidMap

\* The phase of a vault that exists, before and after a step.
LEMMA PhaseValue ==
    ASSUME NEW v \in VaultId, nextVaultId \in Nat, v < nextVaultId
    PROVE  /\ vaults[v].state = "ACTIVE" => PhaseOf(v) = "living"
           /\ vaults[v].state = "WARNING" => PhaseOf(v) = "missing"
           /\ vaults[v].state = "QUORUM_PENDING" => PhaseOf(v) = "questioned"
           /\ vaults[v].state = "DISPUTE_WINDOW" => PhaseOf(v) = "disputed"
           /\ vaults[v].state = "FINAL_WINDOW" => PhaseOf(v) = "halfPaid"
           /\ vaults[v].state = "FULLY_RELEASED" => PhaseOf(v) = "paid"
           /\ vaults[v].state = "CLOSED" => PhaseOf(v) = "cancelled"
BY DEF PhaseOf, PhaseName, VaultId

\* The same after a step.
LEMMA PhaseValuePrimed ==
    ASSUME NEW v \in VaultId, nextVaultId' \in Nat, v < nextVaultId'
    PROVE  /\ vaults'[v].state = "ACTIVE" => PhaseOf(v)' = "living"
           /\ vaults'[v].state = "WARNING" => PhaseOf(v)' = "missing"
           /\ vaults'[v].state = "QUORUM_PENDING" => PhaseOf(v)' = "questioned"
           /\ vaults'[v].state = "DISPUTE_WINDOW" => PhaseOf(v)' = "disputed"
           /\ vaults'[v].state = "FINAL_WINDOW" => PhaseOf(v)' = "halfPaid"
           /\ vaults'[v].state = "FULLY_RELEASED" => PhaseOf(v)' = "paid"
           /\ vaults'[v].state = "CLOSED" => PhaseOf(v)' = "cancelled"
BY DEF PhaseOf, PhaseName, VaultId

\* A step on one vault changes the images there only.
LEMMA ImagesMove ==
    ASSUME NEW w \in VaultId, OthersKept(w),
           \A v \in VaultId \ {w} : ledger'[v] = ledger[v],
           \A v \in VaultId \ {w} : (v >= nextVaultId') <=> (v >= nextVaultId)
    PROVE  /\ PhaseMap' = [PhaseMap EXCEPT ![w] = PhaseOf(w)']
           /\ HeldMap' = [HeldMap EXCEPT ![w] = vaults'[w].balance]
           /\ PaidMap' = [PaidMap EXCEPT ![w] = ledger'[w].released]
BY DEF PhaseMap, HeldMap, PaidMap, PhaseOf, OthersKept

\* When the vault's own phase and funds stay, the abstract state does.
LEMMA ImagesStay ==
    ASSUME NEW w \in VaultId, OthersKept(w),
           \A v \in VaultId \ {w} : ledger'[v] = ledger[v],
           \A v \in VaultId \ {w} : (v >= nextVaultId') <=> (v >= nextVaultId),
           PhaseOf(w)' = PhaseOf(w),
           vaults'[w].balance = vaults[w].balance,
           ledger'[w].released = ledger[w].released
    PROVE  AbstractStep
<1>1. PhaseMap' = PhaseMap /\ HeldMap' = HeldMap /\ PaidMap' = PaidMap
  BY DEF PhaseMap, HeldMap, PaidMap, PhaseOf, OthersKept
<1>2. QED
  BY <1>1, StandStill

\* At deployment every vault is unborn.
LEMMA InitMaps == Init => Lifecycle!LifecycleInit
<1> SUFFICES ASSUME Init PROVE Lifecycle!LifecycleInit
  OBVIOUS
<1>1. ASSUME NEW v \in VaultId
      PROVE  PhaseOf(v) = "unborn" /\ vaults[v].balance = 0 /\ ledger[v].released = 0
  BY DEF Init, PhaseOf, ZeroVault, VaultId
<1>2. QED
  BY <1>1 DEF Lifecycle!LifecycleInit

-----------------------------------------------------------------------------
(* Every step maps to a step of the lifecycle or to none.                  *)

\* createVault opens an id that was unborn, whatever its storage went through.
LEMMA CreateMaps ==
    ASSUME IInv, NEW caller \in Account, NEW plan \in PlanHash, NEW asset \in Asset,
           NEW timing \in Timing, NEW guardian \in GuardianKey,
           CreateVault(caller, plan, asset, timing, guardian)
    PROVE  AbstractStep
<1> PICK w \in VaultId : w = nextVaultId
  BY CreateEffect DEF IInv
<1>1. /\ OthersKept(w) /\ vaults'[w].state = "ACTIVE"
      /\ vaults'[w].balance = vaults[w].balance
  BY CreateEffect DEF IInv
<1>2. ledger' = ledger /\ nextVaultId' = w + 1 /\ w \in Nat
  BY DEF CreateVault, IInv, TypeOK
<1>3. \A v \in VaultId \ {w} : (v >= nextVaultId') <=> (v >= nextVaultId)
  BY <1>2 DEF VaultId
<1>4. PhaseOf(w) = "unborn" /\ PhaseOf(w)' = "living"
  <2>1. PhaseOf(w) = "unborn"
    BY <1>2 DEF PhaseOf
  <2>2. nextVaultId' \in Nat /\ w < nextVaultId'
    BY <1>2
  <2>3. QED
    BY <1>1, <2>1, <2>2, PhaseValuePrimed
<1>5. /\ PhaseMap[w] = "unborn"
      /\ PhaseMap' = [PhaseMap EXCEPT ![w] = "living"]
      /\ HeldMap' = HeldMap /\ PaidMap' = PaidMap
  <2>1. PhaseMap' = [PhaseMap EXCEPT ![w] = PhaseOf(w)']
    BY <1>1, <1>2, <1>3, ImagesMove
  <2>2. HeldMap' = HeldMap /\ PaidMap' = PaidMap
    BY <1>1, <1>2 DEF HeldMap, PaidMap, OthersKept
  <2>3. QED
    BY <1>1, <1>4, <2>1, <2>2 DEF PhaseMap
<1>6. Lifecycle!Open(w)
  BY <1>5 DEF Lifecycle!Open, Lifecycle!Move, PhaseMap, HeldMap, PaidMap
<1>7. QED
  BY <1>1, <1>6 DEF AbstractStep, Lifecycle!LifecycleNext

\* The calls the contract accepts for an id that was never created move nothing.
LEMMA UnbornMaps ==
    ASSUME IInv, IInv', NEW caller \in Account, NEW w \in VaultId, w >= nextVaultId,
           nextVaultId' = nextVaultId, OthersKept(w),
           \A v \in VaultId \ {w} : ledger'[v] = ledger[v],
           \/ ledger' = ledger
           \/ FinalizeDisputeWindow(w) \/ FinalizeFinalWindow(w)
    PROVE  AbstractStep
<1>1. /\ vaults[w].balance = 0 /\ vaults'[w].balance = 0
      /\ ledger[w].released \in Nat
  <2>1. ~(w < nextVaultId) /\ ~(w < nextVaultId') /\ ledger[w] \in Ledger
    BY DEF IInv, TypeOK, VaultId
  <2>2. IdentityOf(w) /\ IdentityOf(w)'
    BY DEF IInv, Sound
  <2>3. QED
    BY <2>1, <2>2 DEF IdentityOf, Ledger
<1>2. PhaseOf(w) = "unborn" /\ PhaseOf(w)' = "unborn"
  BY DEF PhaseOf
<1>3. ledger'[w].released = ledger[w].released
  <2>1. CASE FinalizeDisputeWindow(w)
    <3>1. ledger'[w].released = ledger[w].released + vaults[w].balance \div 2
      BY <2>1, FinalizeDisputeEffect DEF IInv
    <3>2. QED
      BY <1>1, <3>1
  <2>2. CASE FinalizeFinalWindow(w)
    <3>1. ledger'[w].released = ledger[w].released + vaults[w].balance
      BY <2>2, FinalizeFinalEffect DEF IInv
    <3>2. QED
      BY <1>1, <3>1
  <2>3. QED
    BY <2>1, <2>2
<1>4. QED
  BY <1>1, <1>2, <1>3, ImagesStay

\* What steps on a vault that exists have in common, for the lemmas below.
OnVault(w) ==
    /\ IInv /\ w < nextVaultId /\ nextVaultId' = nextVaultId
    /\ OthersKept(w)
    /\ \A v \in VaultId \ {w} : ledger'[v] = ledger[v]

\* A vault that moves along without its funds being touched.
LEMMA MoveImages ==
    ASSUME NEW w \in VaultId, OnVault(w), NEW to, PhaseOf(w)' = to,
           vaults'[w].balance = vaults[w].balance, ledger' = ledger
    PROVE  /\ PhaseMap' = [PhaseMap EXCEPT ![w] = to]
           /\ HeldMap' = HeldMap /\ PaidMap' = PaidMap
<1>1. PhaseMap' = [PhaseMap EXCEPT ![w] = to]
  BY ImagesMove DEF OnVault
<1>2. HeldMap' = HeldMap /\ PaidMap' = PaidMap
  BY DEF OnVault, HeldMap, PaidMap, OthersKept
<1>3. QED
  BY <1>1, <1>2

\* Check-ins, overrides and halts revive a vault, unless it was alive all along.
LEMMA RestartMaps ==
    ASSUME NEW caller \in Account, NEW w \in VaultId, OnVault(w),
           CheckIn(caller, w) \/ OwnerOverride(caller, w) \/ GuardianHalt(caller, w)
    PROVE  AbstractStep
<1>1. nextVaultId \in Nat /\ nextVaultId' \in Nat /\ w < nextVaultId /\ w < nextVaultId'
  BY DEF OnVault, IInv, TypeOK
<1>2. /\ vaults' = Restarted(w) /\ ledger' = ledger
      /\ vaults[w].state \in {"ACTIVE", "WARNING", "QUORUM_PENDING",
                              "DISPUTE_WINDOW", "FINAL_WINDOW"}
  BY DEF CheckIn, OwnerOverride, GuardianHalt
<1>3. vaults'[w].state = "ACTIVE" /\ vaults'[w].balance = vaults[w].balance
  BY <1>2, RestartEffect DEF OnVault, IInv
<1>4. PhaseOf(w)' = "living"
  BY <1>1, <1>3, PhaseValuePrimed
<1>5. PhaseOf(w) \in {"living", "missing", "questioned", "disputed", "halfPaid"}
  BY <1>1, <1>2, PhaseValue
<1>6. CASE PhaseOf(w) = "living"
  BY <1>2, <1>3, <1>4, <1>6, ImagesStay DEF OnVault
<1>7. CASE PhaseOf(w) # "living"
  <2>1. /\ PhaseMap' = [PhaseMap EXCEPT ![w] = "living"]
        /\ HeldMap' = HeldMap /\ PaidMap' = PaidMap
    BY <1>2, <1>3, <1>4, MoveImages
  <2>2. Lifecycle!Revive(w)
    BY <1>5, <1>7, <2>1
    DEF Lifecycle!Revive, Lifecycle!Move, PhaseMap, HeldMap, PaidMap
  <2>3. QED
    BY <2>2 DEF AbstractStep, Lifecycle!LifecycleNext
<1>8. QED
  BY <1>6, <1>7

\* markWarning, requestAttestation and the two ways to a quorum.
LEMMA WaitMaps ==
    ASSUME NEW caller \in Account, NEW w \in VaultId, OnVault(w),
           \/ MarkWarning(w) \/ RequestAttestation(w)
           \/ \E quorumMet \in BOOLEAN : SubmitQuorumResult(caller, w, quorumMet)
           \/ SubmitVerifiedAttestation(caller, w)
    PROVE  AbstractStep
<1>1. nextVaultId \in Nat /\ nextVaultId' \in Nat /\ w < nextVaultId /\ w < nextVaultId'
  BY DEF OnVault, IInv, TypeOK
<1>2. TypeOK
  BY DEF OnVault, IInv
<1>3. /\ now + vaults[w].timing.graceWindow \in Nat
      /\ now + vaults[w].timing.disputeWindow \in Nat
      /\ vaults[w].windowDeadline \in Nat
      /\ {"WARNING", "QUORUM_PENDING", "DISPUTE_WINDOW"} \subseteq VaultState
  BY <1>2, TimingNat DEF VaultState
<1>4. ledger' = ledger
  BY DEF MarkWarning, RequestAttestation, SubmitQuorumResult, SubmitVerifiedAttestation
<1>5. ASSUME NEW from, NEW to, PhaseOf(w) = from, PhaseOf(w)' = to,
             vaults'[w].balance = vaults[w].balance
      PROVE  /\ PhaseMap[w] = from /\ PhaseMap' = [PhaseMap EXCEPT ![w] = to]
             /\ HeldMap' = HeldMap /\ PaidMap' = PaidMap
  <2>1. PhaseMap[w] = from
    BY <1>5 DEF PhaseMap
  <2>2. QED
    BY <1>4, <1>5, <2>1, MoveImages
<1>6. CASE MarkWarning(w)
  <2>1. /\ vaults[w].state = "ACTIVE" /\ vaults'[w].state = "WARNING"
        /\ vaults'[w].balance = vaults[w].balance
    BY <1>2, <1>3, <1>6, EnterEffect DEF MarkWarning
  <2>2. PhaseOf(w) = "living" /\ PhaseOf(w)' = "missing"
    BY <1>1, <2>1, PhaseValue, PhaseValuePrimed
  <2>3. Lifecycle!Miss(w)
    BY <1>5, <2>1, <2>2
    DEF Lifecycle!Miss, Lifecycle!Move, PhaseMap, HeldMap, PaidMap
  <2>4. QED
    BY <2>3 DEF AbstractStep, Lifecycle!LifecycleNext
<1>7. CASE RequestAttestation(w)
  <2>1. /\ vaults[w].state = "WARNING" /\ vaults'[w].state = "QUORUM_PENDING"
        /\ vaults'[w].balance = vaults[w].balance
    BY <1>2, <1>3, <1>7, EnterEffect DEF RequestAttestation
  <2>2. PhaseOf(w) = "missing" /\ PhaseOf(w)' = "questioned"
    BY <1>1, <2>1, PhaseValue, PhaseValuePrimed
  <2>3. Lifecycle!Question(w)
    BY <1>5, <2>1, <2>2
    DEF Lifecycle!Question, Lifecycle!Move, PhaseMap, HeldMap, PaidMap
  <2>4. QED
    BY <2>3 DEF AbstractStep, Lifecycle!LifecycleNext
<1>8. CASE /\ vaults[w].state = "QUORUM_PENDING"
           /\ vaults' = Entered(w, "DISPUTE_WINDOW", now + vaults[w].timing.disputeWindow)
  <2>1. /\ vaults'[w].state = "DISPUTE_WINDOW"
        /\ vaults'[w].balance = vaults[w].balance
    BY <1>2, <1>3, <1>8, EnterEffect
  <2>2. PhaseOf(w) = "questioned" /\ PhaseOf(w)' = "disputed"
    BY <1>1, <1>8, <2>1, PhaseValue, PhaseValuePrimed
  <2>3. Lifecycle!Agree(w)
    BY <1>5, <2>1, <2>2
    DEF Lifecycle!Agree, Lifecycle!Move, PhaseMap, HeldMap, PaidMap
  <2>4. QED
    BY <2>3 DEF AbstractStep, Lifecycle!LifecycleNext
<1>9. CASE vaults' = vaults
  <2>1. PhaseOf(w)' = PhaseOf(w)
    BY <1>9 DEF PhaseOf, OnVault
  <2>2. QED
    BY <1>4, <1>9, <2>1, ImagesStay DEF OnVault
<1>10. QED
  BY <1>6, <1>7, <1>8, <1>9 DEF SubmitQuorumResult, SubmitVerifiedAttestation

\* fundVault adds, cancelVault takes everything out, anchorLegalDoc does neither.
LEMMA OwnerMaps ==
    ASSUME NEW caller \in Account, NEW w \in VaultId, OnVault(w),
           \/ \E amount \in Amount : FundVault(caller, w, amount)
           \/ \E hash \in LegalDoc : AnchorLegalDoc(caller, w, hash)
           \/ CancelVault(caller, w)
    PROVE  AbstractStep
<1>1. nextVaultId \in Nat /\ nextVaultId' \in Nat /\ w < nextVaultId /\ w < nextVaultId'
  BY DEF OnVault, IInv, TypeOK
<1>2. TypeOK /\ IdentityOf(w)
  BY DEF OnVault, IInv, Sound
<1>3. \A v \in VaultId \ {w} : (v >= nextVaultId') <=> (v >= nextVaultId)
  BY DEF OnVault
<1>4. CASE \E amount \in Amount : FundVault(caller, w, amount)
  <2>1. PICK amount \in Amount : FundVault(caller, w, amount)
    BY <1>4
  <2>2. /\ vaults'[w].state = vaults[w].state
        /\ vaults'[w].balance = vaults[w].balance + amount
        /\ ledger'[w].released = ledger[w].released
    BY <1>2, <2>1, FundEffect
  <2>3. vaults[w].state \in {"ACTIVE", "WARNING", "QUORUM_PENDING", "DISPUTE_WINDOW",
                             "FINAL_WINDOW"}
    BY <1>2, <2>1, TimingNat DEF FundVault, VaultState
  <2>4. /\ PhaseOf(w)' = PhaseOf(w)
        /\ PhaseOf(w) \in {"living", "missing", "questioned", "disputed", "halfPaid"}
    BY <1>1, <2>2, <2>3, PhaseValue, PhaseValuePrimed
  <2>5. /\ PhaseMap' = PhaseMap /\ PaidMap' = PaidMap
        /\ HeldMap' = [HeldMap EXCEPT ![w] = HeldMap[w] + amount]
    <3>1. /\ PhaseMap' = [PhaseMap EXCEPT ![w] = PhaseOf(w)']
          /\ HeldMap' = [HeldMap EXCEPT ![w] = vaults'[w].balance]
          /\ PaidMap' = [PaidMap EXCEPT ![w] = ledger'[w].released]
      BY <1>3, ImagesMove DEF OnVault
    <3>2. QED
      BY <2>2, <2>4, <3>1 DEF PhaseMap, HeldMap, PaidMap
  <2>6. Lifecycle!Add(w, amount)
    BY <2>4, <2>5 DEF Lifecycle!Add, PhaseMap, HeldMap, PaidMap
  <2>7. QED
    BY <2>6 DEF AbstractStep, Lifecycle!LifecycleNext
<1>5. CASE \E hash \in LegalDoc : AnchorLegalDoc(caller, w, hash)
  <2>1. /\ vaults'[w].state = vaults[w].state
        /\ vaults'[w].balance = vaults[w].balance
        /\ ledger' = ledger
    BY <1>2, <1>5, AnchorEffect DEF AnchorLegalDoc
  <2>2. PhaseOf(w)' = PhaseOf(w)
    BY <1>1, <2>1 DEF PhaseOf, OnVault
  <2>3. QED
    BY <1>3, <2>1, <2>2, ImagesStay DEF OnVault
<1>6. CASE CancelVault(caller, w)
  <2>1. /\ vaults[w].state = "ACTIVE" /\ vaults'[w].state = "CLOSED"
        /\ vaults'[w].balance = 0
        /\ ledger'[w].released = ledger[w].released
    BY <1>2, <1>6, CancelEffect DEF CancelVault
  <2>2. PhaseOf(w) = "living" /\ PhaseOf(w)' = "cancelled"
    BY <1>1, <2>1, PhaseValue, PhaseValuePrimed
  <2>3. /\ PhaseMap[w] = "living"
        /\ PhaseMap' = [PhaseMap EXCEPT ![w] = "cancelled"]
        /\ HeldMap' = [HeldMap EXCEPT ![w] = 0]
        /\ PaidMap' = PaidMap
    <3>1. /\ PhaseMap' = [PhaseMap EXCEPT ![w] = PhaseOf(w)']
          /\ HeldMap' = [HeldMap EXCEPT ![w] = vaults'[w].balance]
          /\ PaidMap' = [PaidMap EXCEPT ![w] = ledger'[w].released]
      BY <1>3, ImagesMove DEF OnVault
    <3>2. QED
      BY <2>1, <2>2, <3>1 DEF PhaseMap, PaidMap
  <2>4. Lifecycle!Cancel(w)
    BY <2>3 DEF Lifecycle!Cancel, Lifecycle!Move, PhaseMap, HeldMap, PaidMap
  <2>5. QED
    BY <2>4 DEF AbstractStep, Lifecycle!LifecycleNext
<1>7. QED
  BY <1>4, <1>5, <1>6

\* The two finalize calls pay half and then the rest.
LEMMA FinalizeMaps ==
    ASSUME NEW w \in VaultId, OnVault(w), FinalizeDisputeWindow(w) \/ FinalizeFinalWindow(w)
    PROVE  AbstractStep
<1>1. nextVaultId \in Nat /\ nextVaultId' \in Nat /\ w < nextVaultId /\ w < nextVaultId'
  BY DEF OnVault, IInv, TypeOK
<1>2. TypeOK
  BY DEF OnVault, IInv
<1>3. /\ PhaseMap' = [PhaseMap EXCEPT ![w] = PhaseOf(w)']
      /\ HeldMap' = [HeldMap EXCEPT ![w] = vaults'[w].balance]
      /\ PaidMap' = [PaidMap EXCEPT ![w] = ledger'[w].released]
  BY ImagesMove DEF OnVault
<1>4. PhaseMap[w] = PhaseOf(w) /\ HeldMap[w] = vaults[w].balance /\ PaidMap[w] = ledger[w].released
  BY DEF PhaseMap, HeldMap, PaidMap
<1>5. CASE FinalizeDisputeWindow(w)
  <2>1. /\ vaults[w].state = "DISPUTE_WINDOW" /\ vaults'[w].state = "FINAL_WINDOW"
        /\ vaults'[w].balance = vaults[w].balance - vaults[w].balance \div 2
        /\ ledger'[w].released = ledger[w].released + vaults[w].balance \div 2
    BY <1>2, <1>5, FinalizeDisputeEffect DEF FinalizeDisputeWindow
  <2>2. PhaseOf(w) = "disputed" /\ PhaseOf(w)' = "halfPaid"
    BY <1>1, <2>1, PhaseValue, PhaseValuePrimed
  <2>3. /\ PhaseMap[w] = "disputed"
        /\ PhaseMap' = [PhaseMap EXCEPT ![w] = "halfPaid"]
        /\ HeldMap' = [HeldMap EXCEPT ![w] = HeldMap[w] - HeldMap[w] \div 2]
        /\ PaidMap' = [PaidMap EXCEPT ![w] = PaidMap[w] + HeldMap[w] \div 2]
    BY <1>3, <1>4, <2>1, <2>2
  <2>4. Lifecycle!PayHalf(w)
    BY <2>3 DEF Lifecycle!PayHalf, Lifecycle!Move, PhaseMap, HeldMap, PaidMap
  <2>5. QED
    BY <2>4 DEF AbstractStep, Lifecycle!LifecycleNext
<1>6. CASE FinalizeFinalWindow(w)
  <2>1. /\ vaults[w].state = "FINAL_WINDOW" /\ vaults'[w].state = "FULLY_RELEASED"
        /\ vaults'[w].balance = 0
        /\ ledger'[w].released = ledger[w].released + vaults[w].balance
    BY <1>2, <1>6, FinalizeFinalEffect DEF FinalizeFinalWindow
  <2>2. PhaseOf(w) = "halfPaid" /\ PhaseOf(w)' = "paid"
    BY <1>1, <2>1, PhaseValue, PhaseValuePrimed
  <2>3. /\ PhaseMap[w] = "halfPaid"
        /\ PhaseMap' = [PhaseMap EXCEPT ![w] = "paid"]
        /\ HeldMap' = [HeldMap EXCEPT ![w] = 0]
        /\ PaidMap' = [PaidMap EXCEPT ![w] = PaidMap[w] + HeldMap[w]]
    BY <1>3, <1>4, <2>1, <2>2
  <2>4. Lifecycle!PayRest(w)
    BY <2>3 DEF Lifecycle!PayRest, Lifecycle!Move, PhaseMap, HeldMap, PaidMap
  <2>5. QED
    BY <2>4 DEF AbstractStep, Lifecycle!LifecycleNext
<1>7. QED
  BY <1>5, <1>6

\* Every step of the registry is a step of the lifecycle or none.
LEMMA NextMaps == IInv /\ IInv' /\ [Next]_vars => AbstractStep
<1> SUFFICES ASSUME IInv, IInv', [Next]_vars PROVE AbstractStep
  OBVIOUS
<1>1. CASE vaults' = vaults /\ ledger' = ledger /\ nextVaultId' = nextVaultId
  <2>1. PhaseMap' = PhaseMap /\ HeldMap' = HeldMap /\ PaidMap' = PaidMap
    BY <1>1 DEF PhaseMap, HeldMap, PaidMap, PhaseOf
  <2>2. QED
    BY <2>1, StandStill
<1>2. ASSUME NEW caller \in Account, NEW w \in VaultId,
             \/ \E quorumMet \in BOOLEAN : SubmitQuorumResult(caller, w, quorumMet)
             \/ \E hash \in LegalDoc : AnchorLegalDoc(caller, w, hash)
             \/ \E amount \in Amount : FundVault(caller, w, amount)
             \/ CheckIn(caller, w) \/ OwnerOverride(caller, w) \/ GuardianHalt(caller, w)
             \/ CancelVault(caller, w) \/ SubmitVerifiedAttestation(caller, w)
             \/ MarkWarning(w) \/ RequestAttestation(w)
             \/ FinalizeDisputeWindow(w) \/ FinalizeFinalWindow(w)
      PROVE  AbstractStep
  <2>1. /\ OthersKept(w) /\ IdentityKept(w)
        /\ \A v \in VaultId \ {w} : ledger'[v] = ledger[v]
    BY <1>2, VaultStep
  <2>2. nextVaultId' = nextVaultId
    BY <1>2 DEF SubmitQuorumResult, AnchorLegalDoc, FundVault, CheckIn, OwnerOverride,
                GuardianHalt, CancelVault, SubmitVerifiedAttestation, MarkWarning,
                RequestAttestation, FinalizeDisputeWindow, FinalizeFinalWindow
  <2>3. CASE w < nextVaultId
    <3>1. OnVault(w)
      BY <2>1, <2>2, <2>3 DEF OnVault
    <3>2. QED
      BY <1>2, <3>1, RestartMaps, WaitMaps, OwnerMaps, FinalizeMaps
  <2>4. CASE w >= nextVaultId
    <3>1. ~(w < nextVaultId)
      BY <2>4 DEF IInv, TypeOK, VaultId
    <3>2. /\ vaults[w].owner = NoAddress
          /\ vaults[w].fundingAsset = NoAddress
      BY <3>1 DEF IInv, Sound, IdentityOf
    <3>3. caller # NoAddress
      BY RegistryAssumption
    <3>4. \/ ledger' = ledger
          \/ FinalizeDisputeWindow(w) \/ FinalizeFinalWindow(w)
      BY <1>2, <3>2, <3>3
      DEF SubmitQuorumResult, AnchorLegalDoc, FundVault, CheckIn, OwnerOverride,
          GuardianHalt, CancelVault, SubmitVerifiedAttestation, MarkWarning,
          RequestAttestation
    <3>5. QED
      BY <2>1, <2>2, <2>4, <3>4, UnbornMaps
  <2>5. QED
    BY <2>3, <2>4 DEF IInv, TypeOK, VaultId
<1>3. QED
  BY <1>1, <1>2, CreateMaps, StepKinds

-----------------------------------------------------------------------------

\* The contract, with its callers, clocks, ids and tokens, implements the documented
\* life of a vault: half is paid before the rest, and only from a disputed vault.
THEOREM RegistryRefinesLifecycle == Spec => ImplementsLifecycle
<1>1. IInv /\ IInv' /\ [Next]_vars => [Lifecycle!LifecycleNext]_(Lifecycle!lifecycleVars)
  BY NextMaps DEF AbstractStep
<1>2. QED
  BY <1>1, InitMaps, InvariantHolds, PTL
  DEF Spec, ImplementsLifecycle, Lifecycle!LifecycleSpec
=============================================================================
