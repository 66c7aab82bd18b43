---------------------------- MODULE AttestationProofs ------------------------
(***************************************************************************)
(* Theorems about the way of an attestation: the verifier contract beside  *)
(* the registry, and what reaches them through the attestation service,    *)
(* for any number of trustees, cases, vaults, proofs and restarts.         *)
(***************************************************************************)
EXTENDS AttestationFlow, VaultRegistryProofs, FiniteSetTheorems, SequenceTheorems

-----------------------------------------------------------------------------
(* The registry's own theorems carry over: the verifier is one of its      *)
(* callers.                                                                *)

\* A step registers a case, submits a proof for a registered case, is the
\* registry's own, or changes nothing.
LEMMA FdcStepKinds ==
    ASSUME FdcTypeOK, [FdcNext]_<<vars, fdcVars>>
    PROVE  \/ \E v \in VaultId, case \in Case : RegisterCase(v, case)
           \/ \E proof \in Proof : /\ caseIdToVault[proof.caseId] \in VaultId
                                   /\ SubmitAttestation(proof)
           \/ RegistryStep
           \/ UNCHANGED <<vars, fdcVars>>
<1>1. ASSUME NEW proof \in Proof, SubmitAttestation(proof)
      PROVE  caseIdToVault[proof.caseId] \in VaultId
  <2>1. proof.caseId \in Case
    BY DEF Proof
  <2>2. caseIdToVault[proof.caseId] \in 0..MaxVaultId /\ caseIdToVault[proof.caseId] > 0
    BY <1>1, <2>1 DEF FdcTypeOK, SubmitAttestation
  <2>3. QED
    BY <2>2, RegistryAssumption DEF VaultId
<1>2. QED
  BY <1>1 DEF FdcNext

\* Whatever the verifier does, the registry sees one of its own calls or nothing.
LEMMA FdcStepIsRegistryStep ==
    ASSUME FdcTypeOK, [FdcNext]_<<vars, fdcVars>>
    PROVE  [Next]_vars
<1>1. ASSUME NEW v \in VaultId, NEW case \in Case, RegisterCase(v, case)
      PROVE  UNCHANGED vars
  BY <1>1 DEF RegisterCase
<1>2. ASSUME NEW proof \in Proof, caseIdToVault[proof.caseId] \in VaultId,
             SubmitAttestation(proof)
      PROVE  Next
  <2>1. FdcContract \in Account
    BY RegistryAssumption, FdcAssumption
  <2>2. SubmitVerifiedAttestation(FdcContract, caseIdToVault[proof.caseId])
    BY <1>2 DEF SubmitAttestation
  <2>3. QED
    BY <1>2, <2>1, <2>2 DEF Next, VerifierStep
<1>3. CASE RegistryStep
  BY <1>3 DEF RegistryStep, Next
<1>4. QED
  BY <1>1, <1>2, <1>3, FdcStepKinds

-----------------------------------------------------------------------------
(* The inductive invariant: what the two contracts keep about one vault.   *)

\* Everybody recorded for a vault is in its list once, through one of its cases.
Recorded(v) ==
    /\ vaultAttestationCount[v] = Len(vaultAttestations[v])
    /\ vaultAttestationCount[v] = Cardinality(hasAttested[v])
    /\ \A i \in 1..Len(vaultAttestations[v]) :
          /\ vaultAttestations[v][i].attestor \in hasAttested[v]
          /\ caseIdToVault[vaultAttestations[v][i].caseIdHash] = v
    /\ \A a \in hasAttested[v] :
          \E i \in 1..Len(vaultAttestations[v]) : vaultAttestations[v][i].attestor = a

FdcInv == TypeOK /\ FdcTypeOK /\ \A v \in VaultId : Recorded(v)

\* Nothing is recorded and nothing counted at deployment.
LEMMA FdcInitHolds == Init /\ FdcInit => FdcInv
<1> SUFFICES ASSUME Init, FdcInit PROVE FdcInv
  OBVIOUS
<1>1. TypeOK
  BY InitType
<1>2. FdcTypeOK
  BY RegistryAssumption DEF FdcInit, FdcTypeOK
<1>3. ASSUME NEW v \in VaultId PROVE Recorded(v)
  <2>1. /\ vaultAttestationCount[v] = 0 /\ vaultAttestations[v] = <<>>
        /\ hasAttested[v] = {}
    BY DEF Init, FdcInit
  <2>2. Cardinality({}) = 0
    BY FS_EmptySet
  <2>3. QED
    BY <2>1, <2>2 DEF Recorded
<1>4. QED
  BY <1>1, <1>2, <1>3 DEF FdcInv

\* registerCase points a case that was free at a vault, and no recorded
\* attestation is of a free case.
LEMMA RegisterHolds ==
    ASSUME FdcInv, NEW v \in VaultId, NEW case \in Case, RegisterCase(v, case)
    PROVE  FdcInv'
<1>1. TypeOK'
  BY DEF FdcInv, TypeOK, RegisterCase, vars
<1>2. FdcTypeOK'
  BY RegistryAssumption DEF FdcInv, FdcTypeOK, RegisterCase, VaultId
<1>3. ASSUME NEW w \in VaultId PROVE Recorded(w)'
  <2>1. /\ vaultAttestations' = vaultAttestations /\ hasAttested' = hasAttested
        /\ vaultAttestationCount' = vaultAttestationCount
    BY DEF RegisterCase, vars
  <2>2. vaultAttestations[w] \in Seq(VerifiedAttestation) /\ Recorded(w)
    BY DEF FdcInv, FdcTypeOK
  <2>3. ASSUME NEW i \in 1..Len(vaultAttestations[w])
        PROVE  caseIdToVault'[vaultAttestations[w][i].caseIdHash] = w
    <3> DEFINE c == vaultAttestations[w][i].caseIdHash
    <3>1. c \in Case
      <4>1. vaultAttestations[w][i] \in VerifiedAttestation
        BY <2>2
      <4>2. QED
        BY <4>1 DEF VerifiedAttestation
    <3>2. caseIdToVault[c] = w /\ w # 0
      BY <2>2 DEF Recorded, VaultId
    <3>3. c # case
      BY <3>2 DEF RegisterCase
    <3>4. QED
      BY <3>1, <3>2, <3>3 DEF RegisterCase, FdcInv, FdcTypeOK
  <2>4. QED
    BY <2>1, <2>2, <2>3 DEF Recorded
<1>4. QED
  BY <1>1, <1>2, <1>3 DEF FdcInv

\* What submitAttestation does to the two contracts.
LEMMA SubmitEffect ==
    ASSUME FdcInv, NEW proof \in Proof, NEW v \in VaultId,
           v = caseIdToVault[proof.caseId], SubmitAttestation(proof)
    PROVE  LET record == [caseIdHash |-> proof.caseId, verifiedAt |-> now,
                          attestor |-> proof.attestorAddress]
           IN  /\ record \in VerifiedAttestation
               /\ caseIdToVault' = caseIdToVault
               /\ vaultAttestationCount' =
                      [vaultAttestationCount EXCEPT ![v] = vaultAttestationCount[v] + 1]
               /\ vaultAttestations' =
                      [vaultAttestations EXCEPT ![v] = Append(vaultAttestations[v], record)]
               /\ proof.attestorAddress \in Attestor \ hasAttested[v]
               /\ hasAttested' = [hasAttested EXCEPT
                      ![v] = hasAttested[v] \cup {proof.attestorAddress}]
<1>1. now \in Nat /\ proof.caseId \in Case /\ proof.attestorAddress \in Attestor
  BY DEF FdcInv, TypeOK, Proof
<1>2. QED
  BY <1>1 DEF SubmitAttestation, SubmitVerifiedAttestation, VerifiedAttestation

\* A new attestation is recorded and counted in the same transaction.
LEMMA SubmitHolds ==
    ASSUME FdcInv, TypeOK', NEW proof \in Proof,
           caseIdToVault[proof.caseId] \in VaultId, SubmitAttestation(proof)
    PROVE  FdcInv'
<1> DEFINE record == [caseIdHash |-> proof.caseId, verifiedAt |-> now,
                      attestor |-> proof.attestorAddress]
           attestor == proof.attestorAddress
<1> PICK v \in VaultId : v = caseIdToVault[proof.caseId]
  OBVIOUS
<1> DEFINE old == vaultAttestations[v]
           new == Append(old, record)
<1>1. /\ record \in VerifiedAttestation
      /\ caseIdToVault' = caseIdToVault
      /\ vaultAttestationCount' =
             [vaultAttestationCount EXCEPT ![v] = vaultAttestationCount[v] + 1]
      /\ vaultAttestations' = [vaultAttestations EXCEPT ![v] = new]
      /\ attestor \in Attestor \ hasAttested[v]
      /\ hasAttested' = [hasAttested EXCEPT ![v] = hasAttested[v] \cup {attestor}]
  BY SubmitEffect
<1>2. record.attestor = attestor /\ record.caseIdHash = proof.caseId
  OBVIOUS
<1> HIDE DEF record, attestor
<1>3. FdcTypeOK /\ TypeOK /\ \A w \in VaultId : Recorded(w)
  BY DEF FdcInv
<1>4. old \in Seq(VerifiedAttestation)
  BY <1>3 DEF FdcTypeOK
<1>5. /\ new \in Seq(VerifiedAttestation) /\ Len(new) = Len(old) + 1
      /\ \A i \in 1..Len(old) : new[i] = old[i]
      /\ new[Len(old) + 1] = record
      /\ Len(old) \in Nat
  BY <1>1, <1>4, AppendProperties
<1> HIDE DEF new
<1>6. FdcTypeOK'
  BY <1>1, <1>3, <1>5 DEF FdcTypeOK
<1>7. /\ vaultAttestations'[v] = new
      /\ hasAttested'[v] = hasAttested[v] \cup {attestor}
      /\ vaultAttestationCount'[v] = vaultAttestationCount[v] + 1
  BY <1>1, <1>3 DEF FdcTypeOK, TypeOK
<1>8. Recorded(v)'
  <2>1. Cardinality(hasAttested[v] \cup {attestor}) = Cardinality(hasAttested[v]) + 1
    <3>1. IsFiniteSet(hasAttested[v])
      BY <1>3, FS_Subset, FdcAssumption DEF FdcTypeOK
    <3>2. QED
      BY <1>1, <3>1, FS_AddElement
  <2>2. ASSUME NEW i \in 1..Len(new)
        PROVE  /\ new[i].attestor \in hasAttested[v] \cup {attestor}
               /\ caseIdToVault[new[i].caseIdHash] = v
    <3>1. CASE i \in 1..Len(old)
      <4>1. new[i] = old[i]
        BY <1>5, <3>1
      <4>2. /\ old[i].attestor \in hasAttested[v]
            /\ caseIdToVault[old[i].caseIdHash] = v
        BY <1>3, <3>1 DEF Recorded
      <4>3. QED
        BY <4>1, <4>2
    <3>2. CASE i = Len(old) + 1
      BY <1>2, <1>5, <3>2
    <3>3. QED
      BY <1>5, <3>1, <3>2
  <2>3. ASSUME NEW a \in hasAttested[v] \cup {attestor}
        PROVE  \E i \in 1..Len(new) : new[i].attestor = a
    <3>1. CASE a \in hasAttested[v]
      <4>1. PICK i \in 1..Len(old) : old[i].attestor = a
        BY <1>3, <3>1 DEF Recorded
      <4>2. i \in 1..Len(new) /\ new[i].attestor = a
        BY <1>5, <4>1
      <4>3. QED
        BY <4>2
    <3>2. CASE a = attestor
      <4>1. Len(old) + 1 \in 1..Len(new) /\ new[Len(old) + 1].attestor = a
        BY <1>2, <1>5, <3>2
      <4>2. QED
        BY <4>1
    <3>3. QED
      BY <3>1, <3>2
  <2>4. /\ vaultAttestationCount[v] + 1 = Len(new)
        /\ vaultAttestationCount[v] + 1 = Cardinality(hasAttested[v] \cup {attestor})
    BY <1>3, <1>5, <2>1 DEF Recorded
  <2>5. /\ vaultAttestationCount'[v] = Len(vaultAttestations'[v])
        /\ vaultAttestationCount'[v] = Cardinality(hasAttested'[v])
    BY <1>7, <2>4
  <2>6. ASSUME NEW i \in 1..Len(vaultAttestations'[v])
        PROVE  /\ vaultAttestations'[v][i].attestor \in hasAttested'[v]
               /\ caseIdToVault'[vaultAttestations'[v][i].caseIdHash] = v
    <3>1. caseIdToVault' = caseIdToVault
      BY <1>1
    <3>2. QED
      BY <1>7, <2>2, <3>1
  <2>7. ASSUME NEW a \in hasAttested'[v]
        PROVE  \E i \in 1..Len(vaultAttestations'[v]) : vaultAttestations'[v][i].attestor = a
    BY <1>7, <2>3
  <2>8. QED
    BY <2>5, <2>6, <2>7 DEF Recorded
<1>9. ASSUME NEW w \in VaultId \ {v} PROVE Recorded(w)'
  <2>1. /\ vaultAttestations'[w] = vaultAttestations[w]
        /\ hasAttested'[w] = hasAttested[w]
        /\ vaultAttestationCount'[w] = vaultAttestationCount[w]
    BY <1>1, <1>3 DEF FdcTypeOK, TypeOK
  <2>2. QED
    BY <1>1, <1>3, <2>1 DEF Recorded
<1>10. QED
  BY <1>6, <1>8, <1>9 DEF FdcInv

\* Nothing but the verifier's call touches the counts.
LEMMA RegistryKeepsCounts ==
    ASSUME RegistryStep
    PROVE  UNCHANGED <<vaultAttestationCount, fdcVars>>
<1>1. CASE OwnerStep
  BY <1>1 DEF RegistryStep, OwnerStep, CreateVault, CheckIn, FundVault, AnchorLegalDoc,
              OwnerOverride, CancelVault
<1>2. CASE GuardianStep \/ AdminStep \/ OracleStep \/ Tick
  BY <1>2 DEF RegistryStep, GuardianStep, GuardianHalt, AdminStep, SetFdcVerifier,
              SetQuorumThreshold, OracleStep, SubmitQuorumResult, Tick, registryVars
<1>3. CASE KeeperStep
  BY <1>3 DEF RegistryStep, KeeperStep, MarkWarning, RequestAttestation,
              FinalizeDisputeWindow, FinalizeFinalWindow
<1>4. QED
  BY <1>1, <1>2, <1>3 DEF RegistryStep

\* Every step of the two contracts preserves the invariant.
LEMMA FdcNextHolds ==
    ASSUME FdcInv, TypeOK', [FdcNext]_<<vars, fdcVars>>
    PROVE  FdcInv'
<1>1. FdcTypeOK
  BY DEF FdcInv
<1>2. CASE UNCHANGED <<vaultAttestationCount, fdcVars>>
  <2>1. FdcTypeOK'
    BY <1>2 DEF FdcInv, FdcTypeOK, fdcVars
  <2>2. \A v \in VaultId : Recorded(v)'
    BY <1>2 DEF FdcInv, Recorded, fdcVars
  <2>3. QED
    BY <2>1, <2>2 DEF FdcInv
<1>3. CASE UNCHANGED <<vars, fdcVars>>
  BY <1>2, <1>3 DEF vars
<1>4. QED
  BY <1>1, <1>2, <1>3, FdcStepKinds, RegisterHolds, SubmitHolds, RegistryKeepsCounts

-----------------------------------------------------------------------------

\* Linking the verifier adds no behaviour to the registry: whatever trustees prove,
\* its own specification, and so every theorem about it, still holds.
THEOREM FdcRefinesRegistry == FdcSpec => Spec
<1>1. Init /\ FdcInit => FdcInv /\ IInv
  BY FdcInitHolds, InitSound
<1>2. FdcInv /\ IInv /\ [FdcNext]_<<vars, fdcVars>> => [Next]_vars /\ FdcInv' /\ IInv'
  <2> SUFFICES ASSUME FdcInv, IInv, [FdcNext]_<<vars, fdcVars>>
               PROVE  [Next]_vars /\ FdcInv' /\ IInv'
    OBVIOUS
  <2>1. [Next]_vars
    BY FdcStepIsRegistryStep DEF FdcInv
  <2>2. IInv'
    BY <2>1, NextSound
  <2>3. QED
    BY <2>1, <2>2, FdcNextHolds DEF IInv
<1>3. QED
  BY <1>1, <1>2, PTL DEF FdcSpec, Spec

\* Every state the two contracts reach satisfies the inductive invariant.
THEOREM FdcInvariantHolds == FdcSpec => []FdcInv
<1>1. Init /\ FdcInit => FdcInv
  BY FdcInitHolds
<1>2. FdcInv /\ TypeOK' /\ [FdcNext]_<<vars, fdcVars>> => FdcInv'
  BY FdcNextHolds
<1>3. FdcSpec => []TypeOK
  BY FdcRefinesRegistry, TypeCorrect, PTL
<1>4. QED
  BY <1>1, <1>2, <1>3, PTL DEF FdcSpec

\* The verifier's cases, lists and sets of attestors keep their types.
THEOREM FdcTypeCorrect == FdcSpec => []FdcTypeOK
<1>1. FdcInv => FdcTypeOK
  BY DEF FdcInv
<1>2. QED
  BY <1>1, FdcInvariantHolds, PTL

\* The registry's count is the number of different attestors behind it.
THEOREM CountsAgree == FdcSpec => []CountMatchesAttestors
<1>1. FdcInv => CountMatchesAttestors
  <2> SUFFICES ASSUME FdcInv, NEW v \in VaultId
               PROVE  /\ vaultAttestationCount[v] = Cardinality(hasAttested[v])
                      /\ vaultAttestationCount[v] = Len(vaultAttestations[v])
                      /\ AttestorsOf(v) = hasAttested[v]
    BY DEF CountMatchesAttestors
  <2>1. Recorded(v) /\ DOMAIN vaultAttestations[v] = 1..Len(vaultAttestations[v])
    BY DEF FdcInv, FdcTypeOK
  <2>2. /\ \A i \in DOMAIN vaultAttestations[v] :
             vaultAttestations[v][i].attestor \in hasAttested[v]
        /\ \A a \in hasAttested[v] :
             \E i \in DOMAIN vaultAttestations[v] : vaultAttestations[v][i].attestor = a
    BY <2>1 DEF Recorded
  <2>3. AttestorsOf(v) = hasAttested[v]
    BY <2>2 DEF AttestorsOf
  <2>4. QED
    BY <2>1, <2>3 DEF Recorded
<1>2. QED
  BY <1>1, FdcInvariantHolds, PTL

\* When an attestation moves a vault on, its call is the verifier's, and the count it
\* reached is the threshold.
LEMMA TriggerReachesThreshold ==
    ASSUME FdcInv, [FdcNext]_<<vars, fdcVars>>, NEW v \in VaultId,
           vaults[v].state = "QUORUM_PENDING", vaults'[v].state = "DISPUTE_WINDOW",
           vaultAttestationCount'[v] # vaultAttestationCount[v]
    PROVE  vaultAttestationCount'[v] >= quorumThreshold /\ caseIdToVault' = caseIdToVault
<1>1. ~ UNCHANGED <<vaultAttestationCount, fdcVars>> /\ ~ UNCHANGED <<vars, fdcVars>>
  BY DEF vars
<1>2. PICK proof \in Proof : /\ caseIdToVault[proof.caseId] \in VaultId
                             /\ SubmitAttestation(proof)
  <2>1. \A w \in VaultId, case \in Case : ~RegisterCase(w, case)
    BY DEF RegisterCase, vars
  <2>2. QED
    BY <1>1, <2>1, FdcStepKinds, RegistryKeepsCounts DEF FdcInv
<1>3. SubmitVerifiedAttestation(FdcContract, caseIdToVault[proof.caseId])
  BY <1>2 DEF SubmitAttestation
<1>4. caseIdToVault[proof.caseId] = v
  BY <1>2, <1>3 DEF SubmitVerifiedAttestation, FdcInv, TypeOK
<1>5. /\ vaultAttestationCount'[v] = vaultAttestationCount[v] + 1
      /\ vaults' # vaults
  BY <1>3, <1>4 DEF SubmitVerifiedAttestation, FdcInv, TypeOK
<1>6. QED
  BY <1>2, <1>3, <1>4, <1>5 DEF SubmitVerifiedAttestation, SubmitAttestation

\* No trustee alone opens a dispute window once the threshold asks for more.
THEOREM TriggerNeedsQuorum == FdcSpec => QuorumOfDistinctAttestors
<1> DEFINE Quorum ==
        \A v \in VaultId :
          /\ vaults[v].state = "QUORUM_PENDING"
          /\ vaults'[v].state = "DISPUTE_WINDOW"
          /\ vaultAttestationCount'[v] # vaultAttestationCount[v]
          => Cardinality({a \in Attestor : \E i \in DOMAIN vaultAttestations'[v] :
                             /\ vaultAttestations'[v][i].attestor = a
                             /\ caseIdToVault[vaultAttestations'[v][i].caseIdHash] = v})
               >= quorumThreshold
<1>1. ASSUME FdcInv, FdcInv', [FdcNext]_<<vars, fdcVars>> PROVE Quorum
  <2> SUFFICES ASSUME NEW v \in VaultId,
                      vaults[v].state = "QUORUM_PENDING",
                      vaults'[v].state = "DISPUTE_WINDOW",
                      vaultAttestationCount'[v] # vaultAttestationCount[v]
               PROVE  Cardinality({a \in Attestor :
                          \E i \in DOMAIN vaultAttestations'[v] :
                             /\ vaultAttestations'[v][i].attestor = a
                             /\ caseIdToVault[vaultAttestations'[v][i].caseIdHash] = v})
                        >= quorumThreshold
    OBVIOUS
  <2>1. vaultAttestationCount'[v] >= quorumThreshold /\ caseIdToVault' = caseIdToVault
    BY <1>1, TriggerReachesThreshold
  <2>2. /\ DOMAIN vaultAttestations'[v] = 1..Len(vaultAttestations'[v])
        /\ hasAttested'[v] \subseteq Attestor
        /\ Recorded(v)'
    BY <1>1 DEF FdcInv, FdcTypeOK
  <2>3. /\ \A i \in DOMAIN vaultAttestations'[v] :
             /\ vaultAttestations'[v][i].attestor \in hasAttested'[v]
             /\ caseIdToVault[vaultAttestations'[v][i].caseIdHash] = v
        /\ \A a \in hasAttested'[v] :
             \E i \in DOMAIN vaultAttestations'[v] : vaultAttestations'[v][i].attestor = a
    BY <2>1, <2>2 DEF Recorded
  <2>4. {a \in Attestor : \E i \in DOMAIN vaultAttestations'[v] :
            /\ vaultAttestations'[v][i].attestor = a
            /\ caseIdToVault[vaultAttestations'[v][i].caseIdHash] = v} = hasAttested'[v]
    BY <2>2, <2>3, Zenon
  <2>5. vaultAttestationCount'[v] = Cardinality(hasAttested'[v])
    BY <2>2 DEF Recorded
  <2>6. QED
    BY <2>1, <2>4, <2>5
<1>2. FdcInv /\ FdcInv' /\ [FdcNext]_<<vars, fdcVars>> => [Quorum]_<<vars, fdcVars>>
  BY <1>1
<1>3. QED
  BY <1>2, FdcInvariantHolds, PTL DEF FdcSpec, QuorumOfDistinctAttestors

-----------------------------------------------------------------------------
(* The inductive invariant: everything that claims somebody's attestation  *)
(* was posted.                                                             *)

\* The service's records, under the right case.
ServiceHonest ==
    /\ attestations \in [Case -> Seq(Api!AttestationRecord)]
    /\ \A case \in Case : \A i \in 1..Len(attestations[case]) :
          /\ attestations[case][i].caseId = case
          /\ <<case, attestations[case][i].attestorAddress>> \in posted

\* The proofs drawn from them.
ProofsHonest ==
    /\ proofs \subseteq Proof
    /\ \A proof \in proofs : <<proof.caseId, proof.attestorAddress>> \in posted

\* The records on chain.
ChainHonest ==
    \A v \in VaultId : \A i \in 1..Len(vaultAttestations[v]) :
        <<vaultAttestations[v][i].caseIdHash, vaultAttestations[v][i].attestor>> \in posted

FlowInv == FdcInv /\ IInv /\ ServiceHonest /\ ProofsHonest /\ ChainHonest

\* At the start nothing claims to be anybody's attestation.
LEMMA FlowInitHolds == FlowInit => FlowInv
<1> SUFFICES ASSUME FlowInit PROVE FlowInv
  OBVIOUS
<1>1. FdcInv /\ IInv
  BY FdcInitHolds, InitSound DEF FlowInit
<1>2. ServiceHonest
  BY DEF FlowInit, Api!ApiInit, ServiceHonest
<1>3. ProofsHonest
  BY DEF FlowInit, ProofsHonest
<1>4. ChainHonest
  BY DEF FlowInit, FdcInit, ChainHonest
<1>5. QED
  BY <1>1, <1>2, <1>3, <1>4 DEF FlowInv

\* Seen from the contracts, every step is a step of theirs or none: a proof that is
\* submitted is a proof they accept as one.
LEMMA FlowStepIsFdcStep ==
    ASSUME FlowInv, [FlowNext]_flowVars
    PROVE  [FdcNext]_<<vars, fdcVars>>
<1>1. ASSUME NEW proof \in proofs, Submit(proof) PROVE FdcNext
  BY <1>1 DEF FlowInv, ProofsHonest, Submit, FdcNext
<1>2. QED
  BY <1>1 DEF FlowNext, flowVars, Post, RestartApi, RequestProof, Register, FdcNext

\* The contracts' part of the invariant carries over.
LEMMA ContractsHold ==
    ASSUME FlowInv, [FlowNext]_flowVars
    PROVE  FdcInv' /\ IInv'
<1>1. [FdcNext]_<<vars, fdcVars>>
  BY FlowStepIsFdcStep
<1>2. [Next]_vars
  BY <1>1, FdcStepIsRegistryStep DEF FlowInv, FdcInv
<1>3. IInv'
  BY <1>2, NextSound DEF FlowInv
<1>4. QED
  BY <1>1, <1>3, FdcNextHolds DEF FlowInv, IInv

\* The service records what is posted, where it is posted.
LEMMA PostHolds ==
    ASSUME FlowInv, NEW case \in Case, NEW attestor \in Attestor, Post(case, attestor)
    PROVE  ServiceHonest' /\ ProofsHonest' /\ ChainHonest'
<1> DEFINE record == [caseId |-> case, attestorAddress |-> attestor, confirmed |-> TRUE]
           new == Append(attestations[case], record)
<1>1. /\ attestations' = [attestations EXCEPT ![case] = new]
      /\ posted' = posted \cup {<<case, attestor>>}
      /\ UNCHANGED <<proofs, vars, fdcVars>>
  BY DEF Post, Api!Attest
<1>2. record \in Api!AttestationRecord
  BY DEF Api!AttestationRecord
<1>3. record.caseId = case /\ record.attestorAddress = attestor
  OBVIOUS
<1> HIDE DEF record
<1>4. attestations[case] \in Seq(Api!AttestationRecord)
  BY DEF FlowInv, ServiceHonest
<1>5. /\ new \in Seq(Api!AttestationRecord)
      /\ Len(new) = Len(attestations[case]) + 1 /\ Len(attestations[case]) \in Nat
      /\ \A i \in 1..Len(attestations[case]) : new[i] = attestations[case][i]
      /\ new[Len(attestations[case]) + 1] = record
  BY <1>2, <1>4, AppendProperties
<1> HIDE DEF new
<1>6. ServiceHonest'
  <2>1. attestations' \in [Case -> Seq(Api!AttestationRecord)]
    BY <1>1, <1>5 DEF FlowInv, ServiceHonest
  <2>2. ASSUME NEW i \in 1..Len(new)
        PROVE  new[i].caseId = case /\ <<case, new[i].attestorAddress>> \in posted'
    <3>1. CASE i \in 1..Len(attestations[case])
      BY <1>1, <1>5, <3>1 DEF FlowInv, ServiceHonest
    <3>2. CASE i = Len(attestations[case]) + 1
      BY <1>1, <1>3, <1>5, <3>2
    <3>3. QED
      BY <1>5, <3>1, <3>2
  <2>3. ASSUME NEW c \in Case, NEW i \in 1..Len(attestations'[c])
        PROVE  /\ attestations'[c][i].caseId = c
               /\ <<c, attestations'[c][i].attestorAddress>> \in posted'
    <3>1. CASE c = case
      <4>1. attestations'[c] = new
        BY <1>1, <3>1 DEF FlowInv, ServiceHonest
      <4>2. QED
        BY <2>2, <2>3, <3>1, <4>1
    <3>2. CASE c # case
      <4>1. attestations'[c] = attestations[c]
        BY <1>1, <3>2 DEF FlowInv, ServiceHonest
      <4>2. QED
        BY <1>1, <2>3, <4>1 DEF FlowInv, ServiceHonest
    <3>3. QED
      BY <3>1, <3>2
  <2>4. QED
    BY <2>1, <2>3 DEF ServiceHonest
<1>7. ProofsHonest'
  BY <1>1 DEF FlowInv, ProofsHonest
<1>8. ChainHonest'
  BY <1>1 DEF FlowInv, ChainHonest, fdcVars
<1>9. QED
  BY <1>6, <1>7, <1>8

\* A proof is of the record the service serves at that moment.
LEMMA RequestHolds ==
    ASSUME FlowInv, NEW case \in Case, RequestProof(case)
    PROVE  ServiceHonest' /\ ProofsHonest' /\ ChainHonest'
<1> DEFINE proof == Api!Latest(case)
<1>1. /\ Api!Served(case) /\ proofs' = proofs \cup {proof}
      /\ UNCHANGED <<attestations, posted, vars, fdcVars>>
  BY DEF RequestProof
<1>2. attestations[case] \in Seq(Api!AttestationRecord) /\ attestations[case] # <<>>
  BY <1>1 DEF FlowInv, ServiceHonest, Api!Served
<1>3. Len(attestations[case]) \in 1..Len(attestations[case])
  BY <1>2
<1>4. /\ proof \in Api!AttestationRecord
      /\ <<proof.caseId, proof.attestorAddress>> \in posted
  <2>1. PICK n \in 1..Len(attestations[case]) : proof = attestations[case][n]
    BY <1>3 DEF Api!Latest
  <2> HIDE DEF proof
  <2>2. attestations[case][n] \in Api!AttestationRecord
    BY <1>2
  <2>3. /\ attestations[case][n].caseId = case
        /\ <<case, attestations[case][n].attestorAddress>> \in posted
    BY DEF FlowInv, ServiceHonest
  <2>4. QED
    BY <2>1, <2>2, <2>3
<1>5. proof \in Proof
  BY <1>4 DEF Proof, Api!AttestationRecord
<1> HIDE DEF proof
<1>6. QED
  BY <1>1, <1>4, <1>5 DEF FlowInv, ServiceHonest, ProofsHonest, ChainHonest, fdcVars

\* What the contract records is what the proof says.
LEMMA SubmitRecords ==
    ASSUME FlowInv, NEW proof \in proofs, Submit(proof)
    PROVE  ServiceHonest' /\ ProofsHonest' /\ ChainHonest'
<1> DEFINE record == [caseIdHash |-> proof.caseId, verifiedAt |-> now,
                      attestor |-> proof.attestorAddress]
<1>1. SubmitAttestation(proof) /\ UNCHANGED offChainVars /\ proof \in Proof
  BY DEF Submit, FlowInv, ProofsHonest
<1>2. PICK v \in VaultId : v = caseIdToVault[proof.caseId]
  <2>1. caseIdToVault[proof.caseId] \in 0..MaxVaultId /\ caseIdToVault[proof.caseId] > 0
    BY <1>1 DEF SubmitAttestation, Proof, FlowInv, FdcInv, FdcTypeOK
  <2>2. QED
    BY <2>1, RegistryAssumption DEF VaultId
<1> DEFINE old == vaultAttestations[v]
           new == Append(old, record)
<1>3. /\ record \in VerifiedAttestation
      /\ vaultAttestations' = [vaultAttestations EXCEPT ![v] = new]
  BY <1>1, <1>2, SubmitEffect DEF FlowInv
<1>4. <<record.caseIdHash, record.attestor>> \in posted
  BY DEF FlowInv, ProofsHonest
<1> HIDE DEF record
<1>5. old \in Seq(VerifiedAttestation)
  BY DEF FlowInv, FdcInv, FdcTypeOK
<1>6. /\ Len(new) = Len(old) + 1 /\ Len(old) \in Nat
      /\ \A i \in 1..Len(old) : new[i] = old[i]
      /\ new[Len(old) + 1] = record
  BY <1>3, <1>5, AppendProperties
<1> HIDE DEF new
<1>7. ChainHonest'
  <2>1. posted' = posted
    BY <1>1 DEF offChainVars
  <2>2. ASSUME NEW i \in 1..Len(new)
        PROVE  <<new[i].caseIdHash, new[i].attestor>> \in posted
    <3>1. CASE i \in 1..Len(old)
      BY <1>6, <3>1 DEF FlowInv, ChainHonest
    <3>2. CASE i = Len(old) + 1
      BY <1>4, <1>6, <3>2
    <3>3. QED
      BY <1>6, <3>1, <3>2
  <2>3. ASSUME NEW w \in VaultId, NEW i \in 1..Len(vaultAttestations'[w])
        PROVE  <<vaultAttestations'[w][i].caseIdHash, vaultAttestations'[w][i].attestor>>
                   \in posted
    <3>1. CASE w = v
      <4>1. vaultAttestations'[w] = new
        BY <1>3, <3>1 DEF FlowInv, FdcInv, FdcTypeOK
      <4>2. QED
        BY <2>2, <2>3, <4>1
    <3>2. CASE w # v
      <4>1. vaultAttestations'[w] = vaultAttestations[w]
        BY <1>3, <3>2 DEF FlowInv, FdcInv, FdcTypeOK
      <4>2. QED
        BY <2>3, <4>1 DEF FlowInv, ChainHonest
    <3>3. QED
      BY <3>1, <3>2
  <2>4. QED
    BY <2>1, <2>3 DEF ChainHonest
<1>8. ServiceHonest' /\ ProofsHonest'
  BY <1>1 DEF FlowInv, ServiceHonest, ProofsHonest, offChainVars
<1>9. QED
  BY <1>7, <1>8

\* Every step from post to record preserves the invariant.
LEMMA FlowNextHolds == FlowInv /\ [FlowNext]_flowVars => FlowInv'
<1> SUFFICES ASSUME FlowInv, [FlowNext]_flowVars PROVE FlowInv'
  OBVIOUS
<1>1. ASSUME UNCHANGED <<attestations, proofs, posted, vaultAttestations>>
      PROVE  ServiceHonest' /\ ProofsHonest' /\ ChainHonest'
  BY <1>1 DEF FlowInv, ServiceHonest, ProofsHonest, ChainHonest
<1>2. CASE RestartApi
  <2>1. /\ attestations' = [case \in Case |-> <<>>]
        /\ UNCHANGED <<proofs, posted, vaultAttestations>>
    BY <1>2 DEF RestartApi, Api!ApiRestart, fdcVars
  <2>2. ServiceHonest'
    BY <2>1 DEF ServiceHonest
  <2>3. ProofsHonest' /\ ChainHonest'
    BY <2>1 DEF FlowInv, ProofsHonest, ChainHonest
  <2>4. QED
    BY <2>2, <2>3, ContractsHold DEF FlowInv
<1>3. CASE \E v \in VaultId, case \in Case : Register(v, case)
  BY <1>1, <1>3, ContractsHold DEF FlowInv, Register, RegisterCase, offChainVars
<1>4. CASE RegistryStep /\ UNCHANGED offChainVars
  BY <1>1, <1>4, ContractsHold DEF FlowInv, RegistryStep, offChainVars, fdcVars
<1>5. CASE UNCHANGED flowVars
  BY <1>1, <1>5, ContractsHold DEF FlowInv, flowVars, offChainVars, fdcVars
<1>6. QED
  BY <1>2, <1>3, <1>4, <1>5, PostHolds, RequestHolds, SubmitRecords, ContractsHold
  DEF FlowNext, FlowInv

-----------------------------------------------------------------------------

\* Every state of the flow satisfies the inductive invariant.
THEOREM FlowInvariantHolds == FlowSpec => []FlowInv
<1>1. QED
  BY FlowInitHolds, FlowNextHolds, PTL DEF FlowSpec

\* Nobody is recorded on chain in whose name no attestation was posted, through restarts
\* of the service and late, repeated or reordered proofs.
THEOREM EvidenceIsReal == FlowSpec => []EvidenceWasPosted
<1>1. FlowInv => EvidenceWasPosted
  <2> SUFFICES ASSUME FlowInv, NEW v \in VaultId, NEW i \in DOMAIN vaultAttestations[v]
               PROVE  /\ caseIdToVault[vaultAttestations[v][i].caseIdHash] = v
                      /\ <<vaultAttestations[v][i].caseIdHash,
                           vaultAttestations[v][i].attestor>> \in posted
    BY DEF EvidenceWasPosted
  <2>1. i \in 1..Len(vaultAttestations[v])
    BY DEF FlowInv, FdcInv, FdcTypeOK
  <2>2. QED
    BY <2>1 DEF FlowInv, ChainHonest, FdcInv, Recorded
<1>2. QED
  BY <1>1, FlowInvariantHolds, PTL

-----------------------------------------------------------------------------
(* What the hearing of a trustee rests on.                                 *)

\* The service and the connector add no behaviour to the contracts: whatever is
\* posted, forgotten, proved and submitted, the specification of the verifier beside
\* the registry holds, and with it every theorem above.
THEOREM FlowRefinesFdc == FlowSpec => FdcSpec
<1>1. FlowInit => Init /\ FdcInit
  BY DEF FlowInit
<1>2. FlowInv /\ [FlowNext]_flowVars => [FdcNext]_<<vars, fdcVars>>
  BY FlowStepIsFdcStep
<1>3. QED
  BY <1>1, <1>2, FlowInvariantHolds, PTL DEF FlowSpec, FdcSpec

\* What has been reached on the way to a hearing: the link to the verifier, the cases'
\* vaults, the proofs, the attestors recorded and the record of each, word for word.
NothingTakenBack ==
    /\ fdcVerifier # NoAddress => fdcVerifier' = fdcVerifier
    /\ \A case \in Case : caseIdToVault[case] # 0 => caseIdToVault'[case] = caseIdToVault[case]
    /\ proofs \subseteq proofs'
    /\ \A v \in VaultId :
          /\ hasAttested[v] \subseteq hasAttested'[v]
          /\ Len(vaultAttestations[v]) <= Len(vaultAttestations'[v])
          /\ \A i \in 1..Len(vaultAttestations[v]) :
                vaultAttestations'[v][i] = vaultAttestations[v][i]

\* The registry keeps the verifier it was given.
LEMMA LinkKept ==
    ASSUME [Next]_vars, fdcVerifier # NoAddress
    PROVE  fdcVerifier' = fdcVerifier
<1>1. CASE OwnerStep
  BY <1>1 DEF OwnerStep, CreateVault, CheckIn, FundVault, AnchorLegalDoc, OwnerOverride,
              CancelVault
<1>2. CASE GuardianStep \/ AdminStep \/ OracleStep \/ VerifierStep \/ Tick
  BY <1>2 DEF GuardianStep, GuardianHalt, AdminStep, SetFdcVerifier, SetQuorumThreshold,
              OracleStep, SubmitQuorumResult, VerifierStep, SubmitVerifiedAttestation, Tick,
              registryVars
<1>3. CASE KeeperStep
  BY <1>3 DEF KeeperStep, MarkWarning, RequestAttestation, FinalizeDisputeWindow,
              FinalizeFinalWindow
<1>4. QED
  BY <1>1, <1>2, <1>3 DEF Next, vars, registryVars

\* The verifier's tables only grow.
LEMMA TablesOnlyGrow ==
    ASSUME FdcInv, [FdcNext]_<<vars, fdcVars>>
    PROVE  /\ \A case \in Case :
                 caseIdToVault[case] # 0 => caseIdToVault'[case] = caseIdToVault[case]
           /\ \A v \in VaultId :
                 /\ hasAttested[v] \subseteq hasAttested'[v]
                 /\ Len(vaultAttestations[v]) <= Len(vaultAttestations'[v])
                 /\ \A i \in 1..Len(vaultAttestations[v]) :
                       vaultAttestations'[v][i] = vaultAttestations[v][i]
<1>1. ASSUME NEW v \in VaultId PROVE Len(vaultAttestations[v]) \in Nat
  BY DEF FdcInv, FdcTypeOK
<1>2. CASE UNCHANGED fdcVars
  BY <1>1, <1>2 DEF fdcVars
<1>3. ASSUME NEW v \in VaultId, NEW case \in Case, RegisterCase(v, case)
      PROVE  /\ UNCHANGED <<vaultAttestations, hasAttested>>
             /\ \A c \in Case : caseIdToVault[c] # 0 => caseIdToVault'[c] = caseIdToVault[c]
  BY <1>3 DEF RegisterCase, FdcInv, FdcTypeOK
<1>4. ASSUME NEW proof \in Proof, caseIdToVault[proof.caseId] \in VaultId,
             SubmitAttestation(proof), NEW w \in VaultId
      PROVE  /\ caseIdToVault' = caseIdToVault
             /\ hasAttested[w] \subseteq hasAttested'[w]
             /\ Len(vaultAttestations[w]) <= Len(vaultAttestations'[w])
             /\ \A i \in 1..Len(vaultAttestations[w]) :
                   vaultAttestations'[w][i] = vaultAttestations[w][i]
  <2> DEFINE record == [caseIdHash |-> proof.caseId, verifiedAt |-> now,
                        attestor |-> proof.attestorAddress]
  <2> PICK v \in VaultId : v = caseIdToVault[proof.caseId]
    BY <1>4
  <2>1. /\ record \in VerifiedAttestation
        /\ caseIdToVault' = caseIdToVault
        /\ vaultAttestations' =
               [vaultAttestations EXCEPT ![v] = Append(vaultAttestations[v], record)]
        /\ hasAttested' = [hasAttested EXCEPT
               ![v] = hasAttested[v] \cup {proof.attestorAddress}]
    BY <1>4, SubmitEffect
  <2> HIDE DEF record
  <2>2. vaultAttestations[v] \in Seq(VerifiedAttestation)
    BY DEF FdcInv, FdcTypeOK
  <2> DEFINE new == Append(vaultAttestations[v], record)
  <2>3. /\ Len(new) = Len(vaultAttestations[v]) + 1
        /\ \A i \in 1..Len(vaultAttestations[v]) : new[i] = vaultAttestations[v][i]
    BY <2>1, <2>2, AppendProperties
  <2> HIDE DEF new
  <2>4. /\ vaultAttestations' = [vaultAttestations EXCEPT ![v] = new]
        /\ Len(vaultAttestations[w]) \in Nat
    BY <1>1, <2>1 DEF new
  <2>5. hasAttested[w] \subseteq hasAttested'[w]
    BY <2>1 DEF FdcInv, FdcTypeOK
  <2>6. CASE w = v
    <3>1. vaultAttestations'[w] = new
      BY <2>4, <2>6 DEF FdcInv, FdcTypeOK
    <3>2. QED
      BY <2>1, <2>3, <2>4, <2>5, <2>6, <3>1
  <2>7. CASE w # v
    <3>1. vaultAttestations'[w] = vaultAttestations[w]
      BY <2>4, <2>7 DEF FdcInv, FdcTypeOK
    <3>2. QED
      BY <2>1, <2>4, <2>5, <3>1
  <2>8. QED
    BY <2>6, <2>7
<1>5. CASE \E v \in VaultId, case \in Case : RegisterCase(v, case)
  BY <1>1, <1>3, <1>5
<1>6. CASE \E proof \in Proof : /\ caseIdToVault[proof.caseId] \in VaultId
                                /\ SubmitAttestation(proof)
  BY <1>4, <1>6
<1>7. QED
  BY <1>2, <1>5, <1>6, FdcStepKinds, RegistryKeepsCounts DEF FdcInv, fdcVars

\* No step of anybody, a restart of the service and the registry's whole life among
\* them, takes back what a trustee's hearing has reached.
THEOREM HearingNeverGoesBack == FlowSpec => [][NothingTakenBack]_flowVars
<1>1. ASSUME FlowInv, [FlowNext]_flowVars PROVE NothingTakenBack
  <2>1. [FdcNext]_<<vars, fdcVars>>
    BY <1>1, FlowStepIsFdcStep
  <2>2. [Next]_vars
    BY <1>1, <2>1, FdcStepIsRegistryStep DEF FlowInv, FdcInv
  <2>3. proofs \subseteq proofs'
    BY <1>1 DEF FlowNext, flowVars, offChainVars, Post, RestartApi, RequestProof, Submit,
                Register
  <2>4. QED
    BY <1>1, <2>1, <2>2, <2>3, LinkKept, TablesOnlyGrow DEF FlowInv, NothingTakenBack
<1>2. FlowInv /\ [FlowNext]_flowVars => [NothingTakenBack]_flowVars
  BY <1>1
<1>3. QED
  BY <1>2, FlowInvariantHolds, PTL DEF FlowSpec

\* Everything the service serves and the connector proves says "confirmed".
AllConfirmed ==
    /\ \A case \in Case : \A i \in 1..Len(attestations[case]) : attestations[case][i].confirmed
    /\ \A proof \in proofs : proof.confirmed

\* Nothing the service ever records is unconfirmed.
LEMMA ConfirmedHolds ==
    ASSUME FlowInv, AllConfirmed, [FlowNext]_flowVars
    PROVE  AllConfirmed'
<1>1. ASSUME UNCHANGED <<attestations, proofs>> PROVE AllConfirmed'
  BY <1>1 DEF AllConfirmed
<1>2. ASSUME NEW case \in Case, NEW attestor \in Attestor, Post(case, attestor)
      PROVE  AllConfirmed'
  <2> DEFINE record == [caseId |-> case, attestorAddress |-> attestor, confirmed |-> TRUE]
             new == Append(attestations[case], record)
  <2>1. /\ attestations' = [attestations EXCEPT ![case] = new]
        /\ proofs' = proofs
    BY <1>2 DEF Post, Api!Attest
  <2>2. record \in Api!AttestationRecord /\ record.confirmed
    BY DEF Api!AttestationRecord
  <2> HIDE DEF record
  <2>3. attestations \in [Case -> Seq(Api!AttestationRecord)]
    BY DEF FlowInv, ServiceHonest
  <2>4. /\ Len(new) = Len(attestations[case]) + 1 /\ Len(attestations[case]) \in Nat
        /\ \A i \in 1..Len(attestations[case]) : new[i] = attestations[case][i]
        /\ new[Len(attestations[case]) + 1] = record
    BY <2>2, <2>3, AppendProperties
  <2> HIDE DEF new
  <2>5. ASSUME NEW i \in 1..Len(new) PROVE new[i].confirmed
    <3>1. CASE i \in 1..Len(attestations[case])
      BY <2>4, <3>1 DEF AllConfirmed
    <3>2. CASE i = Len(attestations[case]) + 1
      BY <2>2, <2>4, <3>2
    <3>3. QED
      BY <2>4, <3>1, <3>2
  <2>6. ASSUME NEW c \in Case, NEW i \in 1..Len(attestations'[c])
        PROVE  attestations'[c][i].confirmed
    <3>1. CASE c = case
      <4>1. attestations'[c] = new
        BY <2>1, <2>3, <3>1
      <4>2. QED
        BY <2>5, <2>6, <4>1
    <3>2. CASE c # case
      <4>1. attestations'[c] = attestations[c]
        BY <2>1, <2>3, <3>2
      <4>2. QED
        BY <2>6, <4>1 DEF AllConfirmed
    <3>3. QED
      BY <3>1, <3>2
  <2>7. QED
    BY <2>1, <2>6 DEF AllConfirmed
<1>3. ASSUME NEW case \in Case, RequestProof(case) PROVE AllConfirmed'
  <2>1. /\ attestations[case] # <<>> /\ attestations' = attestations
        /\ proofs' = proofs \cup {Api!Latest(case)}
    BY <1>3 DEF RequestProof, Api!Served
  <2>2. Len(attestations[case]) \in 1..Len(attestations[case])
    <3>1. attestations[case] \in Seq(Api!AttestationRecord)
      BY DEF FlowInv, ServiceHonest
    <3>2. QED
      BY <2>1, <3>1
  <2>3. Api!Latest(case).confirmed
    BY <2>2 DEF Api!Latest, AllConfirmed
  <2>4. QED
    BY <2>1, <2>3 DEF AllConfirmed
<1>4. CASE RestartApi
  <2>1. attestations' = [case \in Case |-> <<>>] /\ proofs' = proofs
    BY <1>4 DEF RestartApi, Api!ApiRestart
  <2>2. \A case \in Case : Len(attestations'[case]) = 0
    BY <2>1
  <2>3. QED
    BY <2>1, <2>2 DEF AllConfirmed
<1>5. QED
  BY <1>1, <1>2, <1>3, <1>4 DEF FlowNext, flowVars, offChainVars, Submit, Register

\* Once the verifier is linked and its case has a vault, a proof either has been heard,
\* or meets every condition of submitAttestation and of the registry's call within it,
\* the model's bound included, in whatever state the vault is.
NothingBarsAProof ==
    \A proof \in proofs :
        LET v == caseIdToVault[proof.caseId]
        IN  fdcVerifier = FdcContract /\ v # 0
            => \/ proof.attestorAddress \in hasAttested[v]
               \/ /\ proof.confirmed
                  /\ v > 0
                  /\ FdcContract = fdcVerifier
                  /\ vaultAttestationCount[v] + 1 <= MaxAttestations

\* Somebody not recorded yet leaves room in the count.
LEMMA RoomForOneMore ==
    ASSUME FdcInv, NEW v \in VaultId, NEW a \in Attestor \ hasAttested[v]
    PROVE  /\ vaultAttestationCount[v] \in Nat
           /\ vaultAttestationCount[v] + 1 <= Cardinality(Attestor)
<1>1. hasAttested[v] \subseteq Attestor /\ vaultAttestationCount[v] = Cardinality(hasAttested[v])
  BY DEF FdcInv, FdcTypeOK, Recorded
<1>2. IsFiniteSet(Attestor) /\ IsFiniteSet(hasAttested[v])
  BY <1>1, FdcAssumption, FS_Subset
<1>3. hasAttested[v] \cup {a} \subseteq Attestor
  BY <1>1
<1>4. /\ Cardinality(hasAttested[v] \cup {a}) = Cardinality(hasAttested[v]) + 1
      /\ Cardinality(hasAttested[v]) \in Nat
  BY <1>2, FS_AddElement, FS_CardinalityType
<1>5. Cardinality(hasAttested[v] \cup {a}) <= Cardinality(Attestor)
  BY <1>2, <1>3, FS_Subset
<1>6. QED
  BY <1>1, <1>4, <1>5

\* Where the bound on the count leaves room for every trustee, nothing ever bars a
\* proof: a hearing waits for the submission alone, and not for the vault's state.
THEOREM ProofsStaySubmittable ==
    ASSUME MaxAttestations >= Cardinality(Attestor)
    PROVE  FlowSpec => []NothingBarsAProof
<1>1. FlowInv /\ AllConfirmed => NothingBarsAProof
  <2> SUFFICES ASSUME FlowInv, AllConfirmed, NEW proof \in proofs,
                      fdcVerifier = FdcContract, caseIdToVault[proof.caseId] # 0,
                      proof.attestorAddress \notin hasAttested[caseIdToVault[proof.caseId]]
               PROVE  /\ proof.confirmed
                      /\ caseIdToVault[proof.caseId] > 0
                      /\ vaultAttestationCount[caseIdToVault[proof.caseId]] + 1
                           <= MaxAttestations
    BY DEF NothingBarsAProof
  <2>1. proof.caseId \in Case /\ proof.attestorAddress \in Attestor
    BY DEF FlowInv, ProofsHonest, Proof
  <2>2. caseIdToVault[proof.caseId] \in 0..MaxVaultId
    BY <2>1 DEF FlowInv, FdcInv, FdcTypeOK
  <2>3. PICK v \in VaultId : v = caseIdToVault[proof.caseId]
    BY <2>2, RegistryAssumption DEF VaultId
  <2>4. /\ vaultAttestationCount[v] \in Nat
        /\ vaultAttestationCount[v] + 1 <= Cardinality(Attestor)
    BY <2>1, <2>3, RoomForOneMore DEF FlowInv
  <2>5. Cardinality(Attestor) \in Nat /\ MaxAttestations \in Nat
    BY FdcAssumption, RegistryAssumption, FS_CardinalityType
  <2>6. QED
    BY <2>2, <2>3, <2>4, <2>5, RegistryAssumption DEF AllConfirmed
<1>2. FlowInit => AllConfirmed
  <2> SUFFICES ASSUME FlowInit PROVE AllConfirmed
    OBVIOUS
  <2>1. attestations = [case \in Case |-> <<>>] /\ proofs = {}
    BY DEF FlowInit, Api!ApiInit
  <2>2. \A case \in Case : Len(attestations[case]) = 0
    BY <2>1
  <2>3. QED
    BY <2>1, <2>2 DEF AllConfirmed
<1>3. FlowInv /\ AllConfirmed /\ [FlowNext]_flowVars => AllConfirmed'
  BY ConfirmedHolds
<1>4. QED
  BY <1>1, <1>2, <1>3, FlowInvariantHolds, PTL DEF FlowSpec
=============================================================================
