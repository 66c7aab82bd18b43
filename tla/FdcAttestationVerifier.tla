------------------------ MODULE FdcAttestationVerifier ------------------------
(***************************************************************************)
(* contracts/src/FdcAttestationVerifier.sol on top of the registry it      *)
(* calls.  A proof is the attestation data it proves; which proofs exist   *)
(* is decided by the data connector, outside this module.                  *)
(***************************************************************************)
EXTENDS VaultRegistry, Sequences, FiniteSets

CONSTANTS Case,        \* case ids
          Attestor,    \* addresses of trustees
          FdcContract  \* this contract's address

ASSUME FdcAssumption ==
    /\ FdcContract \in Verifier
    /\ IsFiniteSet(Attestor)

VARIABLES caseIdToVault,      \* caseId -> vault id, 0 until registered
          vaultAttestations,  \* id -> the verified attestations, in order
          hasAttested         \* id -> the attestors recorded for it

fdcVars == <<caseIdToVault, vaultAttestations, hasAttested>>

VerifiedAttestation == [caseIdHash : Case, attestor : Attestor, verifiedAt : Nat]

FdcInit ==
    /\ caseIdToVault = [case \in Case |-> 0]
    /\ vaultAttestations = [v \in VaultId |-> <<>>]
    /\ hasAttested = [v \in VaultId |-> {}]

\* Anybody may register a case, for any vault id, once.
RegisterCase(v, case) ==
    /\ caseIdToVault[case] = 0
    /\ caseIdToVault' = [caseIdToVault EXCEPT ![case] = v]
    /\ UNCHANGED <<vaultAttestations, hasAttested, vars>>

\* Mutant: what is remembered is the case, not the attestor.
SubmitAttestationKeyedByCase(proof) ==
    LET v == caseIdToVault[proof.caseId] IN
    /\ proof.confirmed
    /\ v > 0
    /\ proof.caseId \notin hasAttested[v]
    /\ hasAttested' = [hasAttested EXCEPT ![v] = @ \cup {proof.caseId}]
    /\ vaultAttestations' = [vaultAttestations EXCEPT ![v] = Append(@,
           [caseIdHash |-> proof.caseId, attestor |-> proof.attestorAddress,
            verifiedAt |-> now])]
    /\ SubmitVerifiedAttestation(FdcContract, v)
    /\ UNCHANGED caseIdToVault

\* Mutant: an attestor is looked for among the attestations of the same case only.
SubmitAttestationPerCase(proof) ==
    LET v == caseIdToVault[proof.caseId]
        attestor == proof.attestorAddress
    IN  /\ proof.confirmed
        /\ v > 0
        /\ \A i \in DOMAIN vaultAttestations[v] :
              <<vaultAttestations[v][i].caseIdHash, vaultAttestations[v][i].attestor>>
                  # <<proof.caseId, attestor>>
        /\ hasAttested' = [hasAttested EXCEPT ![v] = @ \cup {attestor}]
        /\ vaultAttestations' = [vaultAttestations EXCEPT ![v] = Append(@,
               [caseIdHash |-> proof.caseId, attestor |-> attestor, verifiedAt |-> now])]
        /\ SubmitVerifiedAttestation(FdcContract, v)
        /\ UNCHANGED caseIdToVault

\* Mutant: a case takes one attestation.
SubmitAttestationOncePerCase(proof) ==
    LET v == caseIdToVault[proof.caseId]
        attestor == proof.attestorAddress
    IN  /\ proof.confirmed
        /\ v > 0
        /\ attestor \notin hasAttested[v]
        /\ \A i \in DOMAIN vaultAttestations[v] :
              vaultAttestations[v][i].caseIdHash # proof.caseId
        /\ hasAttested' = [hasAttested EXCEPT ![v] = @ \cup {attestor}]
        /\ vaultAttestations' = [vaultAttestations EXCEPT ![v] = Append(@,
               [caseIdHash |-> proof.caseId, attestor |-> attestor, verifiedAt |-> now])]
        /\ SubmitVerifiedAttestation(FdcContract, v)
        /\ UNCHANGED caseIdToVault

\* The registry is called in the same transaction: if this contract is not the
\* one it is linked to, the whole submission reverts.
SubmitAttestation(proof) ==
    LET v == caseIdToVault[proof.caseId]
        attestor == proof.attestorAddress
    IN  /\ proof.confirmed
        /\ v > 0
        /\ attestor \notin hasAttested[v]
        /\ hasAttested' = [hasAttested EXCEPT ![v] = @ \cup {attestor}]
        /\ vaultAttestations' = [vaultAttestations EXCEPT ![v] = Append(@,
               [caseIdHash |-> proof.caseId, attestor |-> attestor, verifiedAt |-> now])]
        /\ SubmitVerifiedAttestation(FdcContract, v)
        /\ UNCHANGED caseIdToVault

\* The registry's steps that do not come through this contract.
RegistryStep ==
    /\ OwnerStep \/ GuardianStep \/ AdminStep \/ OracleStep \/ KeeperStep \/ Tick
    /\ UNCHANGED fdcVars

Proof == [caseId : Case, attestorAddress : Attestor, confirmed : BOOLEAN]

FdcNext ==
    \/ \E v \in VaultId, case \in Case : RegisterCase(v, case)
    \/ \E proof \in Proof : SubmitAttestation(proof)
    \/ RegistryStep

FdcSpec == Init /\ FdcInit /\ [][FdcNext]_<<vars, fdcVars>>

-----------------------------------------------------------------------------

FdcTypeOK ==
    /\ caseIdToVault \in [Case -> 0..MaxVaultId]
    /\ vaultAttestations \in [VaultId -> Seq(VerifiedAttestation)]
    /\ hasAttested \in [VaultId -> SUBSET Attestor]

\* The attestors whose verified attestations the contract recorded for a vault.
AttestorsOf(v) == {vaultAttestations[v][i].attestor : i \in DOMAIN vaultAttestations[v]}

\* The two contracts agree: the registry's count is the number of different
\* attestors recorded here, over all the cases that lead to the vault, although
\* the registry only counts calls, in every state, and never resets.
CountMatchesAttestors ==
    \A v \in VaultId :
        /\ vaultAttestationCount[v] = Cardinality(hasAttested[v])
        /\ vaultAttestationCount[v] = Len(vaultAttestations[v])
        /\ AttestorsOf(v) = hasAttested[v]

\* No single trustee opens a dispute window: when an attestation moves a vault on,
\* at least quorumThreshold different attestors have been verified for cases of
\* that vault.
QuorumOfDistinctAttestors ==
    [][\A v \in VaultId :
          /\ vaults[v].state = "QUORUM_PENDING"
          /\ vaults'[v].state = "DISPUTE_WINDOW"
          /\ vaultAttestationCount'[v] # vaultAttestationCount[v]
          => Cardinality({a \in Attestor : \E i \in DOMAIN vaultAttestations'[v] :
                             /\ vaultAttestations'[v][i].attestor = a
                             /\ caseIdToVault[vaultAttestations'[v][i].caseIdHash] = v})
               >= quorumThreshold]_<<vars, fdcVars>>

\* The diagrams of the life cycle (docs/continuity-vault-architecture.md:116,
\* README.md:29-30): a vault leaves QUORUM_PENDING when enough signals agree, so no vault
\* that was created waits there with enough of them counted.
QuorumMetNeverWaits ==
    \A v \in VaultId :
        v < nextVaultId /\ vaults[v].state = "QUORUM_PENDING"
            => vaultAttestationCount[v] < quorumThreshold

\* Design principle 1 (FdcAttestationVerifier.sol:29-30), taken at each trigger:
\* an attestation opens the dispute window only together with others given since
\* the owner was last known to be alive.
QuorumSinceLastCheckIn ==
    [][\A v \in VaultId :
          /\ vaults[v].state = "QUORUM_PENDING"
          /\ vaults'[v].state = "DISPUTE_WINDOW"
          /\ vaultAttestationCount'[v] # vaultAttestationCount[v]
          => Cardinality({i \in DOMAIN vaultAttestations'[v] :
                 vaultAttestations'[v][i].verifiedAt >= vaults[v].lastCheckIn})
               >= quorumThreshold]_<<vars, fdcVars>>
=============================================================================
