---------------------------- MODULE AttestationFlow ----------------------------
(***************************************************************************)
(* From a trustee's web request to the registry: the attestation API, the  *)
(* data connector that attests to what the API answers, and the verifier   *)
(* and registry contracts.  The data connector is external: on a request   *)
(* it proves the response the API gives at that moment, and its proofs     *)
(* last, so they can be submitted late, repeatedly and in any order.       *)
(***************************************************************************)
EXTENDS FdcAttestationVerifier

CONSTANT ApiMayRestart   \* whether the service is allowed to stop

ASSUME FlowAssumption == ApiMayRestart \in BOOLEAN

VARIABLES attestations,  \* the API's records
          proofs,        \* responses of the API that can be proved on chain
          posted         \* what trustees ever submitted successfully: <<case, attestor>>

Api == INSTANCE AttestationApi

offChainVars == <<attestations, proofs, posted>>

flowVars == <<vars, fdcVars, offChainVars>>

FlowInit == Init /\ FdcInit /\ Api!ApiInit /\ proofs = {} /\ posted = {}

\* A trustee posts an attestation.
Post(case, attestor) ==
    /\ Api!Attest(case, attestor)
    /\ posted' = posted \cup {<<case, attestor>>}
    /\ UNCHANGED <<proofs, vars, fdcVars>>

RestartApi ==
    /\ ApiMayRestart
    /\ Api!ApiRestart
    /\ UNCHANGED <<proofs, posted, vars, fdcVars>>

\* A Web2Json request for a case is answered and becomes provable.
RequestProof(case) ==
    /\ Api!Served(case)
    /\ proofs' = proofs \cup {Api!Latest(case)}
    /\ UNCHANGED <<attestations, posted, vars, fdcVars>>

Submit(proof) == SubmitAttestation(proof) /\ UNCHANGED offChainVars

Register(v, case) == RegisterCase(v, case) /\ UNCHANGED offChainVars

FlowNext ==
    \/ \E case \in Case, attestor \in Attestor : Post(case, attestor)
    \/ RestartApi
    \/ \E case \in Case : RequestProof(case)
    \/ \E proof \in proofs : Submit(proof)
    \/ \E v \in VaultId, case \in Case : Register(v, case)
    \/ RegistryStep /\ UNCHANGED offChainVars

FlowSpec == FlowInit /\ [][FlowNext]_flowVars

\* Nobody is idle: the admin links the verifier, every case is registered, and
\* somebody asks for proofs of every case and submits the proofs there are.
Diligence ==
    /\ WF_flowVars(SetFdcVerifier(Admin, FdcContract) /\ UNCHANGED <<fdcVars, offChainVars>>)
    /\ \A case \in Case :
          /\ WF_flowVars(\E v \in VaultId : Register(v, case))
          /\ WF_flowVars(RequestProof(case))
    /\ \A case \in Case, attestor \in Attestor :
          WF_flowVars(\E proof \in proofs : /\ proof.caseId = case
                                            /\ proof.attestorAddress = attestor
                                            /\ Submit(proof))

DiligentSpec == FlowSpec /\ Diligence

-----------------------------------------------------------------------------

\* The contracts record nobody in whose name no attestation was posted: every verified
\* attestation was posted to the API for that attestor and a case of that vault, whatever
\* the service has forgotten since and however late or often its proofs are submitted.
\* Who posts is not looked at: the API takes a post without a signature for any address
\* (server.js:73-75).
EvidenceWasPosted ==
    \A v \in VaultId : \A i \in DOMAIN vaultAttestations[v] :
        LET record == vaultAttestations[v][i]
        IN  /\ caseIdToVault[record.caseIdHash] = v
            /\ <<record.caseIdHash, record.attestor>> \in posted

\* The trustee whose record the API goes on serving for a case is recorded on
\* chain in the end, through restarts, late proofs and proofs of other cases.
LastAttestorIsHeard ==
    \A case \in Case, attestor \in Attestor :
        <>[](Api!Served(case) /\ Api!Latest(case).attestorAddress = attestor)
            => <>(\E v \in VaultId : attestor \in hasAttested[v])

\* attestation-api/server.js:166-167: with several attestors, each one's record
\* reaches the contract through a request of its own.
EveryAttestorIsHeard ==
    \A case \in Case, attestor \in Attestor :
        <<case, attestor>> \in posted
            ~> \E v \in VaultId : attestor \in hasAttested[v]
=============================================================================
