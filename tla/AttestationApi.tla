---------------------------- MODULE AttestationApi ----------------------------
(***************************************************************************)
(* attestation-api/server.js: the web service where trustees attest to a   *)
(* case and from which the Flare Data Connector reads.  It keeps its       *)
(* records in memory.  Attestation types, signatures (optional, and only   *)
(* ever a reason to refuse) and timestamps decide nothing later on and are *)
(* left out; an attestor's address stands for all its spellings, which is  *)
(* how the service compares them.                                          *)
(***************************************************************************)
EXTENDS Naturals, Sequences

CONSTANTS Case,      \* case ids
          Attestor   \* addresses of trustees

VARIABLE attestations   \* caseId -> the records stored for it, oldest first

\* The response schema the data connector decodes.
AttestationRecord == [caseId : Case, attestorAddress : Attestor, confirmed : BOOLEAN]

ApiInit == attestations = [case \in Case |-> <<>>]

\* POST /attest; an attestor who already submitted for the case is refused.
Attest(case, attestor) ==
    /\ \A i \in DOMAIN attestations[case] :
           attestations[case][i].attestorAddress # attestor
    /\ attestations' = [attestations EXCEPT ![case] = Append(@,
           [caseId |-> case, attestorAddress |-> attestor, confirmed |-> TRUE])]

\* GET /attestations/:caseId answers, when there is any, with the latest record.
Served(case) == attestations[case] # <<>>

\* Mutant: the latest record of some case, answered under the case asked for.
LatestOfAnyCase(case) ==
    LET any == CHOOSE c \in Case : Served(c)
    IN  [attestations[any][Len(attestations[any])] EXCEPT !.caseId = case]

Latest(case) == attestations[case][Len(attestations[case])]

\* The process stops and starts again.
ApiRestart == attestations' = [case \in Case |-> <<>>]
=============================================================================
