----------------------------- MODULE TrusteePage -----------------------------
(***************************************************************************)
(* web/src/app/trustee/page.tsx: the form in which a trustee attests,      *)
(* beside the attestation API it posts to.  Request and answer travel      *)
(* separately and either can be lost; the trustee may then press the       *)
(* button again.                                                           *)
(***************************************************************************)
EXTENDS AttestationApi

CONSTANT Blank   \* a field that is not filled in

ASSUME TrusteeAssumption == Blank \notin Case \cup Attestor

VARIABLES
    trustee,    \* the fields: [caseId, attestor]
    request,    \* "none", "travelling", or the API's answer on its way back
    posted,     \* the fields of the last request
    late,       \* the fields of a request the page gave up, still under way
    result,     \* "none", "recorded", "refused" or "failed", as shown
    forgotten   \* history: the API restarted since the last request arrived

trusteeVars == <<trustee, request, posted, late, result, forgotten>>

Empty == [caseId |-> Blank, attestor |-> Blank]

Recorded(fields) ==
    \E i \in DOMAIN attestations[fields.caseId] :
        attestations[fields.caseId][i].attestorAddress = fields.attestor

TrusteeInit ==
    /\ ApiInit
    /\ trustee = Empty
    /\ request = "none"
    /\ posted = Empty
    /\ late = Empty
    /\ result = "none"
    /\ forgotten = FALSE

\* The fields can be changed at any time, while a request is under way too.
EditField(field, value) ==
    /\ trustee[field] # value
    /\ trustee' = [trustee EXCEPT ![field] = value]
    /\ UNCHANGED <<attestations, request, posted, late, result, forgotten>>

isValid == trustee.caseId # Blank /\ trustee.attestor # Blank

\* isSubmitting disables the button until an answer or an error is there.
HandleSubmitAttestation ==
    /\ isValid
    /\ request = "none"
    /\ request' = "travelling"
    /\ posted' = trustee
    /\ result' = "none"
    /\ UNCHANGED <<attestations, trustee, late, forgotten>>

\* Mutant: the API looks for the attestor in every case.
AnswerOncePerAttestor(fields) ==
    IF \E case \in Case : Recorded([fields EXCEPT !.caseId = case])
    THEN UNCHANGED attestations
    ELSE Attest(fields.caseId, fields.attestor)

\* The API records the attestation, or refuses an attestor it has for the case.
Answer(fields) ==
    IF Recorded(fields)
    THEN UNCHANGED attestations
    ELSE Attest(fields.caseId, fields.attestor)

\* 201, or 409.
Arrives ==
    /\ request = "travelling"
    /\ Answer(posted)
    /\ request' = IF attestations' = attestations THEN "refused" ELSE "recorded"
    /\ forgotten' = FALSE
    /\ UNCHANGED <<trustee, posted, late, result>>

ResultShown ==
    /\ request \in {"recorded", "refused"}
    /\ result' = request
    /\ request' = "none"
    /\ UNCHANGED <<attestations, trustee, posted, late, forgotten>>

\* "Connection failed": the answer is lost, or the request is, or the request is
\* still under way (bound: one such request at a time).
ConnectionFails ==
    /\ request # "none"
    /\ result' = "failed"
    /\ request' = "none"
    /\ \/ UNCHANGED late
       \/ request = "travelling" /\ late = Empty /\ late' = posted
    /\ UNCHANGED <<attestations, trustee, posted, forgotten>>

\* Nobody waits for this answer any more.
LateArrives ==
    /\ late # Empty
    /\ Answer(late)
    /\ late' = Empty
    /\ UNCHANGED <<trustee, request, posted, result, forgotten>>

ApiRestarts ==
    /\ ApiRestart
    /\ forgotten' = TRUE
    /\ UNCHANGED <<trustee, request, posted, late, result>>

TrusteeNext ==
    \/ \E case \in Case : EditField("caseId", case)
    \/ \E attestor \in Attestor : EditField("attestor", attestor)
    \/ HandleSubmitAttestation
    \/ Arrives
    \/ ResultShown
    \/ ConnectionFails
    \/ LateArrives
    \/ ApiRestarts

-----------------------------------------------------------------------------

\* An answer can be trusted: whether the page shows success or that the attestor
\* has already submitted, the attestation for the case it sent is on record,
\* however many requests and answers were lost or late before, unless the API
\* restarted.
AnsweredIsRecorded ==
    result \in {"recorded", "refused"} /\ ~forgotten => Recorded(posted)
=============================================================================
