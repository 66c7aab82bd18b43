----------------------------- MODULE VaultEnclave -----------------------------
(***************************************************************************)
(* The enclave: the sealed plan store, its keys and the quorum engine, as  *)
(* the handlers of enclave/internal/api/server.go call them.  Requests run *)
(* concurrently; the engine's read-write lock is held by the requests that *)
(* are between their first and last step.  The tables are on disk, the     *)
(* keys only in memory: every boot makes new ones.                         *)
(*                                                                         *)
(* A plan is what the engine reads of it.  An attestor is the text of its  *)
(* address, which is how the table compares them.                          *)
(***************************************************************************)
EXTENDS Naturals, FiniteSets

CONSTANTS Vault,     \* vault ids
          Attestor,  \* attestor addresses
          Type,      \* attestation types
          Plan,      \* plans owners submit
          Request,   \* bound: requests in progress at once
          MaxBoot,   \* bound on restarts
          MaxClock   \* bound on the wall clock, in the seconds results are stamped with

ASSUME EnclaveAssumption ==
    /\ Plan \subseteq [quorumThreshold : Nat, attestationTypes : SUBSET Type]
    /\ MaxBoot \in Nat \ {0}
    /\ MaxClock \in Nat

VARIABLES keys,         \* the keys in memory, named by the boot that made them
          sealedPlans,  \* table sealed_plans
          rows,         \* table vault_attestations
          results,      \* table quorum_results, rows with quorum_met = 1
          request,      \* what each request has read and has still to do
          clock

enclaveVars == <<keys, sealedPlans, rows, results, request, clock>>

None == [none |-> TRUE]

Row == [vault : Vault, attestor : Attestor, type : Type]

\* A signed result: who signed it, over which timestamp, and the threshold of the
\* plan it was evaluated against, which the signature does not show.
Signature == [signer : 1..MaxBoot, at : 0..MaxClock, required : Nat]

Idle == [step |-> "idle"]

InStep(steps) == {r \in Request : request[r].step \in steps}

\* The engine's lock: writers exclude everybody, readers exclude writers.
Locked == InStep({"insert", "evaluate", "sign"})

Writing == {r \in Locked : request[r].kind = "submit"}

RowsOf(v) == {row \in rows : row.vault = v}

\* GetPlan: a plan sealed by another boot does not decrypt.
Readable(v) == sealedPlans[v] # None /\ sealedPlans[v].sealedBy = keys

EnclaveInit ==
    /\ keys = 1
    /\ sealedPlans = [v \in Vault |-> None]
    /\ rows = {}
    /\ results = [v \in Vault |-> None]
    /\ request = [r \in Request |-> Idle]
    /\ clock = 0

-----------------------------------------------------------------------------

\* Mutant: the plan is written as it came.
StorePlanInClear(v, plan) ==
    /\ plan.quorumThreshold # 0
    /\ sealedPlans' = [sealedPlans EXCEPT ![v] = plan]
    /\ UNCHANGED <<keys, rows, results, request, clock>>

\* POST /vaults/{id}/plan, under the store's own lock, whatever the engine does.
StorePlan(v, plan) ==
    /\ plan.quorumThreshold # 0
    /\ sealedPlans' = [sealedPlans EXCEPT ![v] = [sealedBy |-> keys, plan |-> plan]]
    /\ UNCHANGED <<keys, rows, results, request, clock>>

\* POST /vaults/{id}/attestations: the write lock, the plan, the type check.
BeginSubmit(r, v, attestor, type) ==
    /\ request[r] = Idle
    /\ Locked = {}
    /\ Readable(v)
    /\ type \in sealedPlans[v].plan.attestationTypes
    /\ request' = [request EXCEPT ![r] =
           [step |-> "insert", kind |-> "submit", vault |-> v,
            required |-> sealedPlans[v].plan.quorumThreshold,
            row |-> [vault |-> v, attestor |-> attestor, type |-> type]]]
    /\ UNCHANGED <<keys, sealedPlans, rows, results, clock>>

\* INSERT ... ON CONFLICT(vault_id, attestor_address) DO NOTHING.
Insert(r) ==
    LET new == request[r].row IN
    /\ request[r].step = "insert"
    /\ rows' = IF \E row \in RowsOf(new.vault) : row.attestor = new.attestor
               THEN rows
               ELSE rows \cup {new}
    /\ request' = [request EXCEPT ![r] =
           [step |-> "evaluate", kind |-> "submit", vault |-> new.vault,
            required |-> request[r].required]]
    /\ UNCHANGED <<keys, sealedPlans, results, clock>>

\* GET /vaults/{id}/quorum-status ("status") and the first half of
\* /quorum-result ("result"): the read lock and the plan.
BeginStatus(r, v, kind) ==
    /\ request[r] = Idle
    /\ Writing = {}
    /\ Readable(v)
    /\ request' = [request EXCEPT ![r] =
           [step |-> "evaluate", kind |-> kind, vault |-> v,
            required |-> sealedPlans[v].plan.quorumThreshold]]
    /\ UNCHANGED <<keys, sealedPlans, rows, results, clock>>

\* What a request does once the engine has evaluated quorum at a given time: the
\* payload is fetched in a second critical section, other answers are complete.
Evaluated(r, at) ==
    IF request[r].kind = "result"
    THEN [step |-> "fetch", kind |-> "result", vault |-> request[r].vault, evaluatedAt |-> at]
    ELSE Idle

\* evaluateQuorum: count the rows; with quorum, look for a signed result.
Evaluate(r) ==
    LET v == request[r].vault
        met == Cardinality(RowsOf(v)) >= request[r].required
    IN  /\ request[r].step = "evaluate"
        /\ request' = [request EXCEPT ![r] =
               IF ~met THEN Idle
               ELSE IF results[v] # None THEN Evaluated(r, clock)
               ELSE [step |-> "sign", kind |-> request[r].kind, vault |-> v,
                     required |-> request[r].required, at |-> clock]]
        /\ UNCHANGED <<keys, sealedPlans, rows, results, clock>>

\* No signed result was found: sign one and upsert it, in a read request too.
Sign(r) ==
    LET signature == [signer |-> keys, at |-> request[r].at,
                      required |-> request[r].required]
    IN  /\ request[r].step = "sign"
        /\ results' = [results EXCEPT ![request[r].vault] = signature]
        /\ request' = [request EXCEPT ![r] = Evaluated(r, request[r].at)]
        /\ UNCHANGED <<keys, sealedPlans, rows, clock>>

\* Mutant: wait for a result instead of answering that there is none.
FetchWaiting(r) ==
    LET v == request[r].vault IN
    /\ request[r].step = "fetch"
    /\ Writing = {}
    /\ results[v] # None
    /\ request' = [request EXCEPT ![r] =
           [step |-> "answered", vault |-> v, quorumMet |-> TRUE,
            signature |-> results[v], evaluatedAt |-> request[r].evaluatedAt]]
    /\ UNCHANGED <<keys, sealedPlans, rows, results, clock>>

\* GetSignedResult, after the status was read and the lock let go: the payload, or
\* an error when the result is gone.
Fetch(r) ==
    LET v == request[r].vault IN
    /\ request[r].step = "fetch"
    /\ Writing = {}
    /\ request' = [request EXCEPT ![r] =
           IF results[v] = None THEN Idle
           ELSE [step |-> "answered", vault |-> v, quorumMet |-> TRUE,
                 signature |-> results[v], evaluatedAt |-> request[r].evaluatedAt]]
    /\ UNCHANGED <<keys, sealedPlans, rows, results, clock>>

\* The response is sent.
Respond(r) ==
    /\ request[r].step = "answered"
    /\ request' = [request EXCEPT ![r] = Idle]
    /\ UNCHANGED <<keys, sealedPlans, rows, results, clock>>

\* Mutant: the signed result survives the attestations.
ResetAttestationsOnly(v) ==
    /\ Locked = {}
    /\ rows' = rows \ RowsOf(v)
    /\ UNCHANGED <<keys, sealedPlans, results, request, clock>>

\* Mutant: the reset does not take the lock.
ResetWithoutLock(v) ==
    /\ rows' = rows \ RowsOf(v)
    /\ results' = [results EXCEPT ![v] = None]
    /\ UNCHANGED <<keys, sealedPlans, request, clock>>

\* POST /vaults/{id}/reset: both tables in one transaction, under the write lock.
ResetQuorum(v) ==
    /\ Locked = {}
    /\ rows' = rows \ RowsOf(v)
    /\ results' = [results EXCEPT ![v] = None]
    /\ UNCHANGED <<keys, sealedPlans, request, clock>>

\* The process dies at any point and boots with fresh keys over the same tables.
Restart ==
    /\ keys < MaxBoot
    /\ keys' = keys + 1
    /\ request' = [r \in Request |-> Idle]
    /\ UNCHANGED <<sealedPlans, rows, results, clock>>

TickClock ==
    /\ clock < MaxClock
    /\ clock' = clock + 1
    /\ UNCHANGED <<keys, sealedPlans, rows, results, request>>

Progress(r) == Insert(r) \/ Evaluate(r) \/ Sign(r) \/ Fetch(r) \/ Respond(r)

EnclaveNext ==
    \/ \E v \in Vault, plan \in Plan : StorePlan(v, plan)
    \/ \E r \in Request, v \in Vault, attestor \in Attestor, type \in Type :
           BeginSubmit(r, v, attestor, type)
    \/ \E r \in Request, v \in Vault, kind \in {"status", "result"} : BeginStatus(r, v, kind)
    \/ \E r \in Request : Progress(r)
    \/ \E v \in Vault : ResetQuorum(v)
    \/ Restart
    \/ TickClock

EnclaveSpec == EnclaveInit /\ [][EnclaveNext]_enclaveVars

\* Every goroutine is scheduled; Go's RWMutex lets a waiting reader in before the
\* next writer, so a request between its two critical sections is not starved.
FairEnclaveSpec == EnclaveSpec /\ \A r \in Request : SF_enclaveVars(Progress(r))

-----------------------------------------------------------------------------

EnclaveTypeOK ==
    /\ keys \in 1..MaxBoot
    /\ sealedPlans \in [Vault -> {None} \cup [sealedBy : 1..MaxBoot, plan : Plan]]
    /\ rows \subseteq Row
    /\ results \in [Vault -> {None} \cup Signature]
    /\ clock \in 0..MaxClock

\* A stored result stands on attestations that are still there: no reset, crash or
\* concurrent evaluation leaves a signed quorum with fewer attestors than the plan
\* it was evaluated against requires, each attestor counted once.
ResultHasAttestors ==
    \A v \in Vault :
        results[v] # None =>
            Cardinality({row.attestor : row \in RowsOf(v)}) >= results[v].required

\* Readers may hold the lock together, but nothing changes the attestations under
\* a request that is evaluating them.
EvaluationIsStable ==
    [][\A r \in Request :
          /\ request[r].step \in {"evaluate", "sign"}
          /\ request'[r].step # "idle"
          => {row \in rows' : row.vault = request[r].vault} = RowsOf(request[r].vault)]_enclaveVars

\* Every request is answered, whatever plans, resets and restarts come between.
RequestsAnswered ==
    \A r \in Request : request[r].step # "idle" ~> request[r].step = "idle"
=============================================================================
