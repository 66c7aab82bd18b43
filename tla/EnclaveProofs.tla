---------------------------- MODULE EnclaveProofs ----------------------------
(***************************************************************************)
(* Theorems about the enclave's quorum engine, for any number of vaults,   *)
(* attestors, plans, concurrent requests and restarts.                     *)
(***************************************************************************)
EXTENDS VaultEnclave, FiniteSetTheorems, TLAPS

\* The attestors with a row for a vault.
AttestorsOf(v) == {row.attestor : row \in RowsOf(v)}

-----------------------------------------------------------------------------
(* The inductive invariant.                                                *)

\* What each step of a request has to work with.
RequestTyped(r) ==
    LET q == request[r] IN
    /\ q.step \in {"idle", "insert", "evaluate", "sign", "fetch", "answered"}
    /\ q.step = "insert" => q.row \in Row /\ q.vault = q.row.vault /\ q.kind = "submit"
    /\ q.step \in {"insert", "evaluate", "sign"} => q.vault \in Vault /\ q.required \in Nat
    /\ q.step = "sign" => q.at \in 0..MaxClock
    /\ q.step = "fetch" => q.vault \in Vault

\* A result about to be signed stands on attestations already.
SignsForQuorum(r) ==
    request[r].step = "sign" =>
        Cardinality(AttestorsOf(request[r].vault)) >= request[r].required

\* The primary key of the table: one row for an attestor of a vault.
OneRowEach ==
    \A x, y \in rows : x.vault = y.vault /\ x.attestor = y.attestor => x = y

\* Whoever writes holds the lock alone.
WriterAlone ==
    \A r, s \in Request :
        r # s /\ r \in Locked /\ s \in Locked => request[r].kind # "submit"

EInv ==
    /\ EnclaveTypeOK
    /\ IsFiniteSet(rows)
    /\ OneRowEach
    /\ DOMAIN request = Request
    /\ \A r \in Request : RequestTyped(r) /\ SignsForQuorum(r)
    /\ WriterAlone
    /\ ResultHasAttestors

-----------------------------------------------------------------------------
(* Counting attestations.                                                  *)

\* Where each attestor has one row, the rows of a vault are as many as its attestors.
LEMMA CountOfRows ==
    ASSUME NEW table, IsFiniteSet(table), NEW v,
           \A x, y \in table : x.vault = y.vault /\ x.attestor = y.attestor => x = y
    PROVE  LET own == {row \in table : row.vault = v}
               attestors == {row.attestor : row \in own}
           IN  /\ IsFiniteSet(attestors)
               /\ Cardinality(attestors) = Cardinality(own)
<1> DEFINE own == {row \in table : row.vault = v}
           attestors == {row.attestor : row \in own}
           f == [row \in own |-> row.attestor]
<1>1. IsFiniteSet(own)
  BY FS_Subset
<1>2. /\ f \in [own -> attestors]
      /\ \A x, y \in own : f[x] = f[y] => x = y
      /\ \A a \in attestors : \E x \in own : f[x] = a
  OBVIOUS
<1>3. ExistsBijection(own, attestors)
  <2> HIDE DEF f, own, attestors
  <2>1. f \in Bijection(own, attestors)
    BY <1>2 DEF Bijection, Injection, IsInjective, Surjection
  <2>2. QED
    BY <2>1 DEF ExistsBijection
<1>4. QED
  <2> HIDE DEF own, attestors
  <2>1. IsFiniteSet(attestors) /\ Cardinality(attestors) = Cardinality(own)
    BY <1>1, <1>3, FS_Bijection
  <2>2. QED
    BY <2>1 DEF own, attestors

\* What evaluateQuorum counts are different attestors.
LEMMA RowsCountAttestors ==
    ASSUME IsFiniteSet(rows), OneRowEach, NEW v
    PROVE  /\ IsFiniteSet(AttestorsOf(v))
           /\ Cardinality(AttestorsOf(v)) = Cardinality(RowsOf(v))
BY CountOfRows DEF AttestorsOf, RowsOf, OneRowEach

\* Attestors are not uncounted while rows are only added.
LEMMA MoreRows ==
    ASSUME IsFiniteSet(rows'), OneRowEach', rows \subseteq rows', NEW v
    PROVE  Cardinality(AttestorsOf(v)) <= Cardinality(AttestorsOf(v)')
<1>1. IsFiniteSet(AttestorsOf(v)')
  BY CountOfRows DEF AttestorsOf, RowsOf, OneRowEach
<1>2. AttestorsOf(v) \subseteq AttestorsOf(v)'
  BY DEF AttestorsOf, RowsOf
<1>3. QED
  BY <1>1, <1>2, FS_Subset

-----------------------------------------------------------------------------
(* The invariant is inductive.                                             *)

\* The empty tables satisfy the invariant.
LEMMA EnclaveInitHolds == EnclaveInit => EInv
<1> SUFFICES ASSUME EnclaveInit PROVE EInv
  OBVIOUS
<1>1. EnclaveTypeOK
  BY EnclaveAssumption DEF EnclaveInit, EnclaveTypeOK
<1>2. IsFiniteSet(rows) /\ OneRowEach
  BY FS_EmptySet DEF EnclaveInit, OneRowEach
<1>3. /\ DOMAIN request = Request
      /\ \A r \in Request : request[r] = Idle /\ request[r].step = "idle"
  BY DEF EnclaveInit, Idle
<1>4. /\ \A r \in Request : RequestTyped(r) /\ SignsForQuorum(r)
      /\ WriterAlone
  BY <1>3 DEF RequestTyped, SignsForQuorum, WriterAlone, Locked, InStep
<1>5. ResultHasAttestors
  BY DEF EnclaveInit, ResultHasAttestors
<1>6. QED
  BY <1>1, <1>2, <1>3, <1>4, <1>5 DEF EInv

\* What a step does to one request, leaving the others where they are.
Becomes(r, q) == request' = [request EXCEPT ![r] = q]

\* A request that goes on to a step with the right fields keeps all requests typed.
LEMMA BecomesTyped ==
    ASSUME EInv, NEW r \in Request, NEW q, Becomes(r, q),
           q.step \in {"idle", "insert", "evaluate", "sign", "fetch", "answered"},
           q.step = "insert" => q.row \in Row /\ q.vault = q.row.vault /\ q.kind = "submit",
           q.step \in {"insert", "evaluate", "sign"} => q.vault \in Vault /\ q.required \in Nat,
           q.step = "sign" => q.at \in 0..MaxClock,
           q.step = "fetch" => q.vault \in Vault
    PROVE  /\ DOMAIN request' = Request
           /\ request'[r] = q
           /\ \A s \in Request \ {r} : request'[s] = request[s]
           /\ \A s \in Request : RequestTyped(s)'
<1>1. /\ DOMAIN request' = Request
      /\ request'[r] = q
      /\ \A s \in Request \ {r} : request'[s] = request[s]
  BY DEF EInv, Becomes
<1>2. RequestTyped(r)'
  BY <1>1 DEF RequestTyped
<1>3. ASSUME NEW s \in Request \ {r} PROVE RequestTyped(s)'
  BY <1>1, <1>3 DEF EInv, RequestTyped
<1>4. QED
  BY <1>1, <1>2, <1>3

\* A request that leaves the lock, keeps it, or takes it when it may, leaves the
\* writer alone.
LEMMA BecomesAlone ==
    ASSUME EInv, NEW r \in Request, NEW q,
           request'[r] = q, \A s \in Request \ {r} : request'[s] = request[s],
           \/ q.step \notin {"insert", "evaluate", "sign"}
           \/ r \in Locked /\ q.kind = request[r].kind
           \/ Locked = {}
           \/ Writing = {} /\ q.kind # "submit"
    PROVE  WriterAlone'
<1>1. Locked' \subseteq Locked \cup {r}
  BY DEF Locked, InStep
<1>2. r \in Locked' => q.step \in {"insert", "evaluate", "sign"}
  BY DEF Locked, InStep
<1>3. Locked \subseteq Request
  BY DEF Locked, InStep
<1>4. SUFFICES ASSUME NEW s \in Request, NEW t \in Request,
                      s # t, s \in Locked', t \in Locked'
               PROVE  request'[s].kind # "submit"
  BY DEF WriterAlone
<1>5. CASE s # r /\ t # r
  BY <1>1, <1>4, <1>5 DEF EInv, WriterAlone
<1>6. CASE s = r
  BY <1>1, <1>2, <1>3, <1>4, <1>6 DEF EInv, WriterAlone, Writing
<1>7. CASE t = r
  BY <1>1, <1>2, <1>3, <1>4, <1>7 DEF EInv, WriterAlone, Writing
<1>8. QED
  BY <1>5, <1>6, <1>7

\* The requests that change neither attestations nor results.
LEMMA BecomesHolds ==
    ASSUME EInv, NEW r \in Request, NEW q, Becomes(r, q),
           q.step \in {"idle", "insert", "evaluate", "sign", "fetch", "answered"},
           q.step = "insert" => q.row \in Row /\ q.vault = q.row.vault /\ q.kind = "submit",
           q.step \in {"insert", "evaluate", "sign"} => q.vault \in Vault /\ q.required \in Nat,
           q.step = "sign" => q.at \in 0..MaxClock,
           q.step = "fetch" => q.vault \in Vault,
           \/ q.step \notin {"insert", "evaluate", "sign"}
           \/ r \in Locked /\ q.kind = request[r].kind
           \/ Locked = {}
           \/ Writing = {} /\ q.kind # "submit",
           q.step = "sign" => Cardinality(AttestorsOf(q.vault)) >= q.required,
           UNCHANGED <<keys, sealedPlans, rows, results, clock>>
    PROVE  EInv'
<1>1. /\ DOMAIN request' = Request
      /\ request'[r] = q
      /\ \A s \in Request \ {r} : request'[s] = request[s]
      /\ \A s \in Request : RequestTyped(s)'
  BY BecomesTyped
<1>2. WriterAlone'
  BY <1>1, BecomesAlone
<1>3. ASSUME NEW s \in Request PROVE SignsForQuorum(s)'
  <2>1. \A v : AttestorsOf(v)' = AttestorsOf(v)
    BY DEF AttestorsOf, RowsOf
  <2>2. CASE s = r
    BY <1>1, <2>1, <2>2 DEF SignsForQuorum
  <2>3. CASE s # r
    BY <1>1, <2>1, <2>3 DEF EInv, SignsForQuorum
  <2>4. QED
    BY <2>2, <2>3
<1>4. EnclaveTypeOK' /\ IsFiniteSet(rows') /\ OneRowEach' /\ ResultHasAttestors'
  BY DEF EInv, EnclaveTypeOK, OneRowEach, ResultHasAttestors, RowsOf
<1>5. QED
  BY <1>1, <1>2, <1>3, <1>4 DEF EInv

\* Taking the lock and reading the plan changes neither table.
LEMMA BeginHolds ==
    ASSUME EInv, NEW r \in Request, NEW v \in Vault,
           \/ \E attestor \in Attestor, type \in Type : BeginSubmit(r, v, attestor, type)
           \/ \E kind \in {"status", "result"} : BeginStatus(r, v, kind)
    PROVE  EInv'
<1>1. Readable(v) => sealedPlans[v].plan.quorumThreshold \in Nat
  BY EnclaveAssumption DEF Readable, EInv, EnclaveTypeOK
<1>2. ASSUME NEW attestor \in Attestor, NEW type \in Type, BeginSubmit(r, v, attestor, type)
      PROVE  EInv'
  <2> DEFINE row == [vault |-> v, attestor |-> attestor, type |-> type]
             q == [step |-> "insert", kind |-> "submit", vault |-> v,
                   required |-> sealedPlans[v].plan.quorumThreshold, row |-> row]
  <2>1. /\ Becomes(r, q) /\ Locked = {} /\ Readable(v)
        /\ UNCHANGED <<keys, sealedPlans, rows, results, clock>>
    BY <1>2 DEF BeginSubmit, Becomes
  <2>2. row \in Row /\ row.vault = v
    BY DEF Row
  <2>3. /\ q.step = "insert" /\ q.kind = "submit" /\ q.vault = v /\ q.row = row
        /\ q.required \in Nat
    BY <1>1, <2>1
  <2> HIDE DEF q
  <2>4. QED
    BY <2>1, <2>2, <2>3, BecomesHolds
<1>3. ASSUME NEW kind \in {"status", "result"}, BeginStatus(r, v, kind)
      PROVE  EInv'
  <2> DEFINE q == [step |-> "evaluate", kind |-> kind, vault |-> v,
                   required |-> sealedPlans[v].plan.quorumThreshold]
  <2>1. /\ Becomes(r, q) /\ Writing = {} /\ Readable(v)
        /\ UNCHANGED <<keys, sealedPlans, rows, results, clock>>
    BY <1>3 DEF BeginStatus, Becomes
  <2>2. /\ q.step = "evaluate" /\ q.kind # "submit" /\ q.vault = v /\ q.required \in Nat
    BY <1>1, <2>1
  <2> HIDE DEF q
  <2>3. QED
    BY <2>1, <2>2, BecomesHolds
<1>4. QED
  BY <1>2, <1>3

\* Evaluation hands on to signing only when the attestors are there.
LEMMA EvaluateHolds ==
    ASSUME EInv, NEW r \in Request, Evaluate(r) \/ Fetch(r) \/ Respond(r)
    PROVE  EInv'
<1> DEFINE v == request[r].vault
           idle == Becomes(r, Idle)
           fetch == Becomes(r, [step |-> "fetch", kind |-> "result", vault |-> v,
                                evaluatedAt |-> clock])
           sign == /\ Becomes(r, [step |-> "sign", kind |-> request[r].kind, vault |-> v,
                                  required |-> request[r].required, at |-> clock])
                   /\ Cardinality(RowsOf(v)) >= request[r].required
           answered == Becomes(r, [step |-> "answered", vault |-> v, quorumMet |-> TRUE,
                                   signature |-> results[v],
                                   evaluatedAt |-> request[r].evaluatedAt])
<1>1. UNCHANGED <<keys, sealedPlans, rows, results, clock>>
  BY DEF Evaluate, Fetch, Respond
<1>2. RequestTyped(r) /\ clock \in 0..MaxClock
  BY DEF EInv, EnclaveTypeOK
<1>3. CASE idle
  <2>1. Idle.step = "idle"
    BY DEF Idle
  <2>2. QED
    BY <1>1, <1>3, <2>1, BecomesHolds
<1>4. CASE fetch /\ request[r].step = "evaluate"
  <2> DEFINE q == [step |-> "fetch", kind |-> "result", vault |-> v, evaluatedAt |-> clock]
  <2>1. Becomes(r, q) /\ q.step = "fetch" /\ q.vault = v /\ v \in Vault
    BY <1>2, <1>4 DEF RequestTyped
  <2> HIDE DEF q, v
  <2>2. QED
    BY <1>1, <2>1, BecomesHolds
<1>5. CASE sign /\ request[r].step = "evaluate"
  <2> DEFINE q == [step |-> "sign", kind |-> request[r].kind, vault |-> v,
                   required |-> request[r].required, at |-> clock]
  <2>1. /\ Becomes(r, q) /\ q.step = "sign" /\ q.kind = request[r].kind
        /\ q.vault = v /\ v \in Vault /\ q.at \in 0..MaxClock
        /\ q.required = request[r].required /\ q.required \in Nat
    BY <1>2, <1>5 DEF RequestTyped
  <2>2. r \in Locked
    BY <1>5 DEF Locked, InStep
  <2>3. Cardinality(AttestorsOf(v)) >= request[r].required
    BY <1>5, RowsCountAttestors DEF EInv
  <2> HIDE DEF q, v
  <2>4. QED
    BY <1>1, <2>1, <2>2, <2>3, BecomesHolds
<1>6. CASE answered
  <2> DEFINE q == [step |-> "answered", vault |-> v, quorumMet |-> TRUE,
                   signature |-> results[v], evaluatedAt |-> request[r].evaluatedAt]
  <2>1. Becomes(r, q) /\ q.step = "answered"
    BY <1>6
  <2> HIDE DEF q
  <2>2. QED
    BY <1>1, <2>1, BecomesHolds
<1>7. Evaluate(r) => (idle \/ fetch \/ sign) /\ request[r].step = "evaluate"
  BY DEF Evaluate, Evaluated, Becomes
<1>8. Fetch(r) \/ Respond(r) => idle \/ answered
  BY DEF Fetch, Respond, Becomes
<1> HIDE DEF idle, fetch, sign, answered
<1>9. QED
  BY <1>3, <1>4, <1>5, <1>6, <1>7, <1>8

\* A row is added for an attestor who has none yet.
LEMMA InsertHolds ==
    ASSUME EInv, NEW r \in Request, Insert(r)
    PROVE  EInv'
<1> DEFINE new == request[r].row
           q == [step |-> "evaluate", kind |-> "submit", vault |-> new.vault,
                 required |-> request[r].required]
<1>1. /\ Becomes(r, q) /\ request[r].step = "insert"
      /\ UNCHANGED <<keys, sealedPlans, results, clock>>
  BY DEF Insert, Becomes
<1>2. /\ new \in Row /\ request[r].kind = "submit"
      /\ new.vault \in Vault /\ request[r].required \in Nat
  BY <1>1 DEF EInv, RequestTyped
<1>3. /\ q.step = "evaluate" /\ q.kind = "submit" /\ q.vault = new.vault
      /\ q.required = request[r].required
  OBVIOUS
<1>4. \/ rows' = rows
      \/ /\ rows' = rows \cup {new}
         /\ \A row \in rows : row.vault = new.vault => row.attestor # new.attestor
  BY DEF Insert, RowsOf
<1> HIDE DEF q, new
<1>5. rows \subseteq rows' /\ IsFiniteSet(rows') /\ OneRowEach' /\ rows' \subseteq Row
  <2>1. IsFiniteSet(rows \cup {new})
    BY FS_AddElement DEF EInv
  <2>2. OneRowEach'
    BY <1>4 DEF EInv, OneRowEach
  <2>3. QED
    BY <1>2, <1>4, <2>1, <2>2 DEF EInv, EnclaveTypeOK
<1>6. /\ DOMAIN request' = Request
      /\ request'[r] = q
      /\ \A s \in Request \ {r} : request'[s] = request[s]
      /\ \A s \in Request : RequestTyped(s)'
  BY <1>1, <1>2, <1>3, BecomesTyped
<1>7. WriterAlone'
  <2>1. r \in Locked
    BY <1>1 DEF Locked, InStep
  <2>2. QED
    BY <1>2, <1>3, <1>6, <2>1, BecomesAlone
<1>8. EnclaveTypeOK'
  BY <1>1, <1>5 DEF EInv, EnclaveTypeOK
<1>9. ASSUME NEW v
      PROVE  /\ Cardinality(AttestorsOf(v)) <= Cardinality(AttestorsOf(v)')
             /\ Cardinality(AttestorsOf(v)) \in Nat /\ Cardinality(AttestorsOf(v)') \in Nat
  <2>1. Cardinality(AttestorsOf(v)) <= Cardinality(AttestorsOf(v)')
    BY <1>5, MoreRows
  <2>2. IsFiniteSet(AttestorsOf(v))
    BY RowsCountAttestors DEF EInv
  <2>3. IsFiniteSet(AttestorsOf(v)')
    BY <1>5, CountOfRows DEF AttestorsOf, RowsOf, OneRowEach
  <2>4. QED
    BY <2>1, <2>2, <2>3, FS_CardinalityType
<1>10. ASSUME NEW s \in Request PROVE SignsForQuorum(s)'
  <2>1. CASE s = r
    BY <1>3, <1>6, <2>1 DEF SignsForQuorum
  <2>2. CASE s # r
    <3> SUFFICES ASSUME request[s].step = "sign", NEW w, w = request[s].vault
                 PROVE  Cardinality(AttestorsOf(w)') >= request[s].required
      BY <1>6, <2>2 DEF SignsForQuorum, AttestorsOf, RowsOf
    <3>1. /\ Cardinality(AttestorsOf(w)) >= request[s].required
          /\ request[s].required \in Nat
      BY DEF EInv, SignsForQuorum, RequestTyped
    <3>2. QED
      BY <1>9, <3>1
  <2>3. QED
    BY <2>1, <2>2
<1>11. ResultHasAttestors'
  <2> SUFFICES ASSUME NEW v \in Vault, results[v] # None
               PROVE  Cardinality(AttestorsOf(v)') >= results[v].required
    BY <1>1 DEF ResultHasAttestors, AttestorsOf
  <2>1. /\ Cardinality(AttestorsOf(v)) >= results[v].required
        /\ results[v].required \in Nat
    BY DEF EInv, ResultHasAttestors, AttestorsOf, EnclaveTypeOK, Signature
  <2>2. QED
    BY <1>9, <2>1
<1>12. QED
  BY <1>5, <1>6, <1>7, <1>8, <1>10, <1>11 DEF EInv

\* The result that is stored is the one the attestors were counted for.
LEMMA SignHolds ==
    ASSUME EInv, NEW r \in Request, Sign(r)
    PROVE  EInv'
<1> DEFINE v == request[r].vault
           signature == [signer |-> keys, at |-> request[r].at,
                         required |-> request[r].required]
           q == Evaluated(r, request[r].at)
<1>1. /\ Becomes(r, q) /\ request[r].step = "sign"
      /\ results' = [results EXCEPT ![v] = signature]
      /\ UNCHANGED <<keys, sealedPlans, rows, clock>>
  BY DEF Sign, Becomes
<1>2. /\ v \in Vault /\ request[r].required \in Nat /\ request[r].at \in 0..MaxClock
      /\ Cardinality(AttestorsOf(v)) >= request[r].required
  BY <1>1 DEF EInv, RequestTyped, SignsForQuorum
<1>3. q.step \in {"idle", "fetch"} /\ (q.step = "fetch" => q.vault = v)
  BY DEF Evaluated, Idle
<1>4. signature \in Signature /\ signature.required = request[r].required
  BY <1>2 DEF Signature, EInv, EnclaveTypeOK
<1> HIDE DEF q, signature
<1>5. /\ DOMAIN request' = Request
      /\ request'[r] = q
      /\ \A s \in Request \ {r} : request'[s] = request[s]
      /\ \A s \in Request : RequestTyped(s)'
  BY <1>1, <1>2, <1>3, BecomesTyped
<1>6. WriterAlone'
  BY <1>3, <1>5, BecomesAlone
<1>7. EnclaveTypeOK' /\ IsFiniteSet(rows') /\ OneRowEach'
  BY <1>1, <1>2, <1>4 DEF EInv, EnclaveTypeOK, OneRowEach
<1>8. \A w : AttestorsOf(w)' = AttestorsOf(w)
  BY <1>1 DEF AttestorsOf, RowsOf
<1>9. ASSUME NEW s \in Request PROVE SignsForQuorum(s)'
  <2>1. CASE s = r
    BY <1>3, <1>5, <2>1 DEF SignsForQuorum
  <2>2. CASE s # r
    BY <1>5, <1>8, <2>2 DEF EInv, SignsForQuorum
  <2>3. QED
    BY <2>1, <2>2
<1>10. ResultHasAttestors'
  <2> SUFFICES ASSUME NEW w \in Vault, results'[w] # None
               PROVE  Cardinality(AttestorsOf(w)) >= results'[w].required
    BY <1>8 DEF ResultHasAttestors, AttestorsOf
  <2>1. CASE w = v
    BY <1>1, <1>2, <1>4, <2>1 DEF EInv, EnclaveTypeOK
  <2>2. CASE w # v
    BY <1>1, <2>2 DEF EInv, ResultHasAttestors, AttestorsOf
  <2>3. QED
    BY <2>1, <2>2
<1>11. QED
  BY <1>5, <1>6, <1>7, <1>9, <1>10 DEF EInv

\* A reset takes the results with the attestations, while nobody evaluates.
LEMMA ResetHolds ==
    ASSUME EInv, NEW v \in Vault, ResetQuorum(v)
    PROVE  EInv'
<1>1. /\ Locked = {} /\ rows' = rows \ RowsOf(v)
      /\ results' = [results EXCEPT ![v] = None]
      /\ UNCHANGED <<keys, sealedPlans, request, clock>>
  BY DEF ResetQuorum
<1>2. IsFiniteSet(rows') /\ OneRowEach' /\ EnclaveTypeOK'
  <2>1. IsFiniteSet(rows')
    BY <1>1, FS_Subset DEF EInv
  <2>2. QED
    BY <1>1, <2>1 DEF EInv, OneRowEach, EnclaveTypeOK
<1>3. \A r \in Request : RequestTyped(r)' /\ SignsForQuorum(r)'
  <2>1. \A r \in Request : request[r].step # "sign"
    BY <1>1 DEF Locked, InStep
  <2>2. QED
    BY <1>1, <2>1 DEF EInv, RequestTyped, SignsForQuorum
<1>4. WriterAlone' /\ DOMAIN request' = Request
  BY <1>1 DEF EInv, WriterAlone, Locked, InStep
<1>5. ResultHasAttestors'
  <2> SUFFICES ASSUME NEW w \in Vault, results'[w] # None
               PROVE  Cardinality(AttestorsOf(w)') >= results'[w].required
    BY DEF ResultHasAttestors, AttestorsOf
  <2>1. w # v /\ results'[w] = results[w]
    BY <1>1 DEF EInv, EnclaveTypeOK
  <2>2. RowsOf(w)' = RowsOf(w)
    BY <1>1, <2>1 DEF RowsOf
  <2>3. QED
    BY <2>1, <2>2 DEF EInv, ResultHasAttestors, AttestorsOf
<1>6. QED
  BY <1>2, <1>3, <1>4, <1>5 DEF EInv

\* Plans, restarts and the clock leave both tables alone.
LEMMA SurroundingsHold ==
    ASSUME EInv,
           \/ \E v \in Vault, plan \in Plan : StorePlan(v, plan)
           \/ Restart \/ TickClock \/ UNCHANGED enclaveVars
    PROVE  EInv'
<1>1. rows' = rows /\ results' = results
  BY DEF StorePlan, Restart, TickClock, enclaveVars
<1>2. EnclaveTypeOK'
  <2>1. ASSUME NEW v \in Vault, NEW plan \in Plan, StorePlan(v, plan) PROVE EnclaveTypeOK'
    BY <2>1 DEF EInv, EnclaveTypeOK, StorePlan
  <2>2. CASE Restart \/ TickClock \/ UNCHANGED enclaveVars
    BY <2>2, EnclaveAssumption DEF EInv, EnclaveTypeOK, Restart, TickClock, enclaveVars
  <2>3. QED
    BY <2>1, <2>2
<1>3. IsFiniteSet(rows') /\ OneRowEach' /\ ResultHasAttestors'
  BY <1>1 DEF EInv, OneRowEach, ResultHasAttestors, RowsOf
<1>4. /\ DOMAIN request' = Request /\ WriterAlone'
      /\ \A r \in Request : RequestTyped(r)' /\ SignsForQuorum(r)'
  <2>1. CASE request' = request
    BY <1>1, <2>1 DEF EInv, WriterAlone, Locked, InStep, RequestTyped, SignsForQuorum,
                      AttestorsOf, RowsOf
  <2>2. CASE Restart
    <3>1. DOMAIN request' = Request /\ \A r \in Request : request'[r].step = "idle"
      BY <2>2 DEF Restart, Idle
    <3>2. QED
      BY <3>1 DEF WriterAlone, Locked, InStep, RequestTyped, SignsForQuorum
  <2>3. QED
    BY <2>1, <2>2 DEF StorePlan, TickClock, enclaveVars
<1>5. QED
  BY <1>1, <1>2, <1>3, <1>4 DEF EInv

\* Every step of the enclave preserves the invariant.
LEMMA EnclaveNextHolds == EInv /\ [EnclaveNext]_enclaveVars => EInv'
BY BeginHolds, EvaluateHolds, InsertHolds, SignHolds, ResetHolds, SurroundingsHold
DEF EnclaveNext, Progress

-----------------------------------------------------------------------------

\* Every state the enclave reaches satisfies the inductive invariant.
THEOREM EnclaveInvariantHolds == EnclaveSpec => []EInv
<1>1. QED
  BY EnclaveInitHolds, EnclaveNextHolds, PTL DEF EnclaveSpec

\* The enclave's plans, rows, results and requests keep their types.
THEOREM EnclaveTypeCorrect == EnclaveSpec => []EnclaveTypeOK
<1>1. EInv => EnclaveTypeOK
  BY DEF EInv
<1>2. QED
  BY <1>1, EnclaveInvariantHolds, PTL

\* No signed quorum outlives the attestations it was signed for, under any
\* interleaving of requests, resets and crashes.
THEOREM ResultsAreBacked == EnclaveSpec => []ResultHasAttestors
<1>1. EInv => ResultHasAttestors
  BY DEF EInv
<1>2. QED
  BY <1>1, EnclaveInvariantHolds, PTL

\* What an evaluation counted is still there when it signs.
THEOREM EvaluationStays == EnclaveSpec => EvaluationIsStable
<1> DEFINE Stable ==
        \A r \in Request :
          /\ request[r].step \in {"evaluate", "sign"}
          /\ request'[r].step # "idle"
          => {row \in rows' : row.vault = request[r].vault} = RowsOf(request[r].vault)
<1>1. ASSUME EInv, [EnclaveNext]_enclaveVars PROVE Stable
  <2> SUFFICES ASSUME NEW r \in Request, request[r].step \in {"evaluate", "sign"}
               PROVE  rows' = rows
    BY DEF RowsOf
  <2>1. r \in Locked
    BY DEF Locked, InStep
  <2>2. ASSUME NEW s \in Request, Insert(s) PROVE FALSE
    <3>1. s # r /\ s \in Locked /\ request[s].kind = "submit"
      BY <1>1, <2>2 DEF Insert, EInv, RequestTyped, Locked, InStep
    <3>2. QED
      BY <1>1, <2>1, <3>1 DEF EInv, WriterAlone
  <2>3. ASSUME NEW v \in Vault, ResetQuorum(v) PROVE FALSE
    BY <2>1, <2>3 DEF ResetQuorum
  <2>4. QED
    BY <1>1, <2>2, <2>3
    DEF EnclaveNext, Progress, StorePlan, BeginSubmit, BeginStatus, Evaluate, Sign, Fetch,
        Respond, Restart, TickClock, enclaveVars
<1>2. EInv /\ [EnclaveNext]_enclaveVars => [Stable]_enclaveVars
  BY <1>1
<1>3. QED
  BY <1>2, EnclaveInvariantHolds, PTL DEF EnclaveSpec, EvaluationIsStable

-----------------------------------------------------------------------------
(* What the answer to a request rests on, fairness apart.                  *)

\* The steps a request can still take before its answer is sent.
StepsLeft == [idle |-> 0, answered |-> 1, fetch |-> 2, sign |-> 3, evaluate |-> 4, insert |-> 5]

Left(r) == StepsLeft[request[r].step]

\* A step of a request brings it nearer to its answer, and whatever else happens, to
\* the lock, the plans, the tables or the process, no request in progress falls back.
NearerToAnswer ==
    \A r \in Request :
        /\ Progress(r) => Left(r)' < Left(r)
        /\ request[r].step # "idle" => request'[r] = request[r] \/ Left(r)' < Left(r)

\* A request's own step.
LEMMA ProgressIsNearer ==
    ASSUME EInv, NEW r \in Request, Progress(r)
    PROVE  /\ Left(r)' < Left(r)
           /\ \A s \in Request \ {r} : request'[s] = request[s]
<1> DEFINE from == request[r].step
           to == request'[r].step
<1>1. DOMAIN request = Request
  BY DEF EInv
<1>2. \A s \in Request \ {r} : request'[s] = request[s]
  BY <1>1 DEF Progress, Insert, Evaluate, Sign, Fetch, Respond
<1>3. \/ from = "insert" /\ to = "evaluate"
      \/ from = "evaluate" /\ to \in {"idle", "fetch", "sign"}
      \/ from = "sign" /\ to \in {"idle", "fetch"}
      \/ from = "fetch" /\ to \in {"idle", "answered"}
      \/ from = "answered" /\ to = "idle"
  <2>1. CASE Insert(r)
    BY <1>1, <2>1 DEF Insert
  <2>2. CASE Evaluate(r)
    BY <1>1, <2>2 DEF Evaluate, Evaluated, Idle
  <2>3. CASE Sign(r)
    BY <1>1, <2>3 DEF Sign, Evaluated, Idle
  <2>4. CASE Fetch(r)
    BY <1>1, <2>4 DEF Fetch, Idle
  <2>5. CASE Respond(r)
    BY <1>1, <2>5 DEF Respond, Idle
  <2>6. QED
    BY <2>1, <2>2, <2>3, <2>4, <2>5 DEF Progress
<1>4. Left(r)' = StepsLeft[to] /\ Left(r) = StepsLeft[from]
  BY DEF Left, StepsLeft
<1> HIDE DEF from, to
<1>5. StepsLeft[to] < StepsLeft[from]
  BY <1>3 DEF StepsLeft
<1>6. QED
  BY <1>2, <1>4, <1>5

\* Once begun, a request takes at most five steps, through every interleaving with other
\* requests, plans, resets and restarts: its answer hangs only on their being taken.
THEOREM RequestsOnlyAdvance == EnclaveSpec => [][NearerToAnswer]_enclaveVars
<1>1. ASSUME EInv, [EnclaveNext]_enclaveVars PROVE NearerToAnswer
  <2> SUFFICES ASSUME NEW r \in Request
               PROVE  /\ Progress(r) => Left(r)' < Left(r)
                      /\ request[r].step # "idle"
                         => request'[r] = request[r] \/ Left(r)' < Left(r)
    BY DEF NearerToAnswer
  <2>1. Progress(r) => Left(r)' < Left(r)
    BY <1>1, ProgressIsNearer
  <2>2. ASSUME NEW s \in Request \ {r}, Progress(s) PROVE request'[r] = request[r]
    BY <1>1, <2>2, ProgressIsNearer
  <2>3. ASSUME NEW s \in Request, NEW q, request[s] = Idle, Becomes(s, q),
               request[r].step # "idle"
        PROVE  request'[r] = request[r]
    BY <1>1, <2>3 DEF EInv, Becomes, Idle
  <2>4. ASSUME Restart, request[r].step # "idle" PROVE Left(r)' < Left(r)
    <3>1. request'[r].step = "idle"
      BY <2>4 DEF Restart, Idle
    <3>2. request[r].step \in {"insert", "evaluate", "sign", "fetch", "answered"}
      BY <1>1, <2>4 DEF EInv, RequestTyped
    <3>3. QED
      BY <3>1, <3>2 DEF Left, StepsLeft
  <2>5. ASSUME NEW s \in Request, NEW v \in Vault, request[r].step # "idle",
               \/ \E attestor \in Attestor, type \in Type : BeginSubmit(s, v, attestor, type)
               \/ \E kind \in {"status", "result"} : BeginStatus(s, v, kind)
        PROVE  request'[r] = request[r]
    BY <2>3, <2>5 DEF BeginSubmit, BeginStatus, Becomes
  <2>6. ASSUME \/ \E v \in Vault, plan \in Plan : StorePlan(v, plan)
               \/ \E v \in Vault : ResetQuorum(v)
               \/ TickClock
               \/ UNCHANGED enclaveVars
        PROVE  request'[r] = request[r]
    BY <2>6 DEF StorePlan, ResetQuorum, TickClock, enclaveVars
  <2>7. QED
    BY <1>1, <2>1, <2>2, <2>4, <2>5, <2>6 DEF EnclaveNext
<1>2. EInv /\ [EnclaveNext]_enclaveVars => [NearerToAnswer]_enclaveVars
  BY <1>1
<1>3. QED
  BY <1>2, EnclaveInvariantHolds, PTL DEF EnclaveSpec

\* What a request's next step asks of the others: the payload's second critical section
\* waits for a writer to leave, and a request in any other step already holds what it
\* needs.
NextStepIsFree(r) == request[r].step = "fetch" => Writing = {}

\* A writer is alone with the lock, and a request that waits at all waits for one other,
\* which itself waits for nobody.
WaitsForOneWriter ==
    /\ \A r \in Writing : \A s \in Locked : s = r
    /\ \A r \in Request :
          \/ NextStepIsFree(r)
          \/ \E s \in Writing \ {r} : NextStepIsFree(s) /\ \A t \in Writing : t = s

\* The lock is a read-write lock whoever dies, resets or is refused while it is held, and
\* no set of requests can wait in a circle.
THEOREM NoCircularWait == EnclaveSpec => []WaitsForOneWriter
<1>1. EInv => WaitsForOneWriter
  <2> SUFFICES ASSUME EInv PROVE WaitsForOneWriter
    OBVIOUS
  <2>1. Writing \subseteq Locked /\ Locked \subseteq Request
    BY DEF Writing, Locked, InStep
  <2>2. \A r \in Writing : \A s \in Locked : s = r
    BY <2>1 DEF EInv, WriterAlone, Writing
  <2>3. ASSUME NEW r \in Request, request[r].step = "fetch", NEW s \in Writing
        PROVE  s # r /\ NextStepIsFree(s)
    <3>1. request[s].step \in {"insert", "evaluate", "sign"}
      BY <2>1 DEF Locked, InStep
    <3>2. QED
      BY <2>3, <3>1 DEF NextStepIsFree
  <2>4. QED
    BY <2>1, <2>2, <2>3 DEF WaitsForOneWriter, NextStepIsFree
<1>2. QED
  BY <1>1, EnclaveInvariantHolds, PTL
=============================================================================
