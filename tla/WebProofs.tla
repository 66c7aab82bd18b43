------------------------------ MODULE WebProofs ------------------------------
(***************************************************************************)
(* Theorems about the web front end: what the trustee's page says is so,   *)
(* what the vault page can cost its owner, and that the pages are among    *)
(* the registry's callers, for any number of vaults, accounts, cases,      *)
(* clicks and lost answers.                                                *)
(***************************************************************************)
EXTENDS WebFrontEnd, VaultRegistryProofs, SequenceTheorems

-----------------------------------------------------------------------------
(* The trustee's page.                                                     *)

Fields == [caseId : Case, attestor : Attestor]

\* What was sent was filled in; an answer under way or shown tells the truth, and
\* nothing is shown while a request is under way.
TrusteeInv ==
    /\ attestations \in [Case -> Seq(AttestationRecord)]
    /\ trustee \in [caseId : Case \cup {Blank}, attestor : Attestor \cup {Blank}]
    /\ request # "none" => posted \in Fields /\ result = "none"
    /\ result # "none" => posted \in Fields
    /\ late # Empty => late \in Fields
    /\ request \in {"recorded", "refused"} /\ ~forgotten => Recorded(posted)
    /\ AnsweredIsRecorded

\* The form starts empty.
LEMMA TrusteeInitHolds == TrusteeInit => TrusteeInv
BY DEF TrusteeInit, ApiInit, Empty, TrusteeInv, AnsweredIsRecorded

\* Once the API has answered, the attestation is on record, and so is every one
\* that was.
LEMMA AnswerRecords ==
    ASSUME attestations \in [Case -> Seq(AttestationRecord)],
           NEW fields \in Fields, Answer(fields)
    PROVE  /\ attestations' \in [Case -> Seq(AttestationRecord)]
           /\ Recorded(fields)'
           /\ \A other \in Fields : Recorded(other) => Recorded(other)'
<1> DEFINE case == fields.caseId
           record == [caseId |-> case, attestorAddress |-> fields.attestor,
                      confirmed |-> TRUE]
           new == Append(attestations[case], record)
<1>1. CASE UNCHANGED attestations /\ Recorded(fields)
  BY <1>1 DEF Recorded
<1>2. CASE Attest(case, fields.attestor)
  <2>1. case \in Case /\ record \in AttestationRecord
    BY DEF Fields, AttestationRecord
  <2>2. attestations' = [attestations EXCEPT ![case] = new]
    BY <1>2 DEF Attest
  <2>3. attestations[case] \in Seq(AttestationRecord)
    BY <2>1
  <2>4. record.attestorAddress = fields.attestor
    OBVIOUS
  <2> HIDE DEF record
  <2>5. /\ new \in Seq(AttestationRecord)
        /\ Len(new) = Len(attestations[case]) + 1 /\ Len(attestations[case]) \in Nat
        /\ \A i \in 1..Len(attestations[case]) : new[i] = attestations[case][i]
        /\ new[Len(attestations[case]) + 1] = record
    BY <2>1, <2>3, AppendProperties
  <2>6. /\ DOMAIN new = 1..Len(new)
        /\ DOMAIN attestations[case] = 1..Len(attestations[case])
    BY <2>3, <2>5
  <2> HIDE DEF new
  <2>7. attestations' \in [Case -> Seq(AttestationRecord)]
    BY <2>1, <2>2, <2>5
  <2>8. attestations'[case] = new
    BY <2>1, <2>2
  <2>9. Recorded(fields)'
    <3>1. Len(new) \in DOMAIN new /\ new[Len(new)] = record
      BY <2>5, <2>6
    <3>2. QED
      BY <2>4, <2>8, <3>1 DEF Recorded
  <2>10. ASSUME NEW other \in Fields, Recorded(other)
         PROVE  Recorded(other)'
    <3>1. CASE other.caseId = case
      <4>1. PICK i \in DOMAIN attestations[case] :
                   attestations[case][i].attestorAddress = other.attestor
        BY <2>10, <3>1 DEF Recorded
      <4>2. i \in DOMAIN new /\ new[i] = attestations[case][i]
        BY <2>5, <2>6, <4>1
      <4>3. QED
        BY <2>8, <3>1, <4>1, <4>2 DEF Recorded
    <3>2. CASE other.caseId # case
      <4>1. attestations'[other.caseId] = attestations[other.caseId]
        BY <2>1, <2>2, <3>2 DEF Fields
      <4>2. QED
        BY <2>10, <4>1 DEF Recorded
    <3>3. QED
      BY <3>1, <3>2
  <2>11. QED
    BY <2>7, <2>9, <2>10
<1>3. QED
  BY <1>1, <1>2 DEF Answer

\* Typing into the form changes nothing that was sent.
LEMMA EditHolds ==
    ASSUME TrusteeInv,
           NEW field \in {"caseId", "attestor"}, NEW value,
           EditField(field, value),
           field = "caseId" => value \in Case,
           field = "attestor" => value \in Attestor
    PROVE  TrusteeInv'
<1>1. trustee' \in [caseId : Case \cup {Blank}, attestor : Attestor \cup {Blank}]
  BY DEF EditField, TrusteeInv
<1>2. UNCHANGED <<attestations, request, posted, late, result, forgotten>>
  BY DEF EditField
<1>3. QED
  BY <1>1, <1>2 DEF TrusteeInv, AnsweredIsRecorded, Recorded

\* Sending, answering, losing and restarting.
LEMMA TrusteeStepHolds ==
    ASSUME TrusteeInv, TrusteeNext
    PROVE  TrusteeInv'
<1>1. CASE HandleSubmitAttestation
  <2>1. trustee \in Fields
    BY <1>1 DEF HandleSubmitAttestation, isValid, TrusteeInv, Fields
  <2>2. QED
    BY <1>1, <2>1 DEF HandleSubmitAttestation, TrusteeInv, AnsweredIsRecorded
<1>2. CASE Arrives
  <2>1. posted \in Fields /\ result = "none"
    BY <1>2 DEF Arrives, TrusteeInv
  <2>2. attestations' \in [Case -> Seq(AttestationRecord)] /\ Recorded(posted)'
    BY <1>2, <2>1, AnswerRecords DEF Arrives, TrusteeInv, Recorded
  <2>3. QED
    BY <1>2, <2>1, <2>2 DEF Arrives, TrusteeInv, AnsweredIsRecorded
<1>3. CASE ResultShown
  BY <1>3 DEF ResultShown, TrusteeInv, AnsweredIsRecorded, Recorded
<1>4. CASE ConnectionFails
  BY <1>4 DEF ConnectionFails, TrusteeInv, AnsweredIsRecorded
<1>5. CASE LateArrives
  <2>1. late \in Fields
    BY <1>5 DEF LateArrives, TrusteeInv
  <2>2. /\ attestations' \in [Case -> Seq(AttestationRecord)]
        /\ \A other \in Fields : Recorded(other) => Recorded(other)'
    BY <1>5, <2>1, AnswerRecords DEF LateArrives, TrusteeInv
  <2>3. /\ UNCHANGED <<trustee, request, posted, result, forgotten>>
        /\ late' = Empty
    BY <1>5 DEF LateArrives
  <2>4. posted \in Fields /\ Recorded(posted) => Recorded(posted)'
    BY <2>2, <2>3 DEF Recorded
  <2>5. QED
    BY <2>2, <2>3, <2>4 DEF TrusteeInv, AnsweredIsRecorded, Empty
<1>6. CASE ApiRestarts
  BY <1>6 DEF ApiRestarts, ApiRestart, TrusteeInv, AnsweredIsRecorded
<1>7. QED
  BY <1>1, <1>2, <1>3, <1>4, <1>5, <1>6, EditHolds DEF TrusteeNext

\* Every step of the front end keeps it.
LEMMA TrusteeNextHolds == TrusteeInv /\ [WebFrontEndNext]_allVars => TrusteeInv'
<1>1. ASSUME TrusteeInv, UNCHANGED <<attestations, trusteeVars>> PROVE TrusteeInv'
  BY <1>1 DEF TrusteeInv, trusteeVars, AnsweredIsRecorded, Recorded
<1>2. QED
  BY <1>1, TrusteeStepHolds DEF WebFrontEndNext, allVars

\* Success, or a refusal as a duplicate, is shown only for what is on record.
THEOREM AnswersAreTrue == WebFrontEndSpec => []AnsweredIsRecorded
<1>1. WebFrontEndInit => TrusteeInv
  BY TrusteeInitHolds DEF WebFrontEndInit
<1>2. TrusteeInv => AnsweredIsRecorded
  BY DEF TrusteeInv
<1>3. QED
  BY <1>1, <1>2, TrusteeNextHolds, PTL DEF WebFrontEndSpec

-----------------------------------------------------------------------------
(* The wallet: what can be called, and what it can cost.                   *)

OneArgument == {"approve", "fundVault"}

NoArgument == {"checkIn", "ownerOverride", "guardianHalt", "cancelVault",
               "anchorLegalDoc", "finalizeDisputeWindow", "finalizeFinalWindow"}

\* The create page's fields, and a form that can be submitted.
Draft == [plan : PlanHash \cup {NoHash}, guardian : GuardianKey \cup {NoAddress},
          asset : Asset, windows : FormWindows]

Complete == [plan : PlanHash, guardian : GuardianKey, asset : Asset,
             windows : FormWindows]

\* The calls an account's page can ask its wallet for.
CallsOf(account) ==
    {Call(fn, 0) : fn \in NoArgument}
      \cup {Call(fn, amount) : fn \in OneArgument, amount \in Amount}
      \cup {Call("createVault", fields) :
              fields \in IF account \in VaultOwner THEN Complete ELSE {}}

Sent(account) == [hook : {"main", "approve", "nobody"}, call : CallsOf(account)]

Visits == [page : Page, account : Account, v : VaultId, until : Nat, clicks : Nat,
           timed : BOOLEAN]

Tokens == allowance \in Nat /\ paidIn \in Nat

\* Everything between a click and a block is a call of this page's.
WalletInv ==
    /\ visit \in Visits
    /\ visit.page = "create" => visit.account \in VaultOwner
    /\ form \in Draft
    /\ DOMAIN hooks = {"main", "approve"}
    /\ \A h \in {"main", "approve"} :
          hooks[h].status = "wallet" => hooks[h].call \in CallsOf(visit.account)
    /\ pool \in Seq(Sent(visit.account))
    /\ Tokens

\* A visit starts with nothing under way.
LEMMA WalletInitHolds == WebInit => WalletInv
<1> SUFFICES ASSUME WebInit PROVE WalletInv
  OBVIOUS
<1>1. visit \in Visits /\ (visit.page = "create" => visit.account \in VaultOwner)
  BY WebAssumption DEF WebInit, Visits
<1>2. form \in Draft
  BY WebAssumption DEF WebInit, EmptyForm, Draft
<1>3. pool \in Seq(Sent(visit.account))
  BY DEF WebInit
<1>4. QED
  BY <1>1, <1>2, <1>3
  DEF WebInit, Idle, Hook, WalletInv, Tokens

\* What such a call does is a step of the registry's, or none of its business.
LEMMA EffectIsRegistryStep ==
    ASSUME visit \in Visits, NEW call \in CallsOf(visit.account), Effect(call)
    PROVE  [Next]_vars
<1>1. visit.account \in Account /\ visit.v \in VaultId
  BY DEF Visits
<1>2. CASE call.fn = "approve"
  BY <1>2 DEF Effect, Approve
<1>3. CASE call.fn = "fundVault"
  <2>1. call.arg \in Amount
    BY <1>3 DEF CallsOf, Call, NoArgument, OneArgument
  <2>2. FundVault(visit.account, visit.v, call.arg)
    BY <1>3 DEF Effect, Fund
  <2>3. QED
    BY <1>1, <2>1, <2>2 DEF Next, OwnerStep
<1>4. CASE call.fn = "createVault"
  <2>1. call.arg \in Complete /\ visit.account \in VaultOwner
    BY <1>4 DEF CallsOf, Call, NoArgument, OneArgument
  <2>2. /\ call.arg.windows \in Timing
        /\ CreateVault(visit.account, call.arg.plan, call.arg.asset, call.arg.windows,
                       call.arg.guardian)
    BY <1>4 DEF Effect, Create
  <2>3. QED
    BY <1>1, <2>1, <2>2 DEF Next, OwnerStep, Complete
<1>5. CASE call.fn \in NoArgument
  <2>1. \/ CheckIn(visit.account, visit.v) \/ OwnerOverride(visit.account, visit.v)
        \/ GuardianHalt(visit.account, visit.v) \/ CancelVault(visit.account, visit.v)
        \/ \E hash \in LegalDoc : AnchorLegalDoc(visit.account, visit.v, hash)
        \/ FinalizeDisputeWindow(visit.v) \/ FinalizeFinalWindow(visit.v)
    BY <1>5 DEF Effect, NoArgument
  <2>2. QED
    BY <1>1, <2>1 DEF Next, OwnerStep, GuardianStep, KeeperStep
<1>6. QED
  BY <1>2, <1>3, <1>4, <1>5 DEF CallsOf, Call, OneArgument

\* An approval replaces the allowance, a payment comes out of it, and nothing else
\* touches either.
LEMMA EffectPays ==
    ASSUME Tokens, NEW call \in CallsOf(visit.account), Effect(call)
    PROVE  /\ Tokens'
           /\ call.fn = "approve" => allowance' = call.arg
           /\ call.fn # "approve" => paidIn' + allowance' = paidIn + allowance
           /\ call.fn # "fundVault" => paidIn' = paidIn
<1>1. CASE call.fn = "approve"
  <2>1. call.arg \in Nat
    BY <1>1, RegistryAssumption DEF CallsOf, Call, NoArgument, OneArgument
  <2>2. QED
    BY <1>1, <2>1 DEF Effect, Approve, Tokens, tokenVars
<1>2. CASE call.fn = "fundVault"
  <2>1. call.arg \in Nat
    BY <1>2, RegistryAssumption DEF CallsOf, Call, NoArgument, OneArgument
  <2>2. QED
    BY <1>2, <2>1 DEF Effect, Fund, Tokens, tokenVars
<1>3. CASE call.fn \notin OneArgument
  BY <1>3 DEF Effect, OneArgument, Tokens, tokenVars
<1>4. QED
  BY <1>1, <1>2, <1>3 DEF OneArgument

\* A click hands a call of the page's to the wallet.
LEMMA WriteHolds ==
    ASSUME WalletInv, NEW call \in CallsOf(visit.account), Write(call)
    PROVE  WalletInv'
<1>1. /\ hooks' = [hooks EXCEPT !.main = [status |-> "wallet", call |-> call]]
      /\ UNCHANGED <<visit, pool, tokenVars, form>>
  BY DEF Write, moneyVars
<1>2. /\ DOMAIN hooks' = {"main", "approve"}
      /\ hooks'["main"].call = call /\ hooks'["approve"] = hooks["approve"]
  BY <1>1 DEF WalletInv
<1>3. QED
  BY <1>1, <1>2 DEF WalletInv, Tokens, tokenVars

\* The first button hands the approval to the other hook.
LEMMA ApproveHolds ==
    ASSUME WalletInv, NEW amount \in Amount, DoApproveAndFund(amount)
    PROVE  WalletInv'
<1> DEFINE call == Call("approve", amount)
<1>1. /\ hooks' = [hooks EXCEPT !.approve = [status |-> "wallet", call |-> call]]
      /\ UNCHANGED <<visit, pool, tokenVars, form>>
  BY DEF DoApproveAndFund
<1>2. call \in CallsOf(visit.account)
  BY DEF CallsOf, OneArgument
<1> HIDE DEF call
<1>3. /\ DOMAIN hooks' = {"main", "approve"}
      /\ hooks'["approve"].call = call /\ hooks'["main"] = hooks["main"]
  BY <1>1 DEF WalletInv
<1>4. QED
  BY <1>1, <1>2, <1>3 DEF WalletInv, Tokens, tokenVars

\* Every button and field of the pages.
LEMMA ClickHolds ==
    ASSUME WalletInv, Clicks
    PROVE  WalletInv'
<1>1. ASSUME NEW v \in VaultId, HandleLookup(v) PROVE WalletInv'
  <2>1. /\ visit' = [visit EXCEPT !.v = v]
        /\ UNCHANGED <<hooks, pool, tokenVars, form>>
    BY <1>1 DEF HandleLookup, txVars, moneyVars
  <2>2. visit' \in Visits /\ visit'.page = visit.page /\ visit'.account = visit.account
    BY <2>1 DEF WalletInv, Visits
  <2>3. QED
    BY <2>1, <2>2 DEF WalletInv, Tokens, tokenVars
<1>2. ASSUME NEW fn \in NoArgument, Do(fn) PROVE WalletInv'
  <2>1. Call(fn, 0) \in CallsOf(visit.account)
    BY DEF CallsOf
  <2>2. QED
    BY <1>2, <2>1, WriteHolds DEF Do
<1>3. ASSUME NEW amount \in Amount, DoFundVault(amount) PROVE WalletInv'
  <2>1. Call("fundVault", amount) \in CallsOf(visit.account)
    BY DEF CallsOf, OneArgument
  <2>2. QED
    BY <1>3, <2>1, WriteHolds DEF DoFundVault
<1>4. ASSUME NEW field \in {"plan", "guardian", "asset", "windows"}, NEW value,
             EditForm(field, value),
             field = "plan" => value \in PlanHash,
             field = "guardian" => value \in GuardianKey,
             field = "asset" => value \in Asset,
             field = "windows" => value \in FormWindows
      PROVE  WalletInv'
  <2>1. form' = [form EXCEPT ![field] = value] /\ UNCHANGED <<visit, txVars>>
    BY <1>4 DEF EditForm
  <2>2. form' \in Draft
    BY <1>4, <2>1 DEF WalletInv, Draft
  <2>3. QED
    BY <2>1, <2>2 DEF WalletInv, txVars, moneyVars, Tokens, tokenVars
<1>5. CASE HandleSubmit
  <2>1. form \in Complete
    BY <1>5 DEF HandleSubmit, WalletInv, Draft, Complete
  <2>2. visit.account \in VaultOwner
    BY <1>5 DEF HandleSubmit, On, WalletInv
  <2>3. Call("createVault", form) \in CallsOf(visit.account)
    BY <2>1, <2>2 DEF CallsOf
  <2>4. QED
    BY <1>5, <2>3, WriteHolds DEF HandleSubmit
<1>6. CASE GoToDashboard
  <2>1. /\ visit' = [visit EXCEPT !.page = "dashboard"]
        /\ hooks' = [main |-> Idle, approve |-> Idle]
        /\ form' = EmptyForm
        /\ UNCHANGED <<pool, tokenVars>>
    BY <1>6 DEF GoToDashboard, moneyVars
  <2>2. /\ visit' \in Visits /\ visit'.page = "dashboard"
        /\ visit'.account = visit.account
    BY <2>1 DEF WalletInv, Visits, Page
  <2>3. form' \in Draft
    BY <2>1, WebAssumption DEF EmptyForm, Draft
  <2>4. QED
    BY <2>1, <2>2, <2>3
    DEF WalletInv, Idle, Hook, Tokens, tokenVars
<1>7. QED
  BY <1>1, <1>2, <1>3, <1>4, <1>5, <1>6, ApproveHolds DEF Clicks, NoArgument

\* A hook of the page that has lost or finished its call.
LEMMA HookHolds ==
    ASSUME WalletInv, NEW h \in {"main", "approve"},
           NEW status \in {"none", "sent", "confirmed"},
           hooks' = [hooks EXCEPT ![h] = Hook(status)],
           pool' \in Seq(Sent(visit.account)),
           UNCHANGED <<visit, tokenVars, form>>
    PROVE  WalletInv'
<1>1. /\ DOMAIN hooks' = {"main", "approve"}
      /\ hooks'[h].status # "wallet"
      /\ \A other \in {"main", "approve"} \ {h} : hooks'[other] = hooks[other]
  BY DEF WalletInv, Hook
<1>2. QED
  BY <1>1 DEF WalletInv, Tokens, tokenVars

\* The wallet refuses, sends or forgets.
LEMMA SendHolds ==
    ASSUME WalletInv, Wallet
    PROVE  WalletInv'
<1>1. PICK h \in {"main", "approve"} : WalletRefuses(h) \/ WalletSends(h) \/ ReceiptLost(h)
  BY DEF Wallet, WalletInv
<1>2. CASE WalletRefuses(h)
  BY <1>2, HookHolds DEF WalletRefuses, Idle, WalletInv, moneyVars
<1>3. CASE WalletSends(h)
  <2>1. /\ pool' = Append(pool, [hook |-> h, call |-> hooks[h].call])
        /\ hooks' = [hooks EXCEPT ![h] = Hook("sent")]
        /\ UNCHANGED <<visit, tokenVars, form>>
    BY <1>3 DEF WalletSends, moneyVars
  <2>2. [hook |-> h, call |-> hooks[h].call] \in Sent(visit.account)
    BY <1>3 DEF WalletSends, WalletInv, Sent
  <2>3. pool' \in Seq(Sent(visit.account))
    BY <2>1, <2>2, AppendProperties DEF WalletInv
  <2>4. QED
    BY <2>1, <2>3, HookHolds
<1>4. CASE ReceiptLost(h)
  <2>1. /\ pool' = [i \in DOMAIN pool |->
                       IF pool[i].hook = h THEN [pool[i] EXCEPT !.hook = "nobody"]
                                           ELSE pool[i]]
        /\ hooks' = [hooks EXCEPT ![h] = Hook("none")]
        /\ UNCHANGED <<visit, tokenVars, form>>
    BY <1>4 DEF ReceiptLost, Idle, moneyVars
  <2>2. pool \in Seq(Sent(visit.account))
    BY DEF WalletInv
  <2>3. DOMAIN pool = 1..Len(pool) /\ Len(pool) \in Nat
    BY <2>2
  <2>4. ASSUME NEW i \in DOMAIN pool PROVE pool'[i] \in Sent(visit.account)
    <3>1. pool[i] \in Sent(visit.account)
      BY <2>2, <2>3, <2>4
    <3>2. QED
      BY <2>1, <2>4, <3>1 DEF Sent
  <2>5. pool' \in Seq(Sent(visit.account))
    <3>1. pool' \in [1..Len(pool) -> Sent(visit.account)]
      BY <2>1, <2>3, <2>4
    <3>2. QED
      BY <2>3, <3>1, SeqDef
  <2>6. QED
    BY <2>1, <2>5, HookHolds
<1>5. QED
  BY <1>1, <1>2, <1>3, <1>4

\* A transaction is mined.
LEMMA MinedHolds ==
    ASSUME WalletInv, Mined
    PROVE  WalletInv'
<1> DEFINE tx == Head(pool)
           rest == Tail(pool)
<1>1. tx \in Sent(visit.account) /\ rest \in Seq(Sent(visit.account))
  BY HeadTailProperties DEF WalletInv, Mined
<1>2. pool' = rest /\ UNCHANGED <<visit, form>>
  BY DEF Mined
<1>3. tx.call \in CallsOf(visit.account) /\ tx.hook \in {"main", "approve", "nobody"}
  BY <1>1 DEF Sent
<1>4. Tokens'
  <2>1. Effect(tx.call) \/ UNCHANGED tokenVars
    BY DEF Mined
  <2>2. CASE UNCHANGED tokenVars
    BY <2>2 DEF WalletInv, Tokens, tokenVars
  <2>3. QED
    BY <1>3, <2>1, <2>2, EffectPays DEF WalletInv
<1>5. \/ UNCHANGED hooks
      \/ \E status \in {"none", "confirmed"} :
            /\ tx.hook \in {"main", "approve"}
            /\ hooks' = [hooks EXCEPT ![tx.hook] = Hook(status)]
  BY <1>3 DEF Mined, Idle
<1>6. /\ DOMAIN hooks' = {"main", "approve"}
      /\ \A h \in {"main", "approve"} :
            hooks'[h].status = "wallet" => hooks'[h] = hooks[h]
  BY <1>5 DEF WalletInv, Hook
<1>7. QED
  BY <1>1, <1>2, <1>4, <1>6 DEF WalletInv

\* Every step of the front end keeps it.
LEMMA WalletNextHolds == WalletInv /\ [WebFrontEndNext]_allVars => WalletInv'
<1>1. ASSUME WalletInv, UNCHANGED <<visit, hooks, pool, tokenVars, form>>
      PROVE  WalletInv'
  BY <1>1 DEF WalletInv, Tokens, tokenVars
<1>2. ASSUME WalletInv, TimerFires PROVE WalletInv'
  BY <1>2, HookHolds DEF TimerFires, Idle, WalletInv, moneyVars
<1>3. Open \/ Reads => UNCHANGED <<visit, hooks, pool, tokenVars, form>>
  BY DEF Open, Reads, ReadNextVaultId, ReadOwners, ReadStates, ReadState, ReadConfig,
         ReadTiming, txVars, moneyVars
<1>4. Elsewhere \/ UNCHANGED webVars => UNCHANGED <<visit, hooks, pool, tokenVars, form>>
  BY DEF Elsewhere, webVars, txVars, moneyVars
<1>5. QED
  BY <1>1, <1>2, <1>3, <1>4, ClickHolds, SendHolds, MinedHolds
  DEF WebFrontEndNext, allVars

\* One approval pays for everything: until it is confirmed no payment is sent, once
\* it is nothing is approved any more, and the one that the page waits for is the
\* last of those that are sent.
PayInv ==
    /\ visit.page # "vault" => hooks["approve"].status = "none"
    /\ hooks["approve"].status = "wallet" => hooks["approve"].call = Call("approve", asked)
    /\ hooks["main"].status = "wallet" =>
          /\ hooks["main"].call.fn # "approve"
          /\ hooks["main"].call.fn = "fundVault" => hooks["approve"].status = "confirmed"
    /\ \A i \in DOMAIN pool :
          /\ pool[i].call.fn = "fundVault" => hooks["approve"].status = "confirmed"
          /\ pool[i].call.fn = "approve" => hooks["approve"].status # "confirmed"
          /\ pool[i].hook = "approve" =>
                /\ hooks["approve"].status = "sent"
                /\ pool[i].call = Call("approve", asked)
                /\ \A j \in DOMAIN pool : j > i => pool[j].call.fn # "approve"
    /\ PaysOneApproval

\* A visit starts with nothing paid.
LEMMA PayInitHolds == WebInit => PayInv
BY DEF WebInit, Idle, Hook, PayInv, PaysOneApproval

\* What leaves the approval alone and hands at most a payment that is due, or a call
\* that costs nothing, to the wallet.
LEMMA PayKept ==
    ASSUME PayInv, UNCHANGED <<pool, moneyVars>>,
           visit'.page = visit.page, hooks'["approve"] = hooks["approve"],
           \/ hooks'["main"] = hooks["main"]
           \/ hooks'["main"].status = "wallet" =>
                 /\ hooks'["main"].call.fn # "approve"
                 /\ hooks'["main"].call.fn = "fundVault" =>
                       hooks["approve"].status = "confirmed"
    PROVE  PayInv'
BY DEF PayInv, PaysOneApproval, moneyVars, tokenVars

\* A call of the main hook.
LEMMA WritePays ==
    ASSUME WalletInv, PayInv, NEW call, Write(call), call.fn # "approve",
           call.fn = "fundVault" => hooks["approve"].status = "confirmed"
    PROVE  PayInv'
<1>1. /\ hooks' = [hooks EXCEPT !["main"] = [status |-> "wallet", call |-> call]]
      /\ UNCHANGED <<visit, pool, moneyVars>>
  BY DEF Write
<1>2. hooks'["main"].call = call /\ hooks'["approve"] = hooks["approve"]
  BY <1>1 DEF WalletInv
<1>3. QED
  BY <1>1, <1>2, PayKept

\* Every button and field of the pages.
LEMMA ClickPays ==
    ASSUME WalletInv, PayInv, Clicks
    PROVE  PayInv'
<1>1. ASSUME NEW v \in VaultId, HandleLookup(v) PROVE PayInv'
  <2>1. visit'.page = visit.page /\ UNCHANGED <<hooks, pool, moneyVars>>
    BY <1>1 DEF HandleLookup, txVars, WalletInv, Visits
  <2>2. QED
    BY <2>1, PayKept
<1>2. ASSUME NEW fn \in NoArgument, Do(fn) PROVE PayInv'
  BY <1>2, WritePays DEF Do, Call, NoArgument
<1>3. ASSUME NEW amount \in Amount, DoFundVault(amount) PROVE PayInv'
  BY <1>3, WritePays DEF DoFundVault, Call
<1>4. ASSUME NEW amount \in Amount, DoApproveAndFund(amount) PROVE PayInv'
  <2> DEFINE call == Call("approve", amount)
  <2>1. /\ visit.page = "vault"
        /\ hooks["approve"].status \notin {"wallet", "sent", "confirmed"}
        /\ hooks' = [hooks EXCEPT !["approve"] = [status |-> "wallet", call |-> call]]
        /\ asked' = amount
        /\ UNCHANGED <<visit, pool, tokenVars>>
    BY <1>4 DEF DoApproveAndFund, Offered, On, Busy
  <2>2. /\ hooks'["approve"] = [status |-> "wallet", call |-> call]
        /\ hooks'["main"] = hooks["main"]
    BY <2>1 DEF WalletInv
  <2>3. \A i \in DOMAIN pool : pool[i].hook # "approve" /\ pool[i].call.fn # "fundVault"
    BY <2>1 DEF PayInv
  <2>4. QED
    BY <2>1, <2>2, <2>3 DEF PayInv, PaysOneApproval, tokenVars
<1>5. ASSUME NEW field, NEW value, EditForm(field, value) PROVE PayInv'
  BY <1>5, PayKept DEF EditForm, txVars
<1>6. CASE HandleSubmit
  BY <1>6, WritePays DEF HandleSubmit, Call
<1>7. CASE GoToDashboard
  <2>1. /\ visit.page = "create" /\ hooks' = [main |-> Idle, approve |-> Idle]
        /\ UNCHANGED <<pool, moneyVars>>
    BY <1>7 DEF GoToDashboard, On
  <2>2. /\ hooks'["approve"].status = "none" /\ hooks'["main"].status = "none"
        /\ hooks["approve"].status = "none"
    BY <2>1 DEF PayInv, Idle, Hook
  <2>3. QED
    BY <2>1, <2>2 DEF PayInv, PaysOneApproval, moneyVars, tokenVars
<1>8. QED
  BY <1>1, <1>2, <1>3, <1>4, <1>5, <1>6, <1>7 DEF Clicks, NoArgument

\* The wallet refuses, sends or forgets.
LEMMA SendPays ==
    ASSUME WalletInv, PayInv, Wallet
    PROVE  PayInv'
<1>1. PICK h \in {"main", "approve"} : WalletRefuses(h) \/ WalletSends(h) \/ ReceiptLost(h)
  BY DEF Wallet, WalletInv
<1>2. DOMAIN hooks = {"main", "approve"}
  BY DEF WalletInv
<1>3. CASE WalletRefuses(h)
  <2>1. /\ hooks' = [hooks EXCEPT ![h] = Idle] /\ hooks[h].status = "wallet"
        /\ UNCHANGED <<visit, pool, moneyVars>>
    BY <1>3 DEF WalletRefuses
  <2>2. /\ hooks'[h].status = "none"
        /\ \A other \in {"main", "approve"} \ {h} : hooks'[other] = hooks[other]
    BY <1>2, <2>1 DEF Idle, Hook
  <2>3. CASE h = "main"
    BY <2>1, <2>2, <2>3, PayKept
  <2>4. CASE h = "approve"
    BY <2>1, <2>2, <2>4 DEF PayInv, PaysOneApproval, moneyVars, tokenVars
  <2>5. QED
    BY <2>3, <2>4
<1>4. CASE WalletSends(h)
  <2> DEFINE tx == [hook |-> h, call |-> hooks[h].call]
  <2>1. /\ hooks' = [hooks EXCEPT ![h] = Hook("sent")] /\ hooks[h].status = "wallet"
        /\ pool' = Append(pool, tx)
        /\ UNCHANGED <<visit, moneyVars>>
    BY <1>4 DEF WalletSends
  <2>2. /\ hooks'[h].status = "sent"
        /\ \A other \in {"main", "approve"} \ {h} : hooks'[other] = hooks[other]
    BY <1>2, <2>1 DEF Hook
  <2>3. tx \in Sent(visit.account) /\ tx.hook = h /\ tx.call = hooks[h].call
    BY <2>1 DEF WalletInv, Sent
  <2> HIDE DEF tx
  <2>4. pool \in Seq(Sent(visit.account)) /\ Len(pool) \in Nat /\ DOMAIN pool = 1..Len(pool)
    BY DEF WalletInv
  <2>5. /\ DOMAIN pool' = 1..(Len(pool) + 1)
        /\ \A i \in DOMAIN pool : pool'[i] = pool[i]
        /\ pool'[Len(pool) + 1] = tx
        /\ \A i \in DOMAIN pool' : i \in DOMAIN pool \/ i = Len(pool) + 1
    BY <2>1, <2>3, <2>4, AppendProperties
  <2>6. CASE h = "main"
    BY <2>1, <2>2, <2>3, <2>4, <2>5, <2>6
    DEF PayInv, PaysOneApproval, moneyVars, tokenVars
  <2>7. CASE h = "approve"
    <3>1. tx.call = Call("approve", asked) /\ tx.call.fn = "approve"
      BY <2>1, <2>3, <2>7 DEF PayInv, Call
    <3>2. \A i \in DOMAIN pool : pool[i].hook # "approve" /\ pool[i].call.fn # "fundVault"
      BY <2>1, <2>7 DEF PayInv
    <3>3. \A i, j \in DOMAIN pool' : i = Len(pool) + 1 => ~(j > i)
      BY <2>4, <2>5
    <3>4. QED
      BY <2>1, <2>2, <2>3, <2>5, <2>7, <3>1, <3>2, <3>3
      DEF PayInv, PaysOneApproval, moneyVars, tokenVars
  <2>8. QED
    BY <2>6, <2>7
<1>5. CASE ReceiptLost(h)
  <2>1. /\ hooks' = [hooks EXCEPT ![h] = Idle] /\ hooks[h].status = "sent"
        /\ pool' = [i \in DOMAIN pool |->
                      IF pool[i].hook = h THEN [pool[i] EXCEPT !.hook = "nobody"] ELSE pool[i]]
        /\ UNCHANGED <<visit, moneyVars>>
    BY <1>5 DEF ReceiptLost
  <2>2. /\ hooks'[h].status = "none"
        /\ \A other \in {"main", "approve"} \ {h} : hooks'[other] = hooks[other]
    BY <1>2, <2>1 DEF Idle, Hook
  <2>3. DOMAIN pool' = DOMAIN pool
    BY <2>1
  <2>4. ASSUME NEW i \in DOMAIN pool
        PROVE  /\ pool'[i].call = pool[i].call
               /\ pool'[i].hook = "approve" => pool[i].hook = "approve" /\ h # "approve"
    <3>1. pool[i] \in Sent(visit.account)
      BY DEF WalletInv
    <3>2. QED
      BY <2>1, <3>1 DEF Sent
  <2>5. CASE h = "main"
    BY <2>1, <2>2, <2>3, <2>4, <2>5 DEF PayInv, PaysOneApproval, moneyVars, tokenVars
  <2>6. CASE h = "approve"
    BY <2>1, <2>2, <2>3, <2>4, <2>6 DEF PayInv, PaysOneApproval, moneyVars, tokenVars
  <2>7. QED
    BY <2>5, <2>6
<1>6. QED
  BY <1>1, <1>3, <1>4, <1>5

\* A transaction is mined: the approval that the page waits for is the last that can
\* still change the allowance.
LEMMA MinedPays ==
    ASSUME WalletInv, PayInv, Mined
    PROVE  PayInv'
<1> DEFINE tx == Head(pool)
           rest == Tail(pool)
<1>1. /\ tx \in Sent(visit.account) /\ tx = pool[1] /\ 1 \in DOMAIN pool
      /\ \A i \in DOMAIN rest : i + 1 \in DOMAIN pool /\ rest[i] = pool[i + 1] /\ i + 1 > 1
  <2>1. pool \in Seq(Sent(visit.account)) /\ pool # <<>>
    BY DEF WalletInv, Mined
  <2>2. QED
    BY <2>1, HeadTailProperties
<1>2. pool' = rest /\ UNCHANGED <<visit, asked>>
  BY DEF Mined
<1>3. tx.call \in CallsOf(visit.account) /\ tx.hook \in {"main", "approve", "nobody"}
  BY <1>1 DEF Sent
<1>4. /\ hooks["approve"].status = "confirmed" => tx.call.fn # "approve"
      /\ hooks["approve"].status # "confirmed" => tx.call.fn # "fundVault"
      /\ tx.hook = "approve" =>
            /\ hooks["approve"].status = "sent"
            /\ tx.call = Call("approve", asked) /\ tx.call.fn = "approve"
            /\ \A i \in DOMAIN rest : /\ rest[i].call.fn \notin {"approve", "fundVault"}
                                      /\ rest[i].hook # "approve"
  <2>1. hooks["approve"].status = "confirmed" => tx.call.fn # "approve"
    BY <1>1 DEF PayInv
  <2>2. hooks["approve"].status # "confirmed" => tx.call.fn # "fundVault"
    BY <1>1 DEF PayInv
  <2>3. ASSUME tx.hook = "approve"
        PROVE  /\ hooks["approve"].status = "sent"
               /\ tx.call = Call("approve", asked) /\ tx.call.fn = "approve"
               /\ \A i \in DOMAIN rest : /\ rest[i].call.fn \notin {"approve", "fundVault"}
                                         /\ rest[i].hook # "approve"
    <3>1. hooks["approve"].status = "sent" /\ tx.call = Call("approve", asked)
      BY <1>1, <2>3 DEF PayInv
    <3>2. ASSUME NEW i \in DOMAIN rest
          PROVE  rest[i].call.fn \notin {"approve", "fundVault"} /\ rest[i].hook # "approve"
      <4>1. rest[i].call.fn # "approve"
        BY <1>1, <2>3 DEF PayInv
      <4>2. rest[i].call.fn # "fundVault"
        BY <1>1, <3>1 DEF PayInv
      <4>3. rest[i].hook = "approve" => rest[i].call.fn = "approve"
        BY <1>1 DEF PayInv, Call
      <4>4. QED
        BY <4>1, <4>2, <4>3
    <3>3. QED
      BY <3>1, <3>2 DEF Call
  <2>4. QED
    BY <2>1, <2>2, <2>3
<1>5. /\ tx.call.fn # "approve" => paidIn' + allowance' = paidIn + allowance
      /\ tx.call.fn # "fundVault" => paidIn' = paidIn
  <2>1. Effect(tx.call) \/ UNCHANGED tokenVars
    BY DEF Mined
  <2>2. CASE UNCHANGED tokenVars
    BY <2>2 DEF tokenVars
  <2>3. QED
    BY <1>3, <2>1, <2>2, EffectPays DEF WalletInv
<1> HIDE DEF rest
<1>6. CASE tx.hook = "approve"
  <2>1. /\ hooks'["main"] = hooks["main"]
        /\ \/ hooks'["approve"] = Hook("none")
           \/ hooks'["approve"] = Hook("confirmed") /\ Effect(tx.call)
    BY <1>6 DEF Mined, Idle, WalletInv
  <2>2. paidIn' = 0 /\ paidIn \in Nat
    BY <1>4, <1>5, <1>6 DEF PayInv, PaysOneApproval, WalletInv, Tokens
  <2>3. Effect(tx.call) => allowance' = asked /\ asked \in Nat
    BY <1>3, <1>4, <1>6, EffectPays DEF WalletInv, Tokens, Call
  <2>4. /\ hooks'["approve"].status \in {"none", "confirmed"}
        /\ hooks'["approve"].status = "confirmed" => Effect(tx.call)
    BY <2>1 DEF Hook
  <2>5. visit.page = "vault"
    BY <1>4, <1>6 DEF PayInv
  <2>6. hooks["main"].status = "wallet" => hooks["main"].call.fn \notin {"approve", "fundVault"}
    BY <1>4, <1>6 DEF PayInv
  <2>7. PaysOneApproval'
    BY <1>2, <2>2, <2>3, <2>4 DEF PaysOneApproval
  <2> HIDE DEF tx
  <2>8. QED
    BY <1>2, <1>4, <1>6, <2>1, <2>4, <2>5, <2>6, <2>7 DEF PayInv
<1>7. CASE tx.hook # "approve"
  <2>1. /\ hooks'["approve"] = hooks["approve"]
        /\ hooks'["main"] = hooks["main"] \/ hooks'["main"].status # "wallet"
    BY <1>3, <1>7 DEF Mined, Idle, Hook, WalletInv
  <2>2. PaysOneApproval'
    BY <1>2, <1>4, <1>5, <2>1 DEF PayInv, PaysOneApproval
  <2>3. ASSUME NEW i \in DOMAIN rest
        PROVE  /\ rest[i].call.fn = "fundVault" => hooks["approve"].status = "confirmed"
               /\ rest[i].call.fn = "approve" => hooks["approve"].status # "confirmed"
               /\ rest[i].hook = "approve" =>
                     /\ hooks["approve"].status = "sent"
                     /\ rest[i].call = Call("approve", asked)
                     /\ \A j \in DOMAIN rest : j > i => rest[j].call.fn # "approve"
    <3>1. i \in Nat /\ \A j \in DOMAIN rest : j \in Nat /\ (j > i => j + 1 > i + 1)
      <4>1. DOMAIN rest \subseteq Nat
        BY HeadTailProperties DEF WalletInv, Mined, rest
      <4>2. QED
        BY <4>1
    <3>2. QED
      BY <1>1, <3>1 DEF PayInv
  <2> HIDE DEF tx
  <2>4. QED
    BY <1>2, <2>1, <2>2, <2>3 DEF PayInv
<1>8. QED
  BY <1>6, <1>7

\* Every step of the front end keeps it.
LEMMA PayNextHolds == WalletInv /\ PayInv /\ [WebFrontEndNext]_allVars => PayInv'
<1>1. ASSUME PayInv, UNCHANGED <<visit, hooks, pool, moneyVars>> PROVE PayInv'
  BY <1>1, PayKept
<1>2. ASSUME WalletInv, PayInv, TimerFires PROVE PayInv'
  <2>1. hooks' = [hooks EXCEPT !["main"] = Idle] /\ UNCHANGED <<visit, pool, moneyVars>>
    BY <1>2 DEF TimerFires
  <2>2. hooks'["main"].status = "none" /\ hooks'["approve"] = hooks["approve"]
    BY <1>2, <2>1 DEF WalletInv, Idle, Hook
  <2>3. QED
    BY <1>2, <2>1, <2>2, PayKept
<1>3. Open \/ Reads => UNCHANGED <<visit, hooks, pool, moneyVars>>
  BY DEF Open, Reads, ReadNextVaultId, ReadOwners, ReadStates, ReadState, ReadConfig,
         ReadTiming, txVars
<1>4. Elsewhere \/ UNCHANGED webVars => UNCHANGED <<visit, hooks, pool, moneyVars>>
  BY DEF Elsewhere, webVars, txVars
<1>5. QED
  BY <1>1, <1>2, <1>3, <1>4, ClickPays, SendPays, MinedPays
  DEF WebFrontEndNext, allVars

\* The account pays no more than it last agreed to, in all: nothing before its
\* approval is confirmed, and afterwards nothing beyond that one approval, whatever
\* receipts are lost and whatever is pressed again.
THEOREM PaymentsBounded == WebFrontEndSpec => []PaysOneApproval
<1>1. WebFrontEndInit => WalletInv /\ PayInv
  BY WalletInitHolds, PayInitHolds DEF WebFrontEndInit
<1>2. PayInv => PaysOneApproval
  BY DEF PayInv
<1>3. QED
  BY <1>1, <1>2, WalletNextHolds, PayNextHolds, PTL DEF WebFrontEndSpec

-----------------------------------------------------------------------------
(* The pages are among the callers of the contract.                        *)

\* A step of the front end is one of the registry's or leaves the registry alone.
LEMMA StepIsRegistryStep == WalletInv /\ [WebFrontEndNext]_allVars => [Next]_vars
<1> SUFFICES ASSUME WalletInv, [WebFrontEndNext]_allVars PROVE [Next]_vars
  OBVIOUS
<1>1. CASE Elsewhere
  BY <1>1 DEF Elsewhere
<1>2. CASE Mined
  <2>1. Head(pool) \in Sent(visit.account)
    BY <1>2, HeadTailProperties DEF WalletInv, Mined
  <2>2. Effect(Head(pool).call) \/ UNCHANGED vars
    BY <1>2 DEF Mined
  <2>3. QED
    BY <2>1, <2>2, EffectIsRegistryStep DEF Sent, WalletInv
<1>3. CASE Open \/ Reads \/ TimerFires
  BY <1>3 DEF Open, Reads, ReadNextVaultId, ReadOwners, ReadStates, ReadState,
              ReadConfig, ReadTiming, TimerFires
<1>4. CASE Clicks
  BY <1>4 DEF Clicks, HandleLookup, Do, Write, DoApproveAndFund, DoFundVault, EditForm,
              HandleSubmit, GoToDashboard
<1>5. CASE Wallet
  BY <1>5 DEF Wallet, WalletRefuses, WalletSends, ReceiptLost
<1>6. QED
  BY <1>1, <1>2, <1>3, <1>4, <1>5 DEF WebFrontEndNext, allVars

\* With a tab open beside it the contract is still the contract: the front end
\* implements the registry's specification, so every theorem about the registry
\* holds of it.
THEOREM WebRefinesRegistry == WebFrontEndSpec => Spec
<1>1. WebFrontEndInit => WalletInv /\ Init
  BY WalletInitHolds DEF WebFrontEndInit, WebInit
<1>2. QED
  BY <1>1, WalletNextHolds, StepIsRegistryStep, PTL DEF WebFrontEndSpec, Spec

-----------------------------------------------------------------------------
(* What is shown, however old the readings.                                *)

\* The end of a vault that is shown is the end it came to.
EndShown(v) ==
    LET name == getStateName(ShownState(v))
    IN  name \in Over => vaults[v].state = name

\* The readings of one vault: its parties as they are or as they were before it
\* was created, its state as some state or other, and of a vault that existed
\* when it was looked at no end that is not true.
LookOf(v) ==
    /\ readOwner[v] \in {Unread, Failed, NoAddress, vaults[v].owner}
    /\ v < readNext => readOwner[v] \in {Unread, Failed, vaults[v].owner}
    /\ readGuardian[v] \in {Unread, NoAddress, vaults[v].guardianHaltKey}
    /\ readState[v] \in {Unread, Failed} \cup {Encoded(s) : s \in VaultState}
    /\ v < readNext \/ opened[v] = "known" => v < nextVaultId /\ EndShown(v)

\* Nothing is read before the page is open, or on the observer's page before the
\* id is looked up.
LookInv ==
    /\ visit.page \in Page /\ visit.v \in VaultId /\ visit.account \in Account
    /\ DOMAIN visit = {"page", "account", "v", "until", "clicks", "timed"}
    /\ opened \in [VaultId -> {"no", "known", "unborn"}]
    /\ DOMAIN readState = VaultId /\ DOMAIN readOwner = VaultId
    /\ DOMAIN readGuardian = VaultId
    /\ \A v \in VaultId : LookOf(v)
    /\ opened[visit.v] = "no" => \A v \in VaultId : readState[v] = Unread
    /\ visit.page = "observe" =>
          \A v \in VaultId : opened[v] = "no" => readState[v] = Unread

lookVars == <<visit, opened, readNext, readState, readOwner, readGuardian>>

\* The pages name the states as the contract counts them, and the state that is
\* only passed through is never answered.
LEMMA NameOfEncoded ==
    ASSUME NEW s \in VaultState
    PROVE  /\ getStateName(Encoded(s)) = s
           /\ Encoded(s) \in 0..8 /\ Encoded(s) # 5
           /\ Encoded(s) = 7 => s = "FULLY_RELEASED"
           /\ s = "ACTIVE" => Encoded(s) = 0
<1>1. DOMAIN EnumOrder = 1..9 /\ DOMAIN VAULT_STATES = 1..9 /\ EnumOrder = VAULT_STATES
  BY DEF EnumOrder, VAULT_STATES
<1>2. /\ EnumOrder[1] = "ACTIVE" /\ EnumOrder[2] = "WARNING"
      /\ EnumOrder[3] = "QUORUM_PENDING" /\ EnumOrder[4] = "DISPUTE_WINDOW"
      /\ EnumOrder[5] = "SLASHING_REVIEW" /\ EnumOrder[6] = "TRANCHE_1_RELEASED"
      /\ EnumOrder[7] = "FINAL_WINDOW" /\ EnumOrder[8] = "FULLY_RELEASED"
      /\ EnumOrder[9] = "CLOSED"
  BY DEF EnumOrder
<1>3. \E i \in DOMAIN EnumOrder : EnumOrder[i] = s
  BY <1>1, <1>2 DEF VaultState
<1> DEFINE i == CHOOSE j \in DOMAIN EnumOrder : EnumOrder[j] = s
<1>4. i \in 1..9 /\ EnumOrder[i] = s
  BY <1>1, <1>3
<1>5. Encoded(s) = i - 1
  BY DEF Encoded
<1> HIDE DEF i
<1>6. Encoded(s) \in 0..8 /\ Encoded(s) + 1 = i
  BY <1>4, <1>5
<1>7. i # 6 /\ (i = 8 => s = "FULLY_RELEASED") /\ (s = "ACTIVE" => i = 1)
  BY <1>2, <1>4 DEF VaultState
<1>8. QED
  BY <1>1, <1>4, <1>6, <1>7 DEF getStateName

\* A state just read, or not read at all, shows no end that is not the vault's.
LEMMA FreshEnd ==
    ASSUME NEW state \in VaultState, NEW number \in {Unread, Failed, Encoded(state)}
    PROVE  LET name == getStateName(IF number \in {Unread, Failed} THEN 0 ELSE number)
           IN  name \in Over => state = name
<1>1. CASE number \in {Unread, Failed}
  <2>1. getStateName(0) = "ACTIVE"
    BY DEF getStateName, VAULT_STATES
  <2>2. QED
    BY <1>1, <2>1 DEF Over
<1>2. CASE number \notin {Unread, Failed}
  BY <1>2, NameOfEncoded
<1>3. QED
  BY <1>1, <1>2

\* Nothing is read at first.
LEMMA LookInitHolds == WebInit => LookInv
<1> SUFFICES ASSUME WebInit PROVE LookInv
  OBVIOUS
<1>1. visit \in Visits
  BY WebAssumption DEF WebInit, Visits
<1>2. getStateName(0) = "ACTIVE"
  BY DEF getStateName, VAULT_STATES
<1>3. ASSUME NEW v \in VaultId PROVE LookOf(v)
  BY <1>2, <1>3 DEF WebInit, NothingRead, LookOf, EndShown, ShownState, Over, VaultId
<1>4. QED
  BY <1>1, <1>3 DEF WebInit, NothingRead, LookInv, Visits

\* A step of the contract creates no vault before the next one, changes the parties
\* of none that exists and brings back none that is over.
LEMMA RegistryMoves ==
    ASSUME IInv, [Next]_vars, NEW v \in VaultId
    PROVE  /\ v < nextVaultId =>
                 /\ v < nextVaultId'
                 /\ vaults'[v].owner = vaults[v].owner
                 /\ vaults'[v].guardianHaltKey = vaults[v].guardianHaltKey
                 /\ vaults[v].state \in Over => vaults'[v].state = vaults[v].state
           /\ ~(v < nextVaultId) =>
                 vaults[v].owner = NoAddress /\ vaults[v].guardianHaltKey = NoAddress
<1>1. nextVaultId' = nextVaultId \/ nextVaultId' = nextVaultId + 1
  <2>1. ASSUME NEW caller \in Account, NEW w \in VaultId,
               \/ \E quorumMet \in BOOLEAN : SubmitQuorumResult(caller, w, quorumMet)
               \/ \E hash \in LegalDoc : AnchorLegalDoc(caller, w, hash)
               \/ \E amount \in Amount : FundVault(caller, w, amount)
               \/ CheckIn(caller, w) \/ OwnerOverride(caller, w)
               \/ GuardianHalt(caller, w)
               \/ CancelVault(caller, w) \/ SubmitVerifiedAttestation(caller, w)
               \/ MarkWarning(w) \/ RequestAttestation(w)
               \/ FinalizeDisputeWindow(w) \/ FinalizeFinalWindow(w)
        PROVE  nextVaultId' = nextVaultId
    BY <2>1
    DEF SubmitQuorumResult, AnchorLegalDoc, FundVault, CheckIn, OwnerOverride,
        GuardianHalt, CancelVault, SubmitVerifiedAttestation, MarkWarning,
        RequestAttestation, FinalizeDisputeWindow, FinalizeFinalWindow
  <2>2. ASSUME NEW caller \in Account, NEW plan \in PlanHash, NEW asset \in Asset,
               NEW timing \in Timing, NEW guardian \in GuardianKey,
               CreateVault(caller, plan, asset, timing, guardian)
        PROVE  nextVaultId' = nextVaultId + 1
    BY <2>2 DEF CreateVault
  <2>3. QED
    BY <2>1, <2>2, StepKinds
<1>2. nextVaultId \in Nat /\ v \in Nat /\ IdentityOf(v)
  BY RegistryAssumption DEF IInv, TypeOK, Sound, VaultId
<1>3. v < nextVaultId => v < nextVaultId'
  BY <1>1, <1>2
<1>4. QED
  BY <1>2, <1>3, StepKeepsConfig, FinishedStays DEF IdentityKept, IdentityOf, Over

\* What was read stays true as far as it was promised, whatever the contract does.
LEMMA LookKept ==
    ASSUME IInv, LookInv, [Next]_vars, UNCHANGED lookVars
    PROVE  LookInv'
<1>1. ASSUME NEW v \in VaultId PROVE LookOf(v)'
  <2>1. LookOf(v)
    BY DEF LookInv
  <2>2. UNCHANGED <<ShownState(v), getStateName(ShownState(v))>>
    BY DEF lookVars, ShownState, getStateName
  <2>3. EndShown(v) /\ v < nextVaultId => EndShown(v)'
    BY <2>2, RegistryMoves DEF EndShown
  <2>4. QED
    BY <2>1, <2>3, RegistryMoves DEF LookOf, lookVars
<1>2. QED
  BY <1>1 DEF LookInv, lookVars

\* The first look at an id finds nothing read of it.
LEMMA OpenHolds ==
    ASSUME IInv, LookInv, Open
    PROVE  LookInv'
<1> DEFINE look == IF opened[visit.v] # "no" THEN opened[visit.v]
                   ELSE IF visit.v < nextVaultId THEN "known" ELSE "unborn"
<1>1. /\ opened' = [opened EXCEPT ![visit.v] = look]
      /\ UNCHANGED <<vars, visit, readNext, readState, readOwner, readGuardian>>
  BY DEF Open, LookAt, readVars
<1>2. \A v \in VaultId : readState[v] = Unread
  BY DEF Open, LookInv
<1>3. ASSUME NEW v \in VaultId PROVE LookOf(v)'
  <2>1. LookOf(v) /\ EndShown(v)
    BY <1>2, FreshEnd DEF LookInv, IInv, TypeOK, Vault, EndShown, ShownState
  <2>2. EndShown(v)'
    BY <1>1, <2>1 DEF EndShown, ShownState, getStateName, vars
  <2>3. opened'[v] = "known" => opened[v] = "known" \/ v < nextVaultId
    BY <1>1 DEF LookInv
  <2>4. QED
    BY <1>1, <2>1, <2>2, <2>3 DEF LookOf, vars
<1>4. opened' \in [VaultId -> {"no", "known", "unborn"}] /\ opened'[visit.v] # "no"
  BY <1>1 DEF LookInv
<1>5. QED
  BY <1>1, <1>2, <1>3, <1>4 DEF LookInv

\* A reading of the dashboard: every id up to the number read existed.
LEMMA BatchHolds ==
    ASSUME IInv, LookInv,
           ReadNextVaultId \/ \E missing \in SUBSET VaultId :
                                 ReadOwners(missing) \/ ReadStates(missing)
    PROVE  LookInv'
<1>1. /\ visit.page = "dashboard" /\ opened[visit.v] # "no"
      /\ UNCHANGED <<vars, visit, opened, readGuardian>>
  BY DEF ReadNextVaultId, ReadOwners, ReadStates, On
<1>2. ASSUME NEW v \in VaultId PROVE LookOf(v)'
  <2>1. LookOf(v) /\ vaults[v].state \in VaultState
    BY DEF LookInv, IInv, TypeOK, Vault
  <2>2. CASE readNext' = readNext /\ readState' = readState /\ readOwner' = readOwner
    BY <1>1, <2>1, <2>2 DEF LookOf, EndShown, ShownState, getStateName, vars, LookInv
  <2>3. CASE readNext' = nextVaultId /\ readState' = NothingRead /\ readOwner' = NothingRead
    <3>1. readState'[v] = Unread /\ readOwner'[v] = Unread
      BY <2>3 DEF NothingRead
    <3>2. EndShown(v)'
      BY <1>1, <2>1, <3>1, FreshEnd DEF EndShown, ShownState, vars
    <3>3. QED
      BY <1>1, <2>1, <2>3, <3>1, <3>2 DEF LookOf, NothingRead, vars
  <2>4. ASSUME NEW missing \in SUBSET VaultId, ReadOwners(missing)
        PROVE  LookOf(v)'
    <3>1. /\ readNext' = readNext /\ readState' = readState
          /\ readOwner' = Batch(missing, [w \in VaultId |-> vaults[w].owner])
      BY <2>4 DEF ReadOwners
    <3>2. v \in DOMAIN readOwner' /\ readOwner'[v] \in {Unread, Failed, vaults[v].owner}
      BY <3>1 DEF Batch
    <3>3. QED
      BY <1>1, <2>1, <3>1, <3>2
      DEF LookOf, EndShown, ShownState, getStateName, vars, LookInv
  <2>5. ASSUME NEW missing \in SUBSET VaultId, ReadStates(missing)
        PROVE  LookOf(v)'
    <3>1. /\ readNext' = readNext /\ readOwner' = readOwner
          /\ readState' = Batch(missing, [w \in VaultId |-> Encoded(vaults[w].state)])
      BY <2>5 DEF ReadStates
    <3>2. /\ v \in DOMAIN readState'
          /\ readState'[v] \in {Unread, Failed, Encoded(vaults[v].state)}
      BY <3>1 DEF Batch
    <3>3. EndShown(v)'
      BY <1>1, <2>1, <3>2, FreshEnd DEF EndShown, ShownState, vars
    <3>4. QED
      BY <1>1, <2>1, <3>1, <3>2, <3>3 DEF LookOf, vars, LookInv
  <2>6. QED
    BY <2>2, <2>3, <2>4, <2>5 DEF ReadNextVaultId
<1>3. DOMAIN readState' = VaultId /\ DOMAIN readOwner' = VaultId
  BY DEF ReadNextVaultId, ReadOwners, ReadStates, Batch, NothingRead, LookInv
<1>4. QED
  BY <1>1, <1>2, <1>3 DEF LookInv

\* A reading of one vault.
LEMMA ReadingHolds ==
    ASSUME IInv, LookInv, ReadState \/ ReadConfig
    PROVE  LookInv'
<1> PICK v \in VaultId : v = visit.v
  BY DEF LookInv
<1>1. /\ opened[v] # "no" /\ v = visit.v
      /\ UNCHANGED <<vars, visit, opened, readNext>>
  BY DEF ReadState, ReadConfig, On, LookInv
<1>2. CASE ReadState
  <2>1. /\ readState' = [readState EXCEPT ![v] = Encoded(vaults[v].state)]
        /\ UNCHANGED <<readOwner, readGuardian>>
    BY <1>2 DEF ReadState
  <2>2. vaults[v].state \in VaultState /\ LookOf(v)
    BY <1>1 DEF LookInv, IInv, TypeOK, Vault
  <2>3. readState'[v] = Encoded(vaults[v].state)
    BY <1>1, <2>1 DEF LookInv
  <2>4. LookOf(v)'
    <3>1. EndShown(v)'
      BY <1>1, <2>2, <2>3, FreshEnd DEF EndShown, ShownState, vars
    <3>2. QED
      BY <1>1, <2>1, <2>2, <2>3, <3>1 DEF LookOf, vars
  <2>5. ASSUME NEW w \in VaultId \ {v} PROVE LookOf(w)' /\ readState'[w] = readState[w]
    <3>1. LookOf(w) /\ readState'[w] = readState[w]
      BY <2>1, <2>5 DEF LookInv
    <3>2. QED
      BY <1>1, <2>1, <3>1 DEF LookOf, EndShown, ShownState, getStateName, vars
  <2>6. QED
    BY <1>1, <2>1, <2>4, <2>5 DEF LookInv
<1>3. CASE ReadConfig
  <2>1. /\ readOwner' = [readOwner EXCEPT ![v] = vaults[v].owner]
        /\ readGuardian' = [readGuardian EXCEPT ![v] = vaults[v].guardianHaltKey]
        /\ UNCHANGED readState
    BY <1>3 DEF ReadConfig
  <2>2. ASSUME NEW w \in VaultId PROVE LookOf(w)'
    <3>1. /\ LookOf(w)
          /\ readOwner'[w] \in {readOwner[w], vaults[w].owner}
          /\ readGuardian'[w] \in {readGuardian[w], vaults[w].guardianHaltKey}
      BY <2>1 DEF LookInv
    <3>2. QED
      BY <1>1, <2>1, <3>1 DEF LookOf, EndShown, ShownState, getStateName, vars
  <2>3. QED
    BY <1>1, <2>1, <2>2 DEF LookInv
<1>4. QED
  BY <1>2, <1>3

\* The observer goes on to another id, and a creator to the dashboard.
LEMMA MoveHolds ==
    ASSUME LookInv, GoToDashboard \/ \E v \in VaultId : HandleLookup(v)
    PROVE  LookInv'
<1>1. CASE GoToDashboard
  <2>1. /\ visit' = [visit EXCEPT !.page = "dashboard"] /\ opened[visit.v] # "no"
        /\ UNCHANGED <<vars, opened, readNext, readState, readOwner, readGuardian>>
    BY <1>1 DEF GoToDashboard, On, readVars
  <2>2. visit'.page = "dashboard" /\ visit'.v = visit.v /\ visit'.account = visit.account
    BY <2>1 DEF LookInv
  <2>3. ASSUME NEW v \in VaultId PROVE LookOf(v)'
    BY <2>1 DEF LookInv, LookOf, EndShown, ShownState, getStateName, vars
  <2>4. DOMAIN visit' = DOMAIN visit
    BY <2>1
  <2>5. QED
    BY <2>1, <2>2, <2>3, <2>4 DEF LookInv, Page
<1>2. ASSUME NEW v \in VaultId, HandleLookup(v) PROVE LookInv'
  <2> DEFINE look == IF opened[v] # "no" THEN opened[v]
                     ELSE IF v < nextVaultId THEN "known" ELSE "unborn"
  <2>1. /\ visit' = [visit EXCEPT !.v = v] /\ visit.page = "observe"
        /\ opened' = [opened EXCEPT ![v] = look]
        /\ UNCHANGED <<vars, readNext, readState, readOwner, readGuardian>>
    BY <1>2 DEF HandleLookup, LookAt, On, readVars
  <2>2. /\ visit'.page = visit.page /\ visit'.v = v /\ visit'.account = visit.account
        /\ DOMAIN visit' = DOMAIN visit
    BY <2>1 DEF LookInv
  <2>3. /\ opened' \in [VaultId -> {"no", "known", "unborn"}]
        /\ opened'[v] # "no"
        /\ \A w \in VaultId \ {v} : opened'[w] = opened[w]
    BY <2>1 DEF LookInv
  <2>4. ASSUME NEW w \in VaultId PROVE LookOf(w)'
    <3>1. LookOf(w)
      BY DEF LookInv
    <3>2. CASE opened'[w] = opened[w]
      BY <2>1, <3>1, <3>2 DEF LookOf, EndShown, ShownState, getStateName, vars
    <3>3. CASE opened'[w] # opened[w]
      <4>1. w = v /\ opened[v] = "no" /\ readState[v] = Unread
        BY <2>1, <2>3, <3>3 DEF LookInv
      <4>2. EndShown(v)'
        BY <2>1, <4>1, FreshEnd DEF EndShown, ShownState, VaultState
      <4>3. opened'[v] = "known" => v < nextVaultId
        BY <2>1, <4>1 DEF LookInv
      <4>4. QED
        BY <2>1, <3>1, <4>1, <4>2, <4>3 DEF LookOf, vars
    <3>4. QED
      BY <3>2, <3>3
  <2>5. QED
    BY <2>1, <2>2, <2>3, <2>4 DEF LookInv
<1>3. QED
  BY <1>1, <1>2

\* Every step of the front end keeps it.
LEMMA LookNextHolds ==
    IInv /\ WalletInv /\ LookInv /\ [WebFrontEndNext]_allVars => LookInv'
<1> SUFFICES ASSUME IInv, WalletInv, LookInv, [WebFrontEndNext]_allVars PROVE LookInv'
  OBVIOUS
<1>1. CASE UNCHANGED lookVars
  BY <1>1, LookKept, StepIsRegistryStep
<1>2. Elsewhere \/ Mined \/ Wallet \/ TimerFires => UNCHANGED lookVars
  BY DEF Elsewhere, webVars, readVars, Mined, Wallet, WalletRefuses, WalletSends,
         ReceiptLost, TimerFires, lookVars
<1>3. UNCHANGED webVars => UNCHANGED lookVars
  BY DEF webVars, readVars, lookVars
<1>4. CASE Reads
  <2>1. ReadTiming => UNCHANGED lookVars
    BY DEF ReadTiming, lookVars
  <2>2. QED
    BY <1>1, <1>4, <2>1, BatchHolds, ReadingHolds DEF Reads
<1>5. CASE Clicks
  <2>1. \/ GoToDashboard \/ \E v \in VaultId : HandleLookup(v)
        \/ UNCHANGED lookVars
    BY <1>5 DEF Clicks, Do, Write, DoApproveAndFund, DoFundVault, EditForm,
                HandleSubmit, readVars, lookVars
  <2>2. QED
    BY <1>1, <2>1, MoveHolds
<1>6. QED
  BY <1>1, <1>2, <1>3, <1>4, <1>5, OpenHolds DEF WebFrontEndNext, allVars

\* What was read is as the invariant of the readings says.
THEOREM ReadingsHold == WebFrontEndSpec => []LookInv
<1>1. WebFrontEndInit => LookInv /\ WalletInv
  BY LookInitHolds, WalletInitHolds DEF WebFrontEndInit
<1>2. QED
  BY <1>1, WalletNextHolds, LookNextHolds, WebRefinesRegistry, InvariantHolds, PTL
  DEF WebFrontEndSpec

\* Nobody is shown somebody else's vault as his own, or its panel.
THEOREM OnlyOwnVaults == WebFrontEndSpec => []OwnVaultsOnly
<1>1. ASSUME LookInv PROVE OwnVaultsOnly
  <2>1. visit.account \notin {Unread, Failed, NoAddress} /\ visit.v \in VaultId
    BY <1>1, WebAssumption, RegistryAssumption DEF LookInv
  <2>2. allVaultsLoaded =>
          DOMAIN Cards = {v \in vaultIds : /\ readOwner[v] # Failed
                                           /\ vaults[v].owner = visit.account}
    <3>1. ASSUME allVaultsLoaded, NEW v \in vaultIds
          PROVE  readOwner[v] = visit.account
                   <=> readOwner[v] # Failed /\ vaults[v].owner = visit.account
      BY <1>1, <2>1, <3>1 DEF LookInv, LookOf, vaultIds, allVaultsLoaded, Answered
    <3>2. DOMAIN Cards = {v \in myVaults : allVaultsLoaded}
      BY DEF Cards
    <3>3. QED
      BY <3>1, <3>2 DEF myVaults
  <2>3. Offered # {} =>
          visit.account \in {vaults[visit.v].owner, vaults[visit.v].guardianHaltKey}
    BY <1>1, <2>1 DEF Offered, Offers, LookInv, LookOf
  <2>4. QED
    BY <2>2, <2>3 DEF OwnVaultsOnly
<1>2. QED
  BY <1>1, ReadingsHold, PTL

\* A card or page that says a vault is over says the truth, however old it is.
THEOREM EndsAreTrue == WebFrontEndSpec => []ShownEndIsTrue
<1>1. ASSUME LookInv PROVE ShownEndIsTrue
  <2>1. ASSUME NEW v \in DOMAIN Cards
        PROVE  getStateName(Cards[v]) \in Over => vaults[v].state = getStateName(Cards[v])
    <3>1. v \in vaultIds /\ Cards[v] = ShownState(v)
      BY DEF Cards, Card, myVaults
    <3>2. EndShown(v)
      BY <1>1, <3>1 DEF LookInv, LookOf, vaultIds
    <3>3. QED
      BY <3>1, <3>2 DEF EndShown
  <2>2. ASSUME opened[visit.v] = "known" PROVE EndShown(visit.v)
    BY <1>1, <2>2 DEF LookInv, LookOf
  <2>3. ASSUME opened[visit.v] = "known", ReleaseShown
        PROVE  vaults[visit.v].state = "FULLY_RELEASED"
    <3>1. PICK s \in VaultState : ShownState(visit.v) = Encoded(s)
      <4>1. "ACTIVE" \in VaultState /\ Encoded("ACTIVE") = 0
        BY NameOfEncoded DEF VaultState
      <4>2. QED
        BY <1>1, <4>1 DEF LookInv, LookOf, ShownState, VaultState
    <3>2. s = "FULLY_RELEASED" /\ getStateName(ShownState(visit.v)) = s
      BY <2>3, <3>1, NameOfEncoded DEF ReleaseShown
    <3>3. QED
      BY <2>2, <2>3, <3>2 DEF EndShown, Over
  <2>4. QED
    BY <2>1, <2>2, <2>3 DEF ShownEndIsTrue, EndShown
<1>2. QED
  BY <1>1, ReadingsHold, PTL

-----------------------------------------------------------------------------
(* The countdown.                                                          *)

\* A vault's clock: nobody checked in ahead of time, a vault asked about is past
\* its deadline, a check-in of this very second has set the deadline and left the
\* vault active unless it was closed at once, and an id that was never created is
\* past its deadline whatever was done to it.
ClockOf(v) ==
    LET timing == vaults[v].timing
    IN  /\ vaults[v].lastCheckIn <= now
        /\ vaults[v].state = "QUORUM_PENDING" => vaults[v].windowDeadline <= now
        /\ v < nextVaultId =>
              /\ timing.checkInInterval \in Window
              /\ vaults[v].lastCheckIn = now =>
                    /\ vaults[v].windowDeadline = now + timing.checkInInterval
                    /\ vaults[v].state \in {"ACTIVE", "CLOSED"}
        /\ ~(v < nextVaultId) =>
              /\ vaults[v].windowDeadline <= now
              /\ timing.graceWindow = 0
              /\ timing.disputeWindow = 0 /\ timing.finalWindow = 0

\* What was read of a clock has run out, or is still right unless the timers were
\* restarted since; a vault read as closed stays so.
TimingOf(v) ==
    LET read == readTiming[v]
    IN  read # Unread =>
            /\ read.lastCheckIn \in Nat /\ read.windowDeadline \in Nat
            /\ \/ read.windowDeadline <= now
               \/ /\ v < nextVaultId /\ read.lastCheckIn <= now
                  /\ read.state = "CLOSED" => vaults[v].state = "CLOSED"
                  /\ read.lastCheckIn = now =>
                        /\ read.windowDeadline = now + ToWarning(v)
                        /\ read.state \in {"ACTIVE", "CLOSED"}
                  /\ read.lastCheckIn = vaults[v].lastCheckIn =>
                        /\ read.windowDeadline = vaults[v].windowDeadline
                        /\ vaults[v].state \in {read.state, "CLOSED"}

ClockInv == \A v \in VaultId : ClockOf(v)

TimingInv == DOMAIN readTiming = VaultId /\ \A v \in VaultId : TimingOf(v)

\* The three things that happen to a clock.
Runs(v) ==
    /\ ClockKept(v) /\ vaults'[v].timing = vaults[v].timing
    /\ now' \in Nat /\ now' >= now
    /\ (v < nextVaultId') <=> (v < nextVaultId)
    /\ vaults'[v].state = "QUORUM_PENDING" => vaults[v].windowDeadline <= now
    /\ \/ vaults'[v].state \in {vaults[v].state, "CLOSED"}
       \/ vaults[v].windowDeadline <= now /\ vaults[v].state # "CLOSED"

Restarts(v) ==
    /\ now' = now /\ vaults'[v].lastCheckIn = now /\ v < nextVaultId'
    /\ vaults'[v].timing.checkInInterval \in Window
    /\ vaults'[v].windowDeadline = now + vaults'[v].timing.checkInInterval
    /\ vaults'[v].state = "ACTIVE"
    /\ v < nextVaultId => /\ vaults[v].state # "CLOSED"
                          /\ vaults'[v].timing = vaults[v].timing

Advances(v) ==
    LET timing == vaults[v].timing
    IN  /\ now' = now /\ vaults[v].windowDeadline <= now /\ vaults[v].state # "CLOSED"
        /\ vaults'[v].lastCheckIn = vaults[v].lastCheckIn
        /\ vaults'[v].timing = vaults[v].timing
        /\ (v < nextVaultId') <=> (v < nextVaultId)
        /\ vaults'[v].state # "QUORUM_PENDING"
        /\ vaults'[v].windowDeadline \in
              {now + timing.graceWindow, now + timing.disputeWindow,
               now + timing.finalWindow}

\* A call that concerns one vault.
LEMMA CallMovesClock ==
    ASSUME IInv, ClockInv, NEW caller \in Account, NEW v \in VaultId,
           NEW quorumMet \in BOOLEAN,
           \/ CheckIn(caller, v) \/ OwnerOverride(caller, v) \/ GuardianHalt(caller, v)
           \/ SubmitQuorumResult(caller, v, quorumMet)
           \/ SubmitVerifiedAttestation(caller, v)
           \/ MarkWarning(v) \/ RequestAttestation(v) \/ FinalizeDisputeWindow(v)
    PROVE  Runs(v) \/ Restarts(v) \/ Advances(v)
<1>1. TypeOK /\ IdentityOf(v) /\ ClockOf(v) /\ now \in Nat /\ nextVaultId \in Nat
  BY RegistryAssumption DEF IInv, Sound, ClockInv, TypeOK
<1>2. /\ {"WARNING", "QUORUM_PENDING", "DISPUTE_WINDOW"} \subseteq VaultState
      /\ now + vaults[v].timing.graceWindow \in Nat
      /\ now + vaults[v].timing.disputeWindow \in Nat
      /\ vaults[v].windowDeadline \in Nat
  BY <1>1, TimingNat DEF VaultState
<1>3. CASE CheckIn(caller, v) \/ OwnerOverride(caller, v) \/ GuardianHalt(caller, v)
  <2>1. v < nextVaultId /\ vaults[v].state # "CLOSED"
    BY <1>1, <1>3, RegistryAssumption
    DEF CheckIn, OwnerOverride, GuardianHalt, IdentityOf
  <2>2. vaults' = Restarted(v) /\ UNCHANGED <<now, nextVaultId>>
    BY <1>3 DEF CheckIn, OwnerOverride, GuardianHalt
  <2>3. QED
    BY <1>1, <2>1, <2>2, RestartEffect DEF ClockOf, Restarts, IdentityKept
<1>4. CASE MarkWarning(v)
  <2>1. vaults[v].windowDeadline <= now
    BY <1>1, <1>2, <1>4 DEF MarkWarning
  <2>2. QED
    BY <1>1, <1>2, <1>4, <2>1, EnterEffect DEF MarkWarning, Advances, IdentityKept
<1>5. CASE RequestAttestation(v)
  <2>1. vaults[v].windowDeadline <= now
    BY <1>5 DEF RequestAttestation
  <2>2. QED
    BY <1>1, <1>2, <1>5, <2>1, EnterEffect
    DEF RequestAttestation, Runs, ClockKept, IdentityKept
<1>6. CASE SubmitQuorumResult(caller, v, quorumMet) \/ SubmitVerifiedAttestation(caller, v)
  <2> DEFINE d == now + vaults[v].timing.disputeWindow
  <2>1. /\ UNCHANGED <<nextVaultId, now>>
        /\ \/ vaults' = vaults
           \/ vaults[v].state = "QUORUM_PENDING" /\ vaults' = Entered(v, "DISPUTE_WINDOW", d)
    BY <1>6 DEF SubmitQuorumResult, SubmitVerifiedAttestation
  <2>2. CASE vaults' = vaults
    BY <1>1, <2>1, <2>2 DEF ClockOf, Runs, ClockKept
  <2>3. CASE vaults[v].state = "QUORUM_PENDING" /\ vaults' = Entered(v, "DISPUTE_WINDOW", d)
    <3>1. vaults[v].windowDeadline <= now
      BY <1>1, <2>3 DEF ClockOf
    <3>2. QED
      BY <1>1, <1>2, <2>1, <2>3, <3>1, EnterEffect DEF Advances, IdentityKept
  <2>4. QED
    BY <2>1, <2>2, <2>3
<1>7. CASE FinalizeDisputeWindow(v)
  <2>1. /\ vaults[v].windowDeadline <= now /\ vaults[v].state # "CLOSED"
        /\ UNCHANGED <<now, nextVaultId>>
    BY <1>1, <1>2, <1>7 DEF FinalizeDisputeWindow
  <2>2. QED
    BY <1>1, <1>7, <2>1, FinalizeDisputeEffect DEF Advances, IdentityKept
<1>8. QED
  BY <1>3, <1>4, <1>5, <1>6, <1>7

\* A call that leaves its clock alone.
LEMMA CallKeepsClock ==
    ASSUME IInv, ClockInv, NEW caller \in Account, NEW v \in VaultId,
           \/ \E hash \in LegalDoc : AnchorLegalDoc(caller, v, hash)
           \/ \E amount \in Amount : FundVault(caller, v, amount)
           \/ CancelVault(caller, v) \/ FinalizeFinalWindow(v)
    PROVE  Runs(v)
<1>1. TypeOK /\ IdentityOf(v) /\ ClockOf(v) /\ now \in Nat
  BY DEF IInv, Sound, ClockInv, TypeOK
<1>2. UNCHANGED <<now, nextVaultId>>
  BY DEF AnchorLegalDoc, FundVault, CancelVault, FinalizeFinalWindow
<1>3. /\ ClockKept(v) /\ vaults'[v].timing = vaults[v].timing
      /\ vaults'[v].state \in {vaults[v].state, "CLOSED", "FULLY_RELEASED"}
  BY <1>1, AnchorEffect, FundEffect, CancelEffect, FinalizeFinalEffect DEF IdentityKept
<1>4. \/ vaults'[v].state \in {vaults[v].state, "CLOSED"}
      \/ vaults[v].windowDeadline <= now /\ vaults[v].state # "CLOSED"
  <2>1. vaults[v].windowDeadline \in Nat
    BY <1>1, TimingNat
  <2>2. CASE FinalizeFinalWindow(v)
    BY <1>1, <2>1, <2>2 DEF FinalizeFinalWindow
  <2>3. QED
    BY <1>1, <2>2, AnchorEffect, FundEffect, CancelEffect
<1>5. QED
  BY <1>1, <1>2, <1>3, <1>4 DEF Runs, ClockOf

\* So every step lets the clock of every vault run, restarts it, or sets the next
\* deadline after the last has passed.
LEMMA ClockMoves ==
    ASSUME IInv, ClockInv, [Next]_vars, NEW v \in VaultId
    PROVE  Runs(v) \/ Restarts(v) \/ Advances(v)
<1>1. TypeOK /\ ClockOf(v) /\ now \in Nat /\ nextVaultId \in Nat /\ v \in Nat
  BY RegistryAssumption DEF IInv, ClockInv, TypeOK, VaultId
<1>2. CASE vaults' = vaults /\ nextVaultId' = nextVaultId
  <2>1. now' \in Nat /\ now' >= now
    <3>1. now' = now \/ now' = now + 1
      <4>1. CASE Tick
        BY <4>1 DEF Tick
      <4>2. CASE OwnerStep
        BY <4>2 DEF OwnerStep, CreateVault, CheckIn, FundVault, AnchorLegalDoc,
                    OwnerOverride, CancelVault
      <4>3. CASE GuardianStep \/ AdminStep \/ OracleStep \/ VerifierStep
        BY <4>3 DEF GuardianStep, AdminStep, OracleStep, VerifierStep, GuardianHalt,
                    SetFdcVerifier, SetQuorumThreshold, SubmitQuorumResult,
                    SubmitVerifiedAttestation
      <4>4. CASE KeeperStep
        BY <4>4 DEF KeeperStep, MarkWarning, RequestAttestation, FinalizeDisputeWindow,
                    FinalizeFinalWindow
      <4>5. QED
        BY <4>1, <4>2, <4>3, <4>4 DEF Next, vars
    <3>2. QED
      BY <1>1, <3>1
  <2>2. QED
    BY <1>1, <1>2, <2>1 DEF Runs, ClockKept, ClockOf
<1>3. ASSUME NEW caller \in Account, NEW plan \in PlanHash, NEW asset \in Asset,
             NEW timing \in Timing, NEW guardian \in GuardianKey,
             CreateVault(caller, plan, asset, timing, guardian)
      PROVE  Runs(v) \/ Restarts(v)
  <2>1. nextVaultId' = nextVaultId + 1 /\ now' = now
    BY <1>3 DEF CreateVault
  <2>2. CASE v = nextVaultId
    <3>1. timing.checkInInterval \in Window
      BY RegistryAssumption
    <3>2. QED
      BY <1>1, <1>3, <2>1, <2>2, <3>1, CreateEffect DEF Restarts
  <2>3. CASE v # nextVaultId
    BY <1>1, <1>3, <2>1, <2>3, CreateEffect DEF OthersKept, Runs, ClockKept, ClockOf
  <2>4. QED
    BY <2>2, <2>3
<1>4. ASSUME NEW caller \in Account, NEW w \in VaultId,
             \/ \E quorumMet \in BOOLEAN : SubmitQuorumResult(caller, w, quorumMet)
             \/ \E hash \in LegalDoc : AnchorLegalDoc(caller, w, hash)
             \/ \E amount \in Amount : FundVault(caller, w, amount)
             \/ CheckIn(caller, w) \/ OwnerOverride(caller, w) \/ GuardianHalt(caller, w)
             \/ CancelVault(caller, w) \/ SubmitVerifiedAttestation(caller, w)
             \/ MarkWarning(w) \/ RequestAttestation(w)
             \/ FinalizeDisputeWindow(w) \/ FinalizeFinalWindow(w)
      PROVE  Runs(v) \/ Restarts(v) \/ Advances(v)
  <2>1. UNCHANGED <<now, nextVaultId>>
    BY <1>4 DEF SubmitQuorumResult, AnchorLegalDoc, FundVault, CheckIn, OwnerOverride,
                GuardianHalt, CancelVault, SubmitVerifiedAttestation, MarkWarning,
                RequestAttestation, FinalizeDisputeWindow, FinalizeFinalWindow
  <2>2. CASE w = v
    BY <1>4, <2>2, CallMovesClock, CallKeepsClock
  <2>3. CASE w # v
    BY <1>1, <1>4, <2>1, <2>3, VaultStep DEF OthersKept, Runs, ClockKept, ClockOf
  <2>4. QED
    BY <2>2, <2>3
<1>5. QED
  BY <1>2, <1>3, <1>4, StepKinds

\* The clocks stay as they should.
LEMMA ClockHolds ==
    ASSUME IInv, ClockInv, [Next]_vars
    PROVE  ClockInv'
<1> SUFFICES ASSUME NEW v \in VaultId PROVE ClockOf(v)'
  BY DEF ClockInv
<1>1. /\ ClockOf(v) /\ now \in Nat
      /\ vaults[v].lastCheckIn \in Nat /\ vaults[v].windowDeadline \in Nat
      /\ vaults[v].timing.graceWindow \in Nat
      /\ vaults[v].timing.disputeWindow \in Nat /\ vaults[v].timing.finalWindow \in Nat
  BY TimingNat DEF ClockInv, IInv
<1>2. CASE Runs(v)
  BY <1>1, <1>2 DEF Runs, ClockKept, ClockOf, Window
<1>3. CASE Restarts(v)
  BY <1>1, <1>3 DEF Restarts, ClockOf, Window
<1>4. CASE Advances(v)
  BY <1>1, <1>4 DEF Advances, ClockOf, Window
<1>5. QED
  BY <1>2, <1>3, <1>4, ClockMoves

\* A reading stays right while the contract moves.
LEMMA TimingKept ==
    ASSUME IInv, ClockInv, TimingInv, [Next]_vars, UNCHANGED readTiming
    PROVE  TimingInv'
<1>1. ASSUME NEW v \in VaultId PROVE TimingOf(v)'
  <2>1. /\ TimingOf(v) /\ now \in Nat
        /\ vaults[v].lastCheckIn \in Nat /\ vaults[v].windowDeadline \in Nat
        /\ vaults[v].timing.checkInInterval \in Nat
    BY TimingNat DEF TimingInv, IInv
  <2>2. CASE readTiming[v] = Unread
    BY <2>2 DEF TimingOf
  <2>3. CASE Runs(v)
    BY <2>1, <2>3 DEF Runs, ClockKept, TimingOf, ToWarning
  <2>4. CASE Restarts(v)
    BY <2>1, <2>4 DEF Restarts, TimingOf, ToWarning
  <2>5. CASE Advances(v)
    BY <2>1, <2>5 DEF Advances, TimingOf, ToWarning
  <2>6. QED
    BY <2>3, <2>4, <2>5, ClockMoves
<1>2. QED
  BY <1>1 DEF TimingInv

\* A new reading is right.
LEMMA ReadTimingHolds ==
    ASSUME IInv, ClockInv, TimingInv, visit.v \in VaultId, ReadTiming
    PROVE  TimingInv'
<1> PICK v \in VaultId : v = visit.v
  OBVIOUS
<1> DEFINE read == [lastCheckIn |-> vaults[v].lastCheckIn,
                    windowDeadline |-> vaults[v].windowDeadline,
                    state |-> vaults[v].state]
<1>1. readTiming' = [readTiming EXCEPT ![v] = read] /\ UNCHANGED vars
  BY DEF ReadTiming
<1>2. /\ read.lastCheckIn = vaults[v].lastCheckIn
      /\ read.windowDeadline = vaults[v].windowDeadline
      /\ read.state = vaults[v].state
  OBVIOUS
<1> HIDE DEF read
<1>3. readTiming'[v] = read /\ DOMAIN readTiming' = VaultId
  BY <1>1 DEF TimingInv
<1>4. TimingOf(v)'
  <2>1. /\ ClockOf(v) /\ now \in Nat
        /\ vaults[v].lastCheckIn \in Nat /\ vaults[v].windowDeadline \in Nat
    BY TimingNat DEF ClockInv, IInv
  <2>2. QED
    BY <1>1, <1>2, <1>3, <2>1 DEF TimingOf, ClockOf, ToWarning, vars
<1>5. ASSUME NEW w \in VaultId \ {v} PROVE TimingOf(w)'
  <2>1. TimingOf(w) /\ readTiming'[w] = readTiming[w]
    BY <1>1 DEF TimingInv
  <2>2. QED
    BY <1>1, <2>1 DEF TimingOf, ToWarning, vars
<1>6. QED
  BY <1>3, <1>4, <1>5 DEF TimingInv

\* The clocks and what was read of them stay as their invariants say.
LEMMA ClocksHold == WebFrontEndSpec => [](ClockInv /\ TimingInv)
<1>1. WebFrontEndInit => WalletInv /\ ClockInv /\ TimingInv
  <2> SUFFICES ASSUME WebFrontEndInit PROVE ClockInv /\ TimingInv
    BY WalletInitHolds DEF WebFrontEndInit
  <2>1. Init /\ readTiming = NothingRead
    BY DEF WebFrontEndInit, WebInit
  <2>2. ASSUME NEW v \in VaultId PROVE ClockOf(v)
    <3>1. vaults[v] = ZeroVault /\ now = 1 /\ nextVaultId = 1 /\ v \in Nat /\ v >= 1
      BY <2>1, RegistryAssumption DEF Init, VaultId
    <3>2. QED
      BY <3>1 DEF ClockOf, ZeroVault
  <2>3. QED
    BY <2>1, <2>2 DEF ClockInv, TimingInv, TimingOf, NothingRead
<1>2. /\ IInv /\ WalletInv /\ ClockInv /\ TimingInv /\ [WebFrontEndNext]_allVars
      => ClockInv' /\ TimingInv'
  <2> SUFFICES ASSUME IInv, WalletInv, ClockInv, TimingInv, [WebFrontEndNext]_allVars
               PROVE  ClockInv' /\ TimingInv'
    OBVIOUS
  <2>1. [Next]_vars
    BY StepIsRegistryStep
  <2>2. ReadTiming \/ UNCHANGED readTiming
    <3>1. Open \/ Elsewhere \/ Mined \/ TimerFires \/ UNCHANGED allVars
          => UNCHANGED readTiming
      BY DEF Open, Elsewhere, webVars, readVars, Mined, TimerFires, allVars
    <3>2. Wallet => UNCHANGED readTiming
      BY DEF Wallet, WalletRefuses, WalletSends, ReceiptLost, readVars
    <3>3. Clicks => UNCHANGED readTiming
      BY DEF Clicks, HandleLookup, GoToDashboard, Do, Write, DoApproveAndFund,
             DoFundVault, EditForm, HandleSubmit, readVars
    <3>4. Reads => ReadTiming \/ UNCHANGED readTiming
      BY DEF Reads, ReadNextVaultId, ReadOwners, ReadStates, ReadState, ReadConfig
    <3>5. UNCHANGED webVars => UNCHANGED readTiming
      BY DEF webVars, readVars
    <3>6. QED
      BY <3>1, <3>2, <3>3, <3>4, <3>5 DEF WebFrontEndNext
  <2>3. QED
    BY <2>1, <2>2, ClockHolds, TimingKept, ReadTimingHolds DEF WalletInv, Visits
<1>3. QED
  BY <1>1, <1>2, WalletNextHolds, WebRefinesRegistry, InvariantHolds, PTL
  DEF WebFrontEndSpec

\* A countdown that is still running is right, however long ago its deadline was
\* read, unless the timers were restarted since: the contract has the same deadline,
\* and the vault is at the same stage or was closed.
THEOREM CountdownsAreRight == WebFrontEndSpec => []CountdownIsRight
<1>1. IInv /\ TimingInv => CountdownIsRight
  <2> SUFFICES ASSUME IInv, TimingInv, NEW v \in VaultId, readTiming[v] # Unread
               PROVE  \/ Remaining(readTiming[v].windowDeadline) = 0
                      \/ readTiming[v].lastCheckIn # vaults[v].lastCheckIn
                      \/ /\ vaults[v].windowDeadline = readTiming[v].windowDeadline
                         /\ vaults[v].state \in {readTiming[v].state, "CLOSED"}
    BY DEF CountdownIsRight
  <2>1. TimingOf(v) /\ now \in Nat
    BY DEF TimingInv, IInv, TypeOK
  <2>2. QED
    BY <2>1 DEF TimingOf, Remaining
<1>2. QED
  BY <1>1, ClocksHold, WebRefinesRegistry, InvariantHolds, PTL

-----------------------------------------------------------------------------
(* Types of the pages' variables.                                          *)

TimingReading == [lastCheckIn : 0..now, windowDeadline : Nat, state : VaultState]

\* What was read is of the kind that the call returns.
ReadingsTyped ==
    /\ readNext \in 0..(MaxVaultId + 1)
    /\ readState \in [VaultId -> 0..8 \cup {Unread, Failed}]
    /\ readOwner \in [VaultId -> Account \cup {NoAddress, Unread, Failed}]
    /\ readGuardian \in [VaultId -> Account \cup {NoAddress, Unread}]
    /\ readTiming \in [VaultId -> TimingReading \cup {Unread}]

\* The main hook waits for at most one transaction, and for none when it is
\* confirmed; the timer only runs then, and only on a vault's page.
HooksTyped ==
    /\ \A h \in {"main", "approve"} :
          hooks[h].status \in {"none", "wallet", "sent", "confirmed"}
    /\ timer \in BOOLEAN
    /\ timer => visit.page = "vault" /\ hooks["main"].status = "confirmed"
    /\ \A i \in DOMAIN pool : pool[i].hook = "main" =>
          /\ hooks["main"].status = "sent"
          /\ \A j \in DOMAIN pool : pool[j].hook = "main" => j = i
    /\ clicks \in 0..visit.clicks /\ lost \in 0..MaxLost

\* The contract's clock never goes back.
LEMMA ClockGoesOn ==
    ASSUME IInv, ClockInv, [Next]_vars, NEW v \in VaultId
    PROVE  now \in Nat /\ now' \in Nat /\ now' >= now
<1>1. now \in Nat
  BY DEF IInv, TypeOK
<1>2. QED
  BY <1>1, ClockMoves DEF Runs, Restarts, Advances

\* A reading stays of its kind while the clock runs on.
LEMMA ReadingsKept ==
    ASSUME IInv, WalletInv, ClockInv, ReadingsTyped, [Next]_vars,
           UNCHANGED <<readNext, readState, readOwner, readGuardian, readTiming>>
    PROVE  ReadingsTyped'
<1>1. now \in Nat /\ now' \in Nat /\ now' >= now
  BY ClockGoesOn DEF WalletInv, Visits
<1>2. 0..now \subseteq 0..now'
  BY <1>1
<1>3. TimingReading \subseteq TimingReading'
  BY <1>2 DEF TimingReading
<1>4. readTiming' \in [VaultId -> TimingReading' \cup {Unread}]
  BY <1>3 DEF ReadingsTyped
<1>5. QED
  BY <1>4 DEF ReadingsTyped

\* A new reading is of its kind.
LEMMA ReadsTyped ==
    ASSUME IInv, WalletInv, ClockInv, ReadingsTyped, Reads
    PROVE  ReadingsTyped'
<1>1. TypeOK /\ MaxVaultId \in Nat /\ nextVaultId \in 0..(MaxVaultId + 1)
  BY RegistryAssumption DEF IInv, TypeOK
<1>2. ASSUME NEW v \in VaultId
      PROVE  /\ vaults[v].owner \in Account \cup {NoAddress}
             /\ vaults[v].guardianHaltKey \in Account \cup {NoAddress}
             /\ Encoded(vaults[v].state) \in 0..8
             /\ vaults[v].lastCheckIn \in 0..now /\ vaults[v].windowDeadline \in Nat
             /\ vaults[v].state \in VaultState
  <2>1. vaults[v] \in Vault /\ ClockOf(v) /\ now \in Nat
    BY <1>1 DEF TypeOK, ClockInv
  <2>2. QED
    BY <2>1, NameOfEncoded DEF Vault, ClockOf
<1>3. UNCHANGED now
  BY DEF Reads, ReadNextVaultId, ReadOwners, ReadStates, ReadState, ReadConfig, ReadTiming,
         vars
<1>4. visit.v \in VaultId
  BY DEF WalletInv, Visits
<1>5. CASE ReadNextVaultId
  BY <1>1, <1>3, <1>5 DEF ReadNextVaultId, ReadingsTyped, TimingReading, NothingRead
<1>6. ASSUME NEW missing \in SUBSET VaultId, ReadOwners(missing) PROVE ReadingsTyped'
  BY <1>2, <1>3, <1>6 DEF ReadOwners, Batch, ReadingsTyped, TimingReading
<1>7. ASSUME NEW missing \in SUBSET VaultId, ReadStates(missing) PROVE ReadingsTyped'
  <2>1. \A v \in VaultId : Encoded(vaults[v].state) \in 0..8
    BY <1>2
  <2>2. /\ readState' = Batch(missing, [v \in VaultId |-> Encoded(vaults[v].state)])
        /\ UNCHANGED <<readNext, readOwner, readGuardian, readTiming>>
    BY <1>7 DEF ReadStates
  <2>3. readState' \in [VaultId -> 0..8 \cup {Unread, Failed}]
    BY <2>1, <2>2 DEF Batch
  <2>4. QED
    BY <1>3, <2>2, <2>3 DEF ReadingsTyped, TimingReading
<1>8. CASE ReadState
  BY <1>2, <1>3, <1>4, <1>8 DEF ReadState, ReadingsTyped, TimingReading
<1>9. CASE ReadConfig
  BY <1>2, <1>3, <1>4, <1>9 DEF ReadConfig, ReadingsTyped, TimingReading
<1>10. CASE ReadTiming
  <2> DEFINE read == [lastCheckIn |-> vaults[visit.v].lastCheckIn,
                      windowDeadline |-> vaults[visit.v].windowDeadline,
                      state |-> vaults[visit.v].state]
  <2>1. read \in TimingReading
    BY <1>2, <1>4 DEF TimingReading
  <2>2. /\ readTiming' = [readTiming EXCEPT ![visit.v] = read]
        /\ UNCHANGED <<readNext, readState, readOwner, readGuardian>>
    BY <1>10 DEF ReadTiming
  <2> HIDE DEF read
  <2>3. QED
    BY <1>3, <1>4, <2>1, <2>2 DEF ReadingsTyped, TimingReading
<1>11. QED
  BY <1>5, <1>6, <1>7, <1>8, <1>9, <1>10 DEF Reads

\* A hook that gets the next status while no transaction of its own is under way,
\* or the last of its own is mined or forgotten.
LEMMA HookMoves ==
    ASSUME WalletInv, HooksTyped, NEW h \in {"main", "approve"},
           hooks'[h].status \in {"none", "wallet", "confirmed"},
           \A other \in {"main", "approve"} \ {h} : hooks'[other] = hooks[other],
           timer' \in BOOLEAN,
           timer' => visit'.page = "vault" /\ hooks'["main"].status = "confirmed",
           \A i \in DOMAIN pool' : pool'[i].hook = "main" =>
              /\ h # "main"
              /\ hooks["main"].status = "sent"
              /\ \A j \in DOMAIN pool' : pool'[j].hook = "main" => j = i,
           clicks' \in 0..visit'.clicks, lost' \in 0..MaxLost
    PROVE  HooksTyped'
BY DEF HooksTyped

\* A click starts one hook that was idle.
LEMMA WriteTyped ==
    ASSUME WalletInv, HooksTyped, NEW call, Write(call)
    PROVE  HooksTyped'
<1>1. /\ hooks' = [hooks EXCEPT !["main"] = [status |-> "wallet", call |-> call]]
      /\ timer' = FALSE /\ clicks' = clicks + 1 /\ clicks < visit.clicks
      /\ hooks["main"].status # "sent" /\ UNCHANGED <<visit, pool, lost>>
  BY DEF Write, Busy
<1>2. hooks'["main"].status = "wallet" /\ hooks'["approve"] = hooks["approve"]
  BY <1>1 DEF WalletInv
<1>3. clicks' \in 0..visit'.clicks
  BY <1>1 DEF HooksTyped, WalletInv, Visits
<1>4. QED
  BY <1>1, <1>2, <1>3, HookMoves DEF HooksTyped

\* Every button and field of the pages.
LEMMA ClickTyped ==
    ASSUME WalletInv, HooksTyped, Clicks
    PROVE  HooksTyped'
<1>1. ASSUME NEW v \in VaultId, HandleLookup(v) PROVE HooksTyped'
  <2>1. /\ visit' = [visit EXCEPT !.v = v]
        /\ UNCHANGED <<hooks, pool, timer, clicks, lost>>
    BY <1>1 DEF HandleLookup, txVars
  <2>2. visit'.page = visit.page /\ visit'.clicks = visit.clicks
    BY <2>1 DEF WalletInv, Visits
  <2>3. QED
    BY <2>1, <2>2 DEF HooksTyped
<1>2. ASSUME NEW amount \in Amount, DoApproveAndFund(amount) PROVE HooksTyped'
  <2> DEFINE call == [status |-> "wallet", call |-> Call("approve", amount)]
  <2>1. /\ hooks' = [hooks EXCEPT !["approve"] = call]
        /\ clicks' = clicks + 1 /\ clicks < visit.clicks
        /\ UNCHANGED <<visit, pool, timer, lost>>
    BY <1>2 DEF DoApproveAndFund
  <2>2. hooks'["approve"].status = "wallet" /\ hooks'["main"] = hooks["main"]
    BY <2>1 DEF WalletInv
  <2>3. clicks' \in 0..visit'.clicks
    BY <2>1 DEF HooksTyped, WalletInv, Visits
  <2>4. QED
    BY <2>1, <2>2, <2>3, HookMoves DEF HooksTyped
<1>3. ASSUME NEW field, NEW value, EditForm(field, value) PROVE HooksTyped'
  BY <1>3 DEF EditForm, txVars, HooksTyped
<1>4. CASE GoToDashboard
  <2>1. /\ visit' = [visit EXCEPT !.page = "dashboard"] /\ visit.page = "create"
        /\ hooks["main"].status = "confirmed"
        /\ hooks' = [main |-> Idle, approve |-> Idle]
        /\ UNCHANGED <<pool, timer, clicks, lost>>
    BY <1>4 DEF GoToDashboard, On
  <2>2. visit'.clicks = visit.clicks
    BY <2>1 DEF WalletInv, Visits
  <2>3. \A h \in {"main", "approve"} : hooks'[h].status = "none"
    BY <2>1 DEF Idle, Hook
  <2>4. QED
    BY <2>1, <2>2, <2>3 DEF HooksTyped
<1>5. QED
  BY <1>1, <1>2, <1>3, <1>4, WriteTyped DEF Clicks, Do, DoFundVault, HandleSubmit

\* The wallet refuses, sends or forgets.
LEMMA SendTyped ==
    ASSUME WalletInv, HooksTyped, Wallet
    PROVE  HooksTyped'
<1>1. PICK h \in {"main", "approve"} : WalletRefuses(h) \/ WalletSends(h) \/ ReceiptLost(h)
  BY DEF Wallet, WalletInv
<1>2. CASE WalletRefuses(h)
  <2>1. /\ hooks' = [hooks EXCEPT ![h] = Idle] /\ hooks[h].status = "wallet"
        /\ UNCHANGED <<visit, pool, timer, clicks, lost>>
    BY <1>2 DEF WalletRefuses
  <2>2. /\ hooks'[h].status = "none"
        /\ \A other \in {"main", "approve"} \ {h} : hooks'[other] = hooks[other]
    BY <2>1 DEF WalletInv, Idle, Hook
  <2>3. QED
    BY <2>1, <2>2, HookMoves DEF HooksTyped
<1>3. CASE WalletSends(h)
  <2> DEFINE tx == [hook |-> h, call |-> hooks[h].call]
  <2>1. /\ hooks' = [hooks EXCEPT ![h] = Hook("sent")] /\ hooks[h].status = "wallet"
        /\ pool' = Append(pool, tx)
        /\ UNCHANGED <<visit, timer, clicks, lost>>
    BY <1>3 DEF WalletSends
  <2>2. /\ hooks'[h].status = "sent"
        /\ \A other \in {"main", "approve"} \ {h} : hooks'[other] = hooks[other]
    BY <2>1 DEF WalletInv, Hook
  <2>3. tx \in Sent(visit.account) /\ tx.hook = h
    BY <2>1 DEF WalletInv, Sent
  <2> HIDE DEF tx
  <2>4. pool \in Seq(Sent(visit.account)) /\ Len(pool) \in Nat /\ DOMAIN pool = 1..Len(pool)
    BY DEF WalletInv
  <2>5. /\ DOMAIN pool' = 1..(Len(pool) + 1)
        /\ \A i \in 1..Len(pool) : pool'[i] = pool[i]
        /\ pool'[Len(pool) + 1] = tx
    BY <2>1, <2>3, <2>4, AppendProperties
  <2>6. CASE h = "main"
    <3>1. \A i \in DOMAIN pool : pool[i].hook # "main"
      BY <2>1, <2>6 DEF HooksTyped
    <3>2. \A i \in DOMAIN pool' : pool'[i].hook = "main" => i = Len(pool) + 1
      BY <2>4, <2>5, <3>1
    <3>3. QED
      BY <2>1, <2>2, <2>6, <3>2 DEF HooksTyped
  <2>7. CASE h = "approve"
    <3>1. ASSUME NEW i \in DOMAIN pool', pool'[i].hook = "main"
          PROVE  i \in DOMAIN pool /\ pool'[i] = pool[i]
      BY <2>3, <2>4, <2>5, <2>7, <3>1
    <3>2. QED
      BY <2>1, <2>2, <2>7, <3>1 DEF HooksTyped
  <2>8. QED
    BY <2>6, <2>7
<1>4. CASE ReceiptLost(h)
  <2>1. /\ hooks' = [hooks EXCEPT ![h] = Idle] /\ hooks[h].status = "sent"
        /\ pool' = [i \in DOMAIN pool |->
                      IF pool[i].hook = h THEN [pool[i] EXCEPT !.hook = "nobody"] ELSE pool[i]]
        /\ lost < MaxLost /\ lost' = lost + 1
        /\ UNCHANGED <<visit, timer, clicks>>
    BY <1>4 DEF ReceiptLost
  <2>2. /\ hooks'[h].status = "none"
        /\ \A other \in {"main", "approve"} \ {h} : hooks'[other] = hooks[other]
    BY <2>1 DEF WalletInv, Idle, Hook
  <2>3. DOMAIN pool' = DOMAIN pool
    BY <2>1
  <2>4. ASSUME NEW i \in DOMAIN pool, pool'[i].hook = "main"
        PROVE  h # "main" /\ pool[i].hook = "main"
    <3>1. pool[i] \in Sent(visit.account)
      BY DEF WalletInv
    <3>2. QED
      BY <2>1, <2>4, <3>1 DEF Sent
  <2>5. lost' \in 0..MaxLost
    BY <2>1, WebAssumption DEF HooksTyped
  <2>6. QED
    BY <2>1, <2>2, <2>3, <2>4, <2>5, HookMoves DEF HooksTyped
<1>5. QED
  BY <1>1, <1>2, <1>3, <1>4

\* A transaction is mined, or the timer fires.
LEMMA MinedTyped ==
    ASSUME WalletInv, HooksTyped, Mined \/ TimerFires
    PROVE  HooksTyped'
<1>1. CASE TimerFires
  <2>1. /\ hooks' = [hooks EXCEPT !["main"] = Idle] /\ hooks["main"].status = "confirmed"
        /\ timer' = FALSE /\ UNCHANGED <<visit, pool, clicks, lost>>
    BY <1>1 DEF TimerFires, HooksTyped
  <2>2. hooks'["main"].status = "none" /\ hooks'["approve"] = hooks["approve"]
    BY <2>1 DEF WalletInv, Idle, Hook
  <2>3. QED
    BY <2>1, <2>2, HookMoves DEF HooksTyped
<1>2. CASE Mined
  <2> DEFINE tx == Head(pool)
             rest == Tail(pool)
             accepted == Accepted(tx.call)
             won == accepted /\ tx.hook = "main" /\ visit.page = "vault"
  <2>1. /\ pool # <<>> /\ pool' = rest /\ UNCHANGED <<visit, clicks, lost>>
        /\ timer' = (timer \/ won)
        /\ hooks' = IF tx.hook # "nobody"
                    THEN [hooks EXCEPT ![tx.hook] = IF accepted THEN Hook("confirmed")
                                                               ELSE Idle]
                    ELSE hooks
    BY <1>2 DEF Mined
  <2> HIDE DEF accepted
  <2>2. pool \in Seq(Sent(visit.account))
    BY DEF WalletInv
  <2>3. tx \in Sent(visit.account) /\ Len(rest) = Len(pool) - 1
        /\ rest \in Seq(Sent(visit.account))
        /\ \A i \in 1..Len(rest) : rest[i] = pool[i + 1]
    BY <2>1, <2>2, HeadTailProperties
  <2>4. /\ Len(pool) \in Nat \ {0} /\ DOMAIN pool = 1..Len(pool)
        /\ DOMAIN pool' = 1..(Len(pool) - 1) /\ tx = pool[1]
    BY <2>1, <2>2, <2>3
  <2>5. ASSUME NEW i \in DOMAIN pool'
        PROVE  pool'[i] = pool[i + 1] /\ i + 1 \in DOMAIN pool /\ i + 1 # 1
    BY <2>1, <2>3, <2>4
  <2>6. ASSUME NEW i \in DOMAIN pool', pool'[i].hook = "main"
        PROVE  /\ tx.hook # "main" /\ hooks["main"].status = "sent"
               /\ \A j \in DOMAIN pool' : pool'[j].hook = "main" => j = i
    <3>1. pool[i + 1].hook = "main" /\ i + 1 \in DOMAIN pool /\ i + 1 # 1 /\ i \in Nat
      BY <2>4, <2>5, <2>6
    <3>2. tx.hook # "main" /\ hooks["main"].status = "sent"
      BY <2>4, <3>1 DEF HooksTyped
    <3>3. ASSUME NEW j \in DOMAIN pool', pool'[j].hook = "main" PROVE j = i
      <4>1. pool[j + 1].hook = "main" /\ j + 1 \in DOMAIN pool /\ j \in Nat
        BY <2>4, <2>5, <3>3
      <4>2. j + 1 = i + 1
        BY <3>1, <4>1 DEF HooksTyped
      <4>3. QED
        BY <3>1, <4>1, <4>2
    <3>4. QED
      BY <3>2, <3>3
  <2> HIDE DEF rest
  <2>7. tx.hook \in {"main", "approve", "nobody"} /\ timer' \in BOOLEAN
    BY <2>1, <2>3 DEF Sent, HooksTyped
  <2> HIDE DEF tx
  <2>8. CASE tx.hook = "nobody"
    BY <2>1, <2>6, <2>7, <2>8 DEF HooksTyped
  <2>9. CASE tx.hook = "approve"
    <3>1. /\ hooks'["approve"].status \in {"none", "confirmed"}
          /\ hooks'["main"] = hooks["main"]
      BY <2>1, <2>9 DEF WalletInv, Idle, Hook
    <3>2. timer' => timer
      BY <2>1, <2>9
    <3>3. QED
      BY <2>1, <2>6, <2>7, <2>9, <3>1, <3>2, HookMoves DEF HooksTyped
  <2>10. CASE tx.hook = "main"
    <3>1. /\ hooks'["main"].status = (IF accepted THEN "confirmed" ELSE "none")
          /\ hooks'["approve"] = hooks["approve"]
      BY <2>1, <2>10 DEF WalletInv, Idle, Hook
    <3>2. hooks["main"].status = "sent"
      BY <2>4, <2>10 DEF HooksTyped, tx
    <3>3. timer' => won
      BY <2>1, <3>2 DEF HooksTyped
    <3>4. QED
      BY <2>1, <2>6, <2>7, <2>10, <3>1, <3>3, HookMoves DEF HooksTyped
  <2>11. QED
    BY <2>7, <2>8, <2>9, <2>10
<1>3. QED
  BY <1>1, <1>2

\* The pages' variables keep their types: no reading is of a kind the contract does
\* not return, and the timer only runs after a confirmation.
THEOREM WebTypeCorrect == WebFrontEndSpec => []WebTypeOK
<1>1. WebFrontEndInit => ReadingsTyped /\ HooksTyped
  <2> SUFFICES ASSUME WebFrontEndInit PROVE ReadingsTyped /\ HooksTyped
    OBVIOUS
  <2>1. MaxVaultId \in Nat /\ MaxLost \in Nat /\ visit.clicks \in Nat
    BY RegistryAssumption, WebAssumption DEF WebFrontEndInit, WebInit
  <2>2. ReadingsTyped
    BY <2>1 DEF WebFrontEndInit, WebInit, NothingRead, ReadingsTyped
  <2>3. HooksTyped
    <3>1. /\ hooks = [main |-> Idle, approve |-> Idle] /\ pool = <<>>
          /\ timer = FALSE /\ clicks = 0 /\ lost = 0
      BY DEF WebFrontEndInit, WebInit
    <3>2. \A h \in {"main", "approve"} : hooks[h].status = "none"
      BY <3>1 DEF Idle, Hook
    <3>3. clicks \in 0..visit.clicks /\ lost \in 0..MaxLost
      BY <2>1, <3>1
    <3>4. DOMAIN pool = {}
      BY <3>1
    <3>5. ~timer /\ timer \in BOOLEAN
      BY <3>1
    <3>6. QED
      BY <3>2, <3>3, <3>4, <3>5 DEF HooksTyped
  <2>4. QED
    BY <2>2, <2>3
<1>2. /\ IInv /\ WalletInv /\ ClockInv /\ ReadingsTyped /\ HooksTyped
      /\ [WebFrontEndNext]_allVars
      => ReadingsTyped' /\ HooksTyped'
  <2> SUFFICES ASSUME IInv, WalletInv, ClockInv, ReadingsTyped, HooksTyped,
                      [WebFrontEndNext]_allVars
               PROVE  ReadingsTyped' /\ HooksTyped'
    OBVIOUS
  <2>1. [Next]_vars
    BY StepIsRegistryStep
  <2>2. ASSUME UNCHANGED webVars PROVE HooksTyped'
    <3>1. UNCHANGED <<visit, hooks, pool, timer, clicks, lost>>
      BY <2>2 DEF webVars, txVars
    <3>2. QED
      BY <3>1 DEF HooksTyped
  <2>3. ASSUME Open \/ Reads PROVE HooksTyped'
    <3>1. UNCHANGED <<visit, hooks, pool, timer, clicks, lost>>
      BY <2>3 DEF Open, Reads, ReadNextVaultId, ReadOwners, ReadStates, ReadState,
                  ReadConfig, ReadTiming, txVars
    <3>2. QED
      BY <3>1 DEF HooksTyped
  <2>4. HooksTyped'
    BY <2>2, <2>3, ClickTyped, SendTyped, MinedTyped DEF WebFrontEndNext, Elsewhere, allVars
  <2>5. Open \/ Wallet \/ Clicks \/ Mined \/ TimerFires \/ UNCHANGED webVars
        => UNCHANGED <<readNext, readState, readOwner, readGuardian, readTiming>>
    <3>1. Open \/ Wallet \/ Mined \/ TimerFires \/ UNCHANGED webVars
          => UNCHANGED <<readNext, readState, readOwner, readGuardian, readTiming>>
      BY DEF Open, Wallet, WalletRefuses, WalletSends, ReceiptLost, Mined, TimerFires,
             webVars, readVars
    <3>2. Clicks => UNCHANGED <<readNext, readState, readOwner, readGuardian, readTiming>>
      BY DEF Clicks, HandleLookup, Do, Write, DoApproveAndFund, DoFundVault, EditForm,
             HandleSubmit, GoToDashboard, readVars
    <3>3. QED
      BY <3>1, <3>2
  <2>6. ReadingsTyped'
    BY <2>1, <2>5, ReadsTyped, ReadingsKept DEF WebFrontEndNext, Elsewhere, allVars
  <2>7. QED
    BY <2>4, <2>6
<1>3. WalletInv /\ LookInv /\ ReadingsTyped /\ HooksTyped => WebTypeOK
  BY DEF WalletInv, Visits, LookInv, ReadingsTyped, TimingReading, HooksTyped, WebTypeOK
<1>4. QED
  BY <1>1, <1>2, <1>3, WalletInitHolds, WalletNextHolds, ReadingsHold, ClocksHold,
     WebRefinesRegistry, InvariantHolds, PTL
  DEF WebFrontEndSpec, WebFrontEndInit

-----------------------------------------------------------------------------
(* The timeline.                                                           *)

\* The steps lit for a state, and the place of its own among them.
ReachedIn(s) ==
    LET steps == Timeline(Encoded(s))
    IN  {i \in DOMAIN LIFECYCLE_STEPS : steps[i] \in {"completed", "current"}}

Place == [ACTIVE |-> 1, WARNING |-> 2, QUORUM_PENDING |-> 3, DISPUTE_WINDOW |-> 4,
          FINAL_WINDOW |-> 6, FULLY_RELEASED |-> 7]

\* The timeline lights the steps up to the state's own.
LEMMA TimelineLights ==
    ASSUME NEW s \in VaultState \ {"CLOSED"}
    PROVE  ReachedIn(s) = 1..Place[s] /\ Place[s] \in 1..7
<1> DEFINE steps == LIFECYCLE_STEPS
           number == Encoded(s)
           current == {i \in DOMAIN steps : steps[i] = getStateName(number)}
<1>1. /\ DOMAIN steps = 1..7
      /\ steps[1] = "ACTIVE" /\ steps[2] = "WARNING" /\ steps[3] = "QUORUM_PENDING"
      /\ steps[4] = "DISPUTE_WINDOW" /\ steps[5] = "TRANCHE_1_RELEASED"
      /\ steps[6] = "FINAL_WINDOW" /\ steps[7] = "FULLY_RELEASED"
  BY DEF LIFECYCLE_STEPS
<1>2. Place[s] \in 1..7 /\ steps[Place[s]] = s
  BY <1>1 DEF Place, VaultState
<1>3. \A i \in 1..7 : steps[i] = s => i = Place[s]
  BY <1>1 DEF Place, VaultState
<1>4. current = {Place[s]}
  BY <1>1, <1>2, <1>3, NameOfEncoded
<1>5. ReachedIn(s) = {i \in 1..7 : (IF \E c \in current : i < c THEN "completed"
                                    ELSE IF i \in current THEN "current" ELSE "future")
                                   \in {"completed", "current"}}
  BY <1>1 DEF ReachedIn, Timeline
<1> HIDE DEF steps, number, current
<1>6. ReachedIn(s) = {i \in 1..7 : i <= Place[s]}
  BY <1>2, <1>4, <1>5
<1>7. QED
  BY <1>2, <1>6

\* The transitions that neither restart nor close a vault.
Onward == {<<"ACTIVE", "WARNING">>, <<"WARNING", "QUORUM_PENDING">>,
           <<"QUORUM_PENDING", "DISPUTE_WINDOW">>, <<"DISPUTE_WINDOW", "FINAL_WINDOW">>,
           <<"FINAL_WINDOW", "FULLY_RELEASED">>}

\* The state that a call leaves its vault in.
LEMMA CallMovesState ==
    ASSUME IInv, NEW caller \in Account, NEW v \in VaultId,
           \/ \E quorumMet \in BOOLEAN : SubmitQuorumResult(caller, v, quorumMet)
           \/ \E hash \in LegalDoc : AnchorLegalDoc(caller, v, hash)
           \/ \E amount \in Amount : FundVault(caller, v, amount)
           \/ CheckIn(caller, v) \/ OwnerOverride(caller, v) \/ GuardianHalt(caller, v)
           \/ CancelVault(caller, v) \/ SubmitVerifiedAttestation(caller, v)
           \/ MarkWarning(v) \/ RequestAttestation(v)
           \/ FinalizeDisputeWindow(v) \/ FinalizeFinalWindow(v)
    PROVE  \/ vaults'[v].state \in {vaults[v].state, "ACTIVE", "CLOSED"}
           \/ <<vaults[v].state, vaults'[v].state>> \in Onward
<1>1. /\ TypeOK /\ IdentityOf(v)
      /\ {"WARNING", "QUORUM_PENDING", "DISPUTE_WINDOW"} \subseteq VaultState
      /\ now + vaults[v].timing.graceWindow \in Nat
      /\ now + vaults[v].timing.disputeWindow \in Nat
      /\ vaults[v].windowDeadline \in Nat
  BY TimingNat DEF VaultState, IInv, Sound, TypeOK
<1>2. CASE CheckIn(caller, v) \/ OwnerOverride(caller, v) \/ GuardianHalt(caller, v)
  <2>1. vaults' = Restarted(v)
    BY <1>2 DEF CheckIn, OwnerOverride, GuardianHalt
  <2>2. QED
    BY <1>1, <2>1, RestartEffect
<1>3. CASE MarkWarning(v)
  <2>1. /\ vaults' = Entered(v, "WARNING", now + vaults[v].timing.graceWindow)
        /\ vaults[v].state = "ACTIVE"
    BY <1>3 DEF MarkWarning
  <2>2. QED
    BY <1>1, <2>1, EnterEffect DEF Onward
<1>4. CASE RequestAttestation(v)
  <2>1. /\ vaults' = Entered(v, "QUORUM_PENDING", vaults[v].windowDeadline)
        /\ vaults[v].state = "WARNING"
    BY <1>4 DEF RequestAttestation
  <2>2. QED
    BY <1>1, <2>1, EnterEffect DEF Onward
<1>5. CASE \/ \E quorumMet \in BOOLEAN : SubmitQuorumResult(caller, v, quorumMet)
           \/ SubmitVerifiedAttestation(caller, v)
  <2> DEFINE d == now + vaults[v].timing.disputeWindow
  <2>1. \/ vaults' = vaults
        \/ vaults[v].state = "QUORUM_PENDING" /\ vaults' = Entered(v, "DISPUTE_WINDOW", d)
    BY <1>5 DEF SubmitQuorumResult, SubmitVerifiedAttestation
  <2>2. QED
    BY <1>1, <2>1, EnterEffect DEF Onward
<1>6. CASE FinalizeDisputeWindow(v) \/ FinalizeFinalWindow(v)
  <2>1. /\ FinalizeDisputeWindow(v) => vaults[v].state = "DISPUTE_WINDOW"
        /\ FinalizeFinalWindow(v) => vaults[v].state = "FINAL_WINDOW"
    BY DEF FinalizeDisputeWindow, FinalizeFinalWindow
  <2>2. QED
    BY <1>1, <1>6, <2>1, FinalizeDisputeEffect, FinalizeFinalEffect DEF Onward
<1>7. CASE \/ \E hash \in LegalDoc : AnchorLegalDoc(caller, v, hash)
           \/ \E amount \in Amount : FundVault(caller, v, amount)
           \/ CancelVault(caller, v)
  BY <1>1, <1>7, AnchorEffect, FundEffect, CancelEffect
<1>8. QED
  BY <1>2, <1>3, <1>4, <1>5, <1>6, <1>7

\* Whatever the contract does, a vault goes on by one state at most, is restarted or
\* is closed.
LEMMA StateMoves ==
    ASSUME IInv, [Next]_vars, NEW v \in VaultId
    PROVE  \/ vaults'[v].state \in {vaults[v].state, "ACTIVE", "CLOSED"}
           \/ <<vaults[v].state, vaults'[v].state>> \in Onward
<1>1. TypeOK
  BY DEF IInv
<1>2. ASSUME NEW caller \in Account, NEW plan \in PlanHash, NEW asset \in Asset,
             NEW timing \in Timing, NEW guardian \in GuardianKey,
             CreateVault(caller, plan, asset, timing, guardian)
      PROVE  vaults'[v].state \in {vaults[v].state, "ACTIVE"}
  BY <1>1, <1>2, CreateEffect DEF OthersKept
<1>3. ASSUME NEW caller \in Account, NEW w \in VaultId,
             \/ \E quorumMet \in BOOLEAN : SubmitQuorumResult(caller, w, quorumMet)
             \/ \E hash \in LegalDoc : AnchorLegalDoc(caller, w, hash)
             \/ \E amount \in Amount : FundVault(caller, w, amount)
             \/ CheckIn(caller, w) \/ OwnerOverride(caller, w) \/ GuardianHalt(caller, w)
             \/ CancelVault(caller, w) \/ SubmitVerifiedAttestation(caller, w)
             \/ MarkWarning(w) \/ RequestAttestation(w)
             \/ FinalizeDisputeWindow(w) \/ FinalizeFinalWindow(w)
      PROVE  \/ vaults'[v].state \in {vaults[v].state, "ACTIVE", "CLOSED"}
             \/ <<vaults[v].state, vaults'[v].state>> \in Onward
  <2>1. CASE w = v
    BY <1>3, <2>1, CallMovesState
  <2>2. CASE w # v
    BY <1>1, <1>3, <2>2, VaultStep DEF OthersKept
  <2>3. QED
    BY <2>1, <2>2
<1>4. QED
  BY <1>2, <1>3, StepKinds

\* Every transition that does not restart or close the page's vault lights further
\* steps of its timeline and puts none out.
THEOREM TimelinesMoveForward == WebFrontEndSpec => TimelineMovesForward
<1> DEFINE Moved == vaults'[visit.v].state \notin {vaults[visit.v].state, "ACTIVE", "CLOSED"}
                      => /\ Reached(visit.v) \subseteq Reached(visit.v)'
                         /\ Reached(visit.v) # Reached(visit.v)'
<1>1. ASSUME IInv, WalletInv, [WebFrontEndNext]_allVars, ~ UNCHANGED vaults,
             vaults'[visit.v].state \notin {vaults[visit.v].state, "ACTIVE", "CLOSED"}
      PROVE  /\ Reached(visit.v) \subseteq Reached(visit.v)'
             /\ Reached(visit.v) # Reached(visit.v)'
  <2>1. visit' = visit /\ [Next]_vars
    <3>1. Clicks => UNCHANGED vaults
      BY DEF Clicks, HandleLookup, Do, Write, DoApproveAndFund, DoFundVault, EditForm,
             HandleSubmit, GoToDashboard, vars
    <3>2. Open \/ Reads \/ Wallet \/ TimerFires => UNCHANGED vaults
      BY DEF Open, Reads, ReadNextVaultId, ReadOwners, ReadStates, ReadState, ReadConfig,
             ReadTiming, Wallet, WalletRefuses, WalletSends, ReceiptLost, TimerFires, vars
    <3>3. Mined \/ Elsewhere \/ UNCHANGED <<vars, webVars>> => UNCHANGED visit
      BY DEF Mined, Elsewhere, webVars
    <3>4. QED
      BY <1>1, <3>1, <3>2, <3>3, StepIsRegistryStep DEF WebFrontEndNext, allVars
  <2>2. PICK v \in VaultId : v = visit.v
    BY <1>1 DEF WalletInv, Visits
  <2>3. PICK s, t \in VaultState : s = vaults[v].state /\ <<s, t>> \in Onward
                                   /\ t = vaults'[v].state
    BY <1>1, <2>1, <2>2, StateMoves DEF Onward, VaultState
  <2>4. Reached(visit.v) = ReachedIn(s) /\ Reached(visit.v)' = ReachedIn(t)
    BY <2>1, <2>2, <2>3 DEF Reached, ReachedIn
  <2>5. /\ s # "CLOSED" /\ t # "CLOSED" /\ Place[s] < Place[t]
    BY <2>3 DEF Onward, Place
  <2>6. ReachedIn(s) = 1..Place[s] /\ ReachedIn(t) = 1..Place[t]
        /\ Place[s] \in 1..7 /\ Place[t] \in 1..7
    BY <2>3, <2>5, TimelineLights
  <2>7. Place[t] \in 1..Place[t] /\ Place[t] \notin 1..Place[s]
        /\ 1..Place[s] \subseteq 1..Place[t]
    BY <2>5, <2>6
  <2>8. QED
    BY <2>4, <2>6, <2>7
<1>2. IInv /\ WalletInv /\ [WebFrontEndNext]_allVars => [Moved]_vaults
  BY <1>1
<1>3. WebFrontEndInit => WalletInv
  BY WalletInitHolds DEF WebFrontEndInit
<1>4. QED
  BY <1>2, <1>3, WalletNextHolds, WebRefinesRegistry, InvariantHolds, PTL
  DEF WebFrontEndSpec, TimelineMovesForward

-----------------------------------------------------------------------------
(* The buttons.                                                            *)

\* The number of each state.
LEMMA EncodedNumbers ==
    /\ Encoded("ACTIVE") = 0 /\ Encoded("WARNING") = 1 /\ Encoded("QUORUM_PENDING") = 2
    /\ Encoded("DISPUTE_WINDOW") = 3 /\ Encoded("FINAL_WINDOW") = 6
    /\ Encoded("FULLY_RELEASED") = 7 /\ Encoded("CLOSED") = 8
<1>1. ASSUME NEW s \in VaultState PROVE Encoded(s) + 1 \in 1..9 /\ VAULT_STATES[Encoded(s) + 1] = s
  BY NameOfEncoded DEF getStateName, VAULT_STATES
<1>2. ASSUME NEW s \in VaultState, NEW i \in 1..9, VAULT_STATES[i] = s
      PROVE  Encoded(s) = i - 1
  <2>1. \A j \in 1..9 : VAULT_STATES[j] = VAULT_STATES[i] => j = i
    BY DEF VAULT_STATES
  <2>2. Encoded(s) + 1 = i /\ Encoded(s) \in 0..8
    BY <1>1, <1>2, <2>1, NameOfEncoded
  <2>3. QED
    BY <2>2
<1>3. /\ VAULT_STATES[1] = "ACTIVE" /\ VAULT_STATES[2] = "WARNING"
      /\ VAULT_STATES[3] = "QUORUM_PENDING" /\ VAULT_STATES[4] = "DISPUTE_WINDOW"
      /\ VAULT_STATES[7] = "FINAL_WINDOW" /\ VAULT_STATES[8] = "FULLY_RELEASED"
      /\ VAULT_STATES[9] = "CLOSED"
  BY DEF VAULT_STATES
<1>4. QED
  BY <1>2, <1>3 DEF VaultState

\* The condition of each button, for the owner or the guardian.
LEMMA ButtonsOffered ==
    ASSUME NEW isOwner \in BOOLEAN, NEW isGuardian \in BOOLEAN, NEW n, NEW f,
           \/ /\ f = "checkIn" /\ isOwner /\ n \in {0, 1}
           \/ /\ f = "ownerOverride" /\ isOwner /\ n = 2
           \/ /\ f = "guardianHalt" /\ isGuardian /\ n \in {3, 6}
           \/ /\ f = "cancelVault" /\ isOwner /\ n = 0
           \/ /\ f = "fundVault" /\ isOwner /\ n < 7
           \/ /\ f = "finalizeDisputeWindow" /\ (isOwner \/ isGuardian) /\ n = 3
           \/ /\ f = "finalizeFinalWindow" /\ (isOwner \/ isGuardian) /\ n = 6
    PROVE  f \in Offers(isOwner, isGuardian, n)
<1> DEFINE buttons == Buttons(isOwner, isGuardian, n)
<1>1. f \in DOMAIN buttons
  BY DEF Buttons
<1>2. buttons[f]
  <2>1. CASE f = "checkIn"
    BY <2>1 DEF Buttons
  <2>2. CASE f = "ownerOverride"
    BY <2>2 DEF Buttons
  <2>3. CASE f = "guardianHalt"
    BY <2>3 DEF Buttons
  <2>4. CASE f = "cancelVault"
    BY <2>4 DEF Buttons
  <2>5. CASE f = "fundVault"
    BY <2>5 DEF Buttons
  <2>6. CASE f = "finalizeDisputeWindow"
    BY <2>6 DEF Buttons
  <2>7. CASE f = "finalizeFinalWindow"
    BY <2>7 DEF Buttons
  <2>8. QED
    BY <2>1, <2>2, <2>3, <2>4, <2>5, <2>6, <2>7
<1>3. isOwner \/ isGuardian
  OBVIOUS
<1> HIDE DEF buttons
<1>4. QED
  BY <1>1, <1>2, <1>3 DEF Offers, buttons

\* The buttons of the vault page are those of its vault.
LEMMA ButtonsOnVault ==
    On("vault")
      => Offered = Offers(readOwner[visit.v] = visit.account,
                          readGuardian[visit.v] = visit.account, ShownState(visit.v))
  BY Zenon DEF Offered

\* On a page that is up to date the reading decides by the contract's own state.
LEMMA UpToDateShows ==
    ASSUME IInv, WalletInv, On("vault"), UpToDate(visit.v)
    PROVE  /\ visit.v \in VaultId /\ vaults[visit.v].state \in VaultState
           /\ ShownState(visit.v) = Encoded(vaults[visit.v].state)
           /\ Offered = Offers(vaults[visit.v].owner = visit.account,
                               vaults[visit.v].guardianHaltKey = visit.account,
                               Encoded(vaults[visit.v].state))
<1> DEFINE v == visit.v
           s == vaults[v].state
<1>1. v \in VaultId /\ s \in VaultState
  BY DEF IInv, TypeOK, Vault, WalletInv, Visits
<1>2. Encoded(s) \in 0..8
  BY <1>1, NameOfEncoded
<1>3. readState[v] = Encoded(s)
  BY DEF UpToDate
<1>4. ShownState(v) = Encoded(s)
  <2>1. \A n \in 0..8 : n \notin {Unread, Failed}
    <3>1. \A n \in Nat : n \notin {Unread, Failed}
      BY WebAssumption, Zenon
    <3>2. QED
      BY <3>1
  <2>2. readState[v] \notin {Unread, Failed}
    BY <1>2, <1>3, <2>1
  <2>3. QED
    BY <1>3, <2>2 DEF ShownState
<1>5. readOwner[v] = vaults[v].owner /\ readGuardian[v] = vaults[v].guardianHaltKey
  BY DEF UpToDate
<1>6. Offered = Offers(vaults[v].owner = visit.account,
                       vaults[v].guardianHaltKey = visit.account, Encoded(s))
  BY <1>4, <1>5, ButtonsOnVault
<1>7. QED
  BY <1>1, <1>4, <1>6

\* What the owner and the guardian can call.
VisitorCalls == {"checkIn", "ownerOverride", "guardianHalt", "cancelVault", "fundVault",
                 "finalizeDisputeWindow", "finalizeFinalWindow"}

\* The contract carries out the visitor's call of this function, from this tab or
\* another device, or a keeper does for the owner or guardian who is looking.
CarriesOut(f) ==
    LET a == visit.account
        v == visit.v
        party == a \in {vaults[v].owner, vaults[v].guardianHaltKey}
    IN  \/ f = "checkIn" /\ CheckIn(a, v)
        \/ f = "ownerOverride" /\ OwnerOverride(a, v)
        \/ f = "guardianHalt" /\ GuardianHalt(a, v)
        \/ f = "cancelVault" /\ CancelVault(a, v)
        \/ f = "fundVault" /\ \E amount \in Amount : FundVault(a, v, amount)
        \/ f = "finalizeDisputeWindow" /\ party /\ FinalizeDisputeWindow(v)
        \/ f = "finalizeFinalWindow" /\ party /\ FinalizeFinalWindow(v)

\* Nothing the contract would do for the visitor is kept from him: on a page that is
\* up to date, every call of his that the contract carries out has its button.  It is
\* the half of OffersMatchContract that can be said of steps.
THEOREM AcceptedIsOffered ==
    WebFrontEndSpec =>
        [][On("vault") /\ UpToDate(visit.v) =>
              \A f \in VisitorCalls : CarriesOut(f) => f \in Offered]_vars
<1>1. ASSUME IInv, WalletInv, On("vault"), UpToDate(visit.v),
             NEW f \in VisitorCalls, CarriesOut(f)
      PROVE  f \in Offered
  <2> DEFINE v == visit.v
             a == visit.account
             s == vaults[v].state
             isOwner == vaults[v].owner = a
             isGuardian == vaults[v].guardianHaltKey = a
  <2>1. /\ s \in VaultState /\ ShownState(v) = Encoded(s)
        /\ Offered = Offers(isOwner, isGuardian, Encoded(s))
    BY <1>1, UpToDateShows
  <2>2. \/ /\ f = "checkIn" /\ isOwner /\ s \in {"ACTIVE", "WARNING"}
        \/ /\ f = "ownerOverride" /\ isOwner /\ s = "QUORUM_PENDING"
        \/ /\ f = "guardianHalt" /\ isGuardian /\ s \in {"DISPUTE_WINDOW", "FINAL_WINDOW"}
        \/ /\ f = "cancelVault" /\ isOwner /\ s = "ACTIVE"
        \/ /\ f = "fundVault" /\ isOwner /\ s \notin {"FULLY_RELEASED", "CLOSED"}
        \/ /\ f = "finalizeDisputeWindow" /\ (isOwner \/ isGuardian) /\ s = "DISPUTE_WINDOW"
        \/ /\ f = "finalizeFinalWindow" /\ (isOwner \/ isGuardian) /\ s = "FINAL_WINDOW"
    BY <1>1
    DEF CarriesOut, CheckIn, OwnerOverride, GuardianHalt, CancelVault, FundVault,
        FinalizeDisputeWindow, FinalizeFinalWindow
  <2>3. \/ /\ f = "checkIn" /\ isOwner /\ ShownState(v) \in {0, 1}
        \/ /\ f = "ownerOverride" /\ isOwner /\ ShownState(v) = 2
        \/ /\ f = "guardianHalt" /\ isGuardian /\ ShownState(v) \in {3, 6}
        \/ /\ f = "cancelVault" /\ isOwner /\ ShownState(v) = 0
        \/ /\ f = "fundVault" /\ isOwner /\ ShownState(v) < 7
        \/ /\ f = "finalizeDisputeWindow" /\ (isOwner \/ isGuardian) /\ ShownState(v) = 3
        \/ /\ f = "finalizeFinalWindow" /\ (isOwner \/ isGuardian) /\ ShownState(v) = 6
    BY <2>1, <2>2, EncodedNumbers DEF VaultState
  <2>4. f \in Offers(isOwner, isGuardian, ShownState(v))
    <3>1. isOwner \in BOOLEAN /\ isGuardian \in BOOLEAN
      OBVIOUS
    <3> HIDE DEF isOwner, isGuardian
    <3>2. QED
      BY <2>3, <3>1, ButtonsOffered
  <2>5. QED
    BY <2>1, <2>4
<1>2. IInv /\ WalletInv
      => [On("vault") /\ UpToDate(visit.v) =>
             \A f \in VisitorCalls : CarriesOut(f) => f \in Offered]_vars
  BY <1>1
<1>3. WebFrontEndInit => WalletInv
  BY WalletInitHolds DEF WebFrontEndInit
<1>4. QED
  BY <1>2, <1>3, WalletNextHolds, WebRefinesRegistry, InvariantHolds, PTL
  DEF WebFrontEndSpec

\* What a button of the owner's or guardian's says of the state.
LEMMA OfferedButtons ==
    ASSUME NEW isOwner \in BOOLEAN, NEW isGuardian \in BOOLEAN, NEW n,
           NEW f, f \in Offers(isOwner, isGuardian, n)
    PROVE  /\ f = "checkIn" => isOwner /\ n \in {0, 1}
           /\ f = "ownerOverride" => isOwner /\ n = 2
           /\ f = "guardianHalt" => isGuardian /\ n \in {3, 6}
           /\ f = "cancelVault" => isOwner /\ n = 0
           /\ f \in {"fundVault", "anchorLegalDoc"} => isOwner /\ n < 7
           /\ f = "finalizeDisputeWindow" => n = 3
           /\ f = "finalizeFinalWindow" => n = 6
<1> DEFINE buttons == Buttons(isOwner, isGuardian, n)
<1>1. buttons[f]
  BY DEF Offers
<1>2. CASE f = "checkIn"
  BY <1>1, <1>2 DEF Buttons
<1>3. CASE f = "ownerOverride"
  BY <1>1, <1>3 DEF Buttons
<1>4. CASE f = "guardianHalt"
  BY <1>1, <1>4 DEF Buttons
<1>5. CASE f = "cancelVault"
  BY <1>1, <1>5 DEF Buttons
<1>6. CASE f = "fundVault"
  BY <1>1, <1>6 DEF Buttons
<1>7. CASE f = "anchorLegalDoc"
  BY <1>1, <1>7 DEF Buttons
<1>8. CASE f = "finalizeDisputeWindow"
  BY <1>1, <1>8 DEF Buttons
<1>9. CASE f = "finalizeFinalWindow"
  BY <1>1, <1>9 DEF Buttons
<1>10. QED
  BY <1>2, <1>3, <1>4, <1>5, <1>6, <1>7, <1>8, <1>9

\* The requires of the functions behind the buttons, other than those on what the
\* visitor types or pays and on the clock; the cancellation's include that the
\* registry can pay the refund.
Accepts(f) ==
    LET a == visit.account
        vault == vaults[visit.v]
    IN  /\ f = "checkIn" => vault.owner = a /\ vault.state \in {"ACTIVE", "WARNING"}
        /\ f = "ownerOverride" => vault.owner = a /\ vault.state = "QUORUM_PENDING"
        /\ f = "guardianHalt" =>
              /\ vault.guardianHaltKey = a
              /\ vault.state \in {"DISPUTE_WINDOW", "FINAL_WINDOW"}
        /\ f = "cancelVault" =>
              /\ vault.owner = a /\ vault.state = "ACTIVE"
              /\ \/ token[vault.fundingAsset][Registry] >= vault.balance
                 \/ vault.fundingAsset \in LenientAsset
        /\ f = "fundVault" =>
              vault.owner = a /\ vault.state \notin {"FULLY_RELEASED", "CLOSED"}
        /\ f = "anchorLegalDoc" => vault.owner = a
        /\ f = "finalizeDisputeWindow" => vault.state = "DISPUTE_WINDOW"
        /\ f = "finalizeFinalWindow" => vault.state = "FINAL_WINDOW"

\* No button is offered in vain: on a page that is up to date the contract accepts
\* what the owner or the guardian can press, but for the amount he has approved and
\* the deadline of a finalization; a refund is there to be paid.  It is the other half
\* of OffersMatchContract, as far as it can be said without ENABLED.
THEOREM OfferedIsAccepted ==
    WebFrontEndSpec =>
        [](On("vault") /\ UpToDate(visit.v) =>
              \A f \in Offered : f \in VisitorCalls \cup {"anchorLegalDoc"} /\ Accepts(f))
<1>1. ASSUME IInv, Solvency, WalletInv, On("vault"), UpToDate(visit.v), NEW f \in Offered
      PROVE  f \in VisitorCalls \cup {"anchorLegalDoc"} /\ Accepts(f)
  <2> DEFINE s == vaults[visit.v].state
             isOwner == vaults[visit.v].owner = visit.account
             isGuardian == vaults[visit.v].guardianHaltKey = visit.account
             n == Encoded(s)
  <2>1. visit.v \in VaultId /\ s \in VaultState /\ Offered = Offers(isOwner, isGuardian, n)
    BY <1>1, UpToDateShows
  <2>2. f \in VisitorCalls \cup {"anchorLegalDoc"}
    BY <1>1, <2>1 DEF Offers, Buttons, VisitorCalls
  <2>3. /\ f = "checkIn" => isOwner /\ n \in {0, 1}
        /\ f = "ownerOverride" => isOwner /\ n = 2
        /\ f = "guardianHalt" => isGuardian /\ n \in {3, 6}
        /\ f = "cancelVault" => isOwner /\ n = 0
        /\ f \in {"fundVault", "anchorLegalDoc"} => isOwner /\ n < 7
        /\ f = "finalizeDisputeWindow" => n = 3
        /\ f = "finalizeFinalWindow" => n = 6
    <3>1. isOwner \in BOOLEAN /\ isGuardian \in BOOLEAN
      OBVIOUS
    <3>2. f \in Offers(isOwner, isGuardian, n)
      BY <1>1, <2>1
    <3> HIDE DEF isOwner, isGuardian, n
    <3>3. QED
      BY <3>1, <3>2, OfferedButtons
  <2>4. /\ n \in {0, 1} => s \in {"ACTIVE", "WARNING"}
        /\ n = 0 => s = "ACTIVE"
        /\ n = 2 => s = "QUORUM_PENDING"
        /\ n = 3 => s = "DISPUTE_WINDOW"
        /\ n = 6 => s = "FINAL_WINDOW"
        /\ n < 7 => s \notin {"FULLY_RELEASED", "CLOSED"}
    <3>1. getStateName(n) = s /\ n \in 0..8
      BY <2>1, NameOfEncoded
    <3>2. QED
      BY <3>1 DEF getStateName, VAULT_STATES
  <2>5. ASSUME f = "cancelVault"
        PROVE  \/ token[vaults[visit.v].fundingAsset][Registry] >= vaults[visit.v].balance
               \/ vaults[visit.v].fundingAsset \in LenientAsset
    <3>1. PICK v \in VaultId : v = visit.v
      BY <2>1
    <3>2. vaults[v].owner = visit.account /\ visit.account \in Account
      BY <1>1, <2>3, <2>5, <3>1 DEF WalletInv, Visits
    <3>3. vaults[v].fundingAsset \in Asset
      BY <1>1, <3>2, OwnerIsReal DEF IInv, Sound
    <3>4. QED
      BY <1>1, <3>1, <3>3, CanRefund DEF IInv
  <2>6. Accepts(f)
    BY <2>3, <2>4, <2>5 DEF Accepts
  <2>7. QED
    BY <2>2, <2>6
<1>2. IInv /\ Solvency /\ WalletInv
      => (On("vault") /\ UpToDate(visit.v) =>
             \A f \in Offered : f \in VisitorCalls \cup {"anchorLegalDoc"} /\ Accepts(f))
  BY <1>1
<1>3. WebFrontEndInit => WalletInv
  BY WalletInitHolds DEF WebFrontEndInit
<1>4. QED
  BY <1>2, <1>3, WalletNextHolds, WebRefinesRegistry, InvariantHolds, StaysSolvent, PTL
  DEF WebFrontEndSpec

-----------------------------------------------------------------------------
(* What a confirmation leaves behind.                                      *)

\* A page that was not looked at has nothing under way, and only the page of a vault
\* waits for its timer or a reading of the state.
FollowInv ==
    /\ opened[visit.v] = "no" =>
          pool = <<>> /\ \A h \in {"main", "approve"} : hooks[h].status \notin {"wallet", "sent"}
    /\ timer \/ due \/ behind => On("vault")

\* While a confirmed change is not shown and the timer or a refetch will see to it, the
\* page can read the state, and a step leaves it so, reads what the contract has, or is
\* the account's next click.
Followed ==
    behind /\ (timer \/ due) =>
        /\ On("vault")
        /\ \/ behind' /\ (timer' \/ due')
           \/ ~behind' /\ readState'[visit.v] = Encoded(vaults[visit.v].state)
           \/ Busy("main")'

\* The account stays on a page that was looked at.
LEMMA StaysOpen ==
    ASSUME FollowInv, opened[visit.v] # "no", UNCHANGED <<visit, opened>>,
           timer' \/ due' \/ behind' => timer \/ due \/ behind \/ visit.page = "vault"
    PROVE  FollowInv'
BY DEF FollowInv, On

\* A click that goes to the wallet.
LEMMA WriteFollowed ==
    ASSUME FollowInv, WalletInv, opened[visit.v] # "no", NEW call, Write(call)
    PROVE  FollowInv' /\ Followed
<1>1. /\ hooks' = [hooks EXCEPT !["main"] = [status |-> "wallet", call |-> call]]
      /\ timer' = FALSE /\ UNCHANGED <<visit, opened, due, behind>>
  BY DEF Write, readVars
<1>2. Busy("main")'
  BY <1>1 DEF Busy, WalletInv
<1>3. FollowInv'
  BY <1>1, StaysOpen
<1>4. QED
  BY <1>2, <1>3 DEF Followed, FollowInv

\* Every click keeps it.
LEMMA ClickFollowed ==
    ASSUME FollowInv, WalletInv, LookInv, Clicks
    PROVE  FollowInv' /\ Followed
<1>1. ASSUME NEW v \in VaultId, HandleLookup(v) PROVE FollowInv' /\ Followed
  <2>1. /\ visit' = [visit EXCEPT !.v = v] /\ opened[visit.v] # "no"
        /\ visit.page = "observe" /\ LookAt(v)
        /\ UNCHANGED <<hooks, pool, timer, due, behind>>
    BY <1>1 DEF HandleLookup, On, txVars, readVars
  <2>2. visit'.v = v
    BY <2>1 DEF WalletInv, Visits
  <2>3. opened'[v] # "no"
    BY <2>1 DEF LookAt, LookInv
  <2>4. ~timer /\ ~due /\ ~behind
    BY <2>1 DEF FollowInv, On
  <2>5. QED
    BY <2>1, <2>2, <2>3, <2>4 DEF FollowInv, Followed
<1>2. ASSUME Offered # {} PROVE opened[visit.v] # "no"
  BY <1>2 DEF Offered, On
<1>3. ASSUME NEW amount, DoApproveAndFund(amount) PROVE FollowInv' /\ Followed
  <2>1. /\ Offered # {} /\ UNCHANGED <<visit, opened, timer, due, behind>>
    BY <1>3 DEF DoApproveAndFund, readVars
  <2>2. FollowInv'
    BY <1>2, <2>1, StaysOpen
  <2>3. QED
    BY <2>1, <2>2 DEF Followed, FollowInv
<1>4. ASSUME NEW field, NEW value, EditForm(field, value) PROVE FollowInv' /\ Followed
  <2>1. opened[visit.v] # "no" /\ UNCHANGED <<visit, opened, timer, due, behind>>
    BY <1>4 DEF EditForm, On, txVars, readVars
  <2>2. FollowInv'
    BY <2>1, StaysOpen
  <2>3. QED
    BY <2>1, <2>2 DEF Followed, FollowInv
<1>5. CASE GoToDashboard
  <2>1. /\ visit.page = "create" /\ opened[visit.v] # "no"
        /\ visit' = [visit EXCEPT !.page = "dashboard"]
        /\ UNCHANGED <<opened, timer, due, behind>>
    BY <1>5 DEF GoToDashboard, On, readVars
  <2>2. visit'.v = visit.v
    BY <2>1 DEF WalletInv, Visits
  <2>3. ~timer /\ ~due /\ ~behind
    BY <2>1 DEF FollowInv, On
  <2>4. QED
    BY <2>1, <2>2, <2>3 DEF FollowInv, Followed
<1>6. ASSUME NEW call, Write(call), opened[visit.v] # "no" PROVE FollowInv' /\ Followed
  BY <1>6, WriteFollowed
<1>7. ASSUME NEW fn, Do(fn) PROVE FollowInv' /\ Followed
  BY <1>2, <1>6, <1>7 DEF Do
<1>8. ASSUME NEW amount, DoFundVault(amount) PROVE FollowInv' /\ Followed
  BY <1>2, <1>6, <1>8 DEF DoFundVault
<1>9. CASE HandleSubmit
  BY <1>6, <1>9 DEF HandleSubmit, On
<1>10. QED
  BY <1>1, <1>3, <1>4, <1>5, <1>7, <1>8, <1>9 DEF Clicks

\* Wallet, blocks and the timer keep it.
LEMMA WalletFollowed ==
    ASSUME FollowInv, WalletInv, Wallet \/ Mined \/ TimerFires
    PROVE  FollowInv' /\ Followed
<1>1. ASSUME NEW h \in DOMAIN hooks, WalletRefuses(h) \/ WalletSends(h) \/ ReceiptLost(h)
      PROVE  FollowInv' /\ Followed
  <2>1. /\ hooks[h].status \in {"wallet", "sent"} /\ h \in {"main", "approve"}
        /\ UNCHANGED <<visit, opened, timer, due, behind>>
    BY <1>1 DEF WalletRefuses, WalletSends, ReceiptLost, readVars, WalletInv
  <2>2. opened[visit.v] # "no"
    BY <2>1 DEF FollowInv
  <2>3. FollowInv'
    BY <2>1, <2>2, StaysOpen
  <2>4. QED
    BY <2>1, <2>3 DEF Followed, FollowInv
<1>2. CASE Mined
  <2>1. /\ pool # <<>> /\ UNCHANGED <<visit, opened, due>>
        /\ timer' => timer \/ visit.page = "vault"
        /\ behind' => behind \/ visit.page = "vault"
        /\ timer => timer'
        /\ behind => behind'
    BY <1>2 DEF Mined
  <2>2. opened[visit.v] # "no"
    BY <2>1 DEF FollowInv
  <2>3. FollowInv'
    BY <2>1, <2>2, StaysOpen
  <2>4. QED
    BY <2>1, <2>3 DEF Followed, FollowInv
<1>3. CASE TimerFires
  <2>1. timer /\ due' = TRUE /\ UNCHANGED <<visit, opened, behind>>
    BY <1>3 DEF TimerFires
  <2>2. opened[visit.v] # "no"
    BY <2>1 DEF FollowInv, On
  <2>3. FollowInv'
    BY <2>1, <2>2, StaysOpen
  <2>4. QED
    BY <2>1, <2>3 DEF Followed, FollowInv
<1>4. QED
  BY <1>1, <1>2, <1>3 DEF Wallet

\* Every reading keeps it.
LEMMA ReadFollowed ==
    ASSUME FollowInv, WalletInv, LookInv, Open \/ Reads
    PROVE  FollowInv' /\ Followed
<1>1. CASE Open
  <2>1. /\ opened[visit.v] = "no" /\ LookAt(visit.v)
        /\ UNCHANGED <<visit, timer, due, behind>>
    BY <1>1 DEF Open, readVars, txVars
  <2>2. ~timer /\ ~due /\ ~behind
    BY <2>1 DEF FollowInv, On
  <2>3. opened'[visit.v] # "no"
    BY <2>1 DEF LookAt, LookInv
  <2>4. QED
    BY <2>1, <2>2, <2>3 DEF FollowInv, Followed
<1>2. CASE ReadState
  <2>1. /\ opened[visit.v] # "no" /\ UNCHANGED <<visit, opened, timer>>
        /\ due' = FALSE /\ behind' = FALSE
        /\ readState' = [readState EXCEPT ![visit.v] = Encoded(vaults[visit.v].state)]
    BY <1>2 DEF ReadState, On, txVars
  <2>2. readState'[visit.v] = Encoded(vaults[visit.v].state)
    BY <2>1 DEF LookInv, WalletInv, Visits
  <2>3. FollowInv'
    BY <2>1, StaysOpen
  <2>4. QED
    BY <2>1, <2>2, <2>3 DEF Followed, FollowInv
<1>3. CASE \/ ReadNextVaultId \/ ReadConfig \/ ReadTiming
           \/ \E missing \in SUBSET VaultId : ReadOwners(missing) \/ ReadStates(missing)
  <2>1. opened[visit.v] # "no" /\ UNCHANGED <<visit, opened, timer, due, behind>>
    BY <1>3 DEF ReadNextVaultId, ReadConfig, ReadTiming, ReadOwners, ReadStates, On, txVars
  <2>2. FollowInv'
    BY <2>1, StaysOpen
  <2>3. QED
    BY <2>1, <2>2 DEF Followed, FollowInv
<1>4. QED
  BY <1>1, <1>2, <1>3 DEF Reads

\* A confirmation is not forgotten: from the success on the page can read the state, and
\* whatever happens to page, wallet, chain or vault, the timer runs or a refetch is due
\* until the state is read as the contract has it or the account clicks again.
THEOREM ConfirmationsAreFollowed == WebFrontEndSpec => [][Followed]_allVars
<1>1. WebFrontEndInit => WalletInv /\ LookInv /\ FollowInv
  <2> SUFFICES ASSUME WebFrontEndInit PROVE FollowInv
    BY WalletInitHolds, LookInitHolds DEF WebFrontEndInit
  <2>1. /\ hooks = [main |-> Idle, approve |-> Idle] /\ pool = <<>>
        /\ ~timer /\ ~due /\ ~behind
    BY DEF WebFrontEndInit, WebInit
  <2>2. \A h \in {"main", "approve"} : hooks[h].status = "none"
    BY <2>1 DEF Idle, Hook
  <2>3. QED
    BY <2>1, <2>2 DEF FollowInv
<1>2. ASSUME WalletInv, LookInv, FollowInv, [WebFrontEndNext]_allVars
      PROVE  FollowInv' /\ Followed
  <2>1. CASE Open \/ Reads
    BY <1>2, <2>1, ReadFollowed
  <2>2. CASE Clicks
    BY <1>2, <2>2, ClickFollowed
  <2>3. CASE Wallet \/ Mined \/ TimerFires
    BY <1>2, <2>3, WalletFollowed
  <2>4. CASE UNCHANGED webVars
    <3>1. UNCHANGED <<visit, opened, due, behind, timer, pool, hooks>>
      BY <2>4 DEF webVars, readVars, txVars
    <3>2. QED
      BY <1>2, <3>1 DEF FollowInv, Followed, On
  <2>5. QED
    BY <1>2, <2>1, <2>2, <2>3, <2>4 DEF WebFrontEndNext, Elsewhere, allVars
<1>3. WalletInv /\ LookInv /\ FollowInv /\ [WebFrontEndNext]_allVars => FollowInv' /\ Followed
  BY <1>2
<1>4. WalletInv /\ LookInv /\ FollowInv /\ [WebFrontEndNext]_allVars => [Followed]_allVars
  BY <1>3
<1>5. QED
  BY <1>1, <1>3, <1>4, WalletNextHolds, ReadingsHold, PTL DEF WebFrontEndSpec
=============================================================================
