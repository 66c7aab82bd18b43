------------------------------ MODULE WebPages ------------------------------
(***************************************************************************)
(* The pages of web/src/app that show the registry: the dashboard, a       *)
(* vault's page, the form that creates one and the observer's lookup.  The *)
(* model is one visit, from one tab, to one of them, beside everybody else *)
(* who calls the contract.                                                 *)
(*                                                                         *)
(* Every value on a page was read by a call of its own and stays until it  *)
(* is read again: when the page opens, when the page asks for it, or when  *)
(* the query library refetches, which it may do at any time (external:     *)
(* wagmi, TanStack Query).  Balances and attestation counts are read and   *)
(* shown the way the state is and are left out, and so are the deadlines   *)
(* on the dashboard's cards.                                               *)
(*                                                                         *)
(* A transaction goes through the wallet (external): it can be refused,    *)
(* sent although it will revert, and mined after the page stopped looking. *)
(***************************************************************************)
EXTENDS VaultRegistry, WebDisplay

CONSTANTS
    Visit,        \* the visits: page, account, vault, and as bounds the last
                  \* block.timestamp watched, the clicks that reach the wallet,
                  \* and whether the deadlines are followed or all the rest,
                  \* except that a refetch that is due is always answered
    FXRP,         \* the asset of FXRP_ADDRESS
    FormWindows,  \* window lengths typed into the form, zeros included
    DEMO_PRESETS, \* those the form starts with
    Unread,       \* data that is undefined: not read yet
    Failed,       \* an item of a batch that could not be read
    Created,      \* bound: page -> who may create the first vault, the second, ...
    MaxLost       \* bound on the receipts that are never seen

Page == {"dashboard", "vault", "create", "observe", "trustee"}

ASSUME WebAssumption ==
    /\ Visit \subseteq [page : Page, account : Account, v : VaultId,
                         until : Nat, clicks : Nat, timed : BOOLEAN]
    /\ \A at \in Visit : at.page = "create" => at.account \in VaultOwner
    /\ FXRP \in Asset
    /\ DEMO_PRESETS \in FormWindows
    /\ {Unread, Failed} \cap (Account \cup {NoAddress} \cup Nat) = {}
    /\ \A page \in Page : Created[page] \in Seq(SUBSET VaultOwner)
    /\ MaxLost \in Nat

VARIABLES
    visit,         \* where the tab is and whose wallet is connected
    opened,        \* id -> "no", or whether it existed when first looked at
    readNext,      \* nextVaultId as read, 0 before
    readState,     \* id -> number of the state as read
    readOwner,     \* id -> owner as read
    readGuardian,  \* id -> guardian as read
    readTiming,    \* id -> lastCheckIn and windowDeadline as read; history: the state then
    due,           \* refetchAll has asked for the state again
    behind,        \* the state was not read since the tab's last success
    hooks,         \* the two useWriteContract hooks: how far, with which call
    pool,          \* calls that are sent and not mined, oldest first
    timer,         \* the two-second timer after a confirmation is running
    allowance,     \* FXRP of the account that the registry may take
    asked,         \* history: the last approval the wallet was asked for
    paidIn,        \* history: what was funded from this tab, in all
    form,          \* the create page's fields
    clicks, lost

readVars == <<readNext, readState, readOwner, readGuardian, readTiming, due, behind>>

tokenVars == <<allowance, paidIn>>

moneyVars == <<asked, tokenVars>>

txVars == <<hooks, pool, timer, clicks, lost, moneyVars>>

webVars == <<visit, opened, readVars, txVars, form>>

NothingRead == [v \in VaultId |-> Unread]

\* The contract function and what the page passes besides the vault.
Call(fn, arg) == [fn |-> fn, arg |-> arg]

\* A hook remembers its call until the wallet has sent it.
Hook(status) == [status |-> status, call |-> Call("none", 0)]

Idle == Hook("none")

EmptyForm == [plan |-> NoHash, guardian |-> NoAddress, asset |-> FXRP,
              windows |-> DEMO_PRESETS]

WebInit ==
    /\ Init
    /\ visit \in Visit
    /\ opened = [v \in VaultId |-> "no"]
    /\ readNext = 0
    /\ readState = NothingRead
    /\ readOwner = NothingRead
    /\ readGuardian = NothingRead
    /\ readTiming = NothingRead
    /\ due = FALSE
    /\ behind = FALSE
    /\ hooks = [main |-> Idle, approve |-> Idle]
    /\ pool = <<>>
    /\ timer = FALSE
    /\ allowance = 0
    /\ asked = 0
    /\ paidIn = 0
    /\ form = EmptyForm
    /\ clicks = 0
    /\ lost = 0

-----------------------------------------------------------------------------
(* Opening a page and reading from the contract.                           *)

On(page) == opened[visit.v] # "no" /\ visit.page = page

\* The first look at an id counts: what is read of it stays in the query cache.
LookAt(v) ==
    opened' = [opened EXCEPT ![v] = IF @ # "no" THEN @
                                    ELSE IF v < nextVaultId THEN "known" ELSE "unborn"]

Open ==
    /\ opened[visit.v] = "no"
    /\ LookAt(visit.v)
    /\ UNCHANGED <<vars, visit, readVars, txVars, form>>

\* The observer looks another id up; what was read of the first is kept.
HandleLookup(v) ==
    /\ On("observe")
    /\ v # visit.v
    /\ visit' = [visit EXCEPT !.v = v]
    /\ LookAt(v)
    /\ UNCHANGED <<vars, readVars, txVars, form>>

\* The dashboard's batches depend on the number of vaults: with a new number
\* they are new queries, unread at first.
ReadNextVaultId ==
    /\ On("dashboard")
    /\ readNext' = nextVaultId
    /\ IF readNext = nextVaultId
       THEN UNCHANGED <<readState, readOwner>>
       ELSE readState' = NothingRead /\ readOwner' = NothingRead
    /\ UNCHANGED <<vars, visit, opened, readGuardian, readTiming, due, behind, txVars,
                   form>>

vaultIds == {v \in VaultId : v < readNext}

\* A batch answers item by item; an item can fail by itself.
Batch(missing, answer) ==
    [v \in VaultId |-> IF v \notin vaultIds THEN Unread
                       ELSE IF v \in missing THEN Failed ELSE answer[v]]

ReadOwners(missing) ==
    /\ On("dashboard") /\ vaultIds # {}
    /\ readOwner' = Batch(missing, [v \in VaultId |-> vaults[v].owner])
    /\ UNCHANGED <<vars, visit, opened, readNext, readState, readGuardian,
                   readTiming, due, behind, txVars, form>>

ReadStates(missing) ==
    /\ On("dashboard") /\ vaultIds # {}
    /\ readState' = Batch(missing, [v \in VaultId |-> Encoded(vaults[v].state)])
    /\ UNCHANGED <<vars, visit, opened, readNext, readOwner, readGuardian,
                   readTiming, due, behind, txVars, form>>

\* getVaultState and getVaultConfig of the page's vault.
ReadState ==
    /\ On("vault") \/ On("observe")
    /\ readState' = [readState EXCEPT ![visit.v] = Encoded(vaults[visit.v].state)]
    /\ due' = FALSE
    /\ behind' = FALSE
    /\ UNCHANGED <<vars, visit, opened, readNext, readOwner, readGuardian, readTiming,
                   txVars, form>>

ReadConfig ==
    /\ On("vault") \/ On("observe")
    /\ readOwner' = [readOwner EXCEPT ![visit.v] = vaults[visit.v].owner]
    /\ readGuardian' = [readGuardian EXCEPT ![visit.v] = vaults[visit.v].guardianHaltKey]
    /\ UNCHANGED <<vars, visit, opened, readNext, readState, readTiming, due, behind,
                   txVars, form>>

\* getVaultTiming, of which the windows never change.
ReadTiming ==
    /\ On("vault") \/ On("observe")
    /\ readTiming' = [readTiming EXCEPT ![visit.v] =
                        [lastCheckIn |-> vaults[visit.v].lastCheckIn,
                         windowDeadline |-> vaults[visit.v].windowDeadline,
                         state |-> vaults[visit.v].state]]
    /\ UNCHANGED <<vars, visit, opened, readNext, readState, readOwner, readGuardian,
                   due, behind, txVars, form>>

-----------------------------------------------------------------------------
(* What is shown.                                                          *)

\* A state that is not there, or whose item failed, is taken to be 0.
ShownState(v) == IF readState[v] \in {Unread, Failed} THEN 0 ELSE readState[v]

\* Mutant: the second that reaches the deadline still counts.
RemainingInclusive(deadline) == IF deadline + 1 > now THEN deadline + 1 - now ELSE 0

\* The countdown, by a clock that agrees with the chain's; it says EXPIRED at 0.
Remaining(deadline) == IF deadline > now THEN deadline - now ELSE 0

Answered(answer) == vaultIds # {} /\ \A v \in vaultIds : answer[v] # Unread

\* Without any vault the batches stay disabled and nothing is ever loaded.
allVaultsLoaded == On("dashboard") /\ Answered(readOwner) /\ Answered(readState)

\* Mutant: the owners are looked up one place too far.
myVaultsShifted == {v \in vaultIds : v + 1 \in vaultIds /\ readOwner[v + 1] = visit.account}

myVaults == {v \in vaultIds : readOwner[v] = visit.account}

\* Mutant: a card shows the state of its neighbour in the batch.
CardNextState(v) == ShownState(IF v + 1 \in vaultIds THEN v + 1 ELSE v)

Card(v) == ShownState(v)

\* The cards of the dashboard: id -> number of the state shown.
Cards == [v \in {w \in myVaults : allVaultsLoaded} |-> Card(v)]

vaultExists ==
    On("observe") /\ readOwner[visit.v] \notin {Unread, NoAddress}

\* "Funds have been released."
ReleaseShown == vaultExists /\ ShownState(visit.v) \in {5, 7}

Offered ==
    IF On("vault")
    THEN Offers(readOwner[visit.v] = visit.account, readGuardian[visit.v] = visit.account,
                ShownState(visit.v))
    ELSE {}

-----------------------------------------------------------------------------
(* Calls through the wallet.                                               *)

\* isPending, or waiting for the receipt: the hook's buttons are disabled.
Busy(h) == hooks[h].status \in {"wallet", "sent"}

\* Mutant: the effect does not clear its timer.
WriteKeepingTimer(call) ==
    /\ ~Busy("main")
    /\ clicks < visit.clicks
    /\ clicks' = clicks + 1
    /\ hooks' = [hooks EXCEPT !.main = [status |-> "wallet", call |-> call]]
    /\ UNCHANGED <<vars, visit, opened, readVars, pool, timer, lost, moneyVars, form>>

\* writeContract after reset, which also ends the wait for the timer.
Write(call) ==
    /\ ~Busy("main")
    /\ clicks < visit.clicks
    /\ clicks' = clicks + 1
    /\ hooks' = [hooks EXCEPT !.main = [status |-> "wallet", call |-> call]]
    /\ timer' = FALSE
    /\ UNCHANGED <<vars, visit, opened, readVars, pool, lost, moneyVars, form>>

\* doCheckIn, doGuardianHalt, doOwnerOverride, doCancelVault, doAnchorLegalDoc,
\* doFinalizeDispute, doFinalizeFinal.
Do(fn) == fn \in Offered \ {"fundVault"} /\ Write(Call(fn, 0))

\* Mutant: the second button, once an approval was sent.
DoFundVaultEarly(amount) ==
    /\ "fundVault" \in Offered
    /\ hooks.approve.status \in {"sent", "confirmed"}
    /\ Write(Call("fundVault", amount))

\* The second button, once an approval was confirmed; the hook of the approval is
\* never reset.
DoFundVault(amount) ==
    /\ "fundVault" \in Offered
    /\ hooks.approve.status = "confirmed"
    /\ Write(Call("fundVault", amount))

\* The first button.
DoApproveAndFund(amount) ==
    /\ "fundVault" \in Offered
    /\ hooks.approve.status # "confirmed" /\ ~Busy("approve")
    /\ clicks < visit.clicks
    /\ clicks' = clicks + 1
    /\ hooks' = [hooks EXCEPT !.approve = [status |-> "wallet",
                                           call |-> Call("approve", amount)]]
    /\ asked' = amount
    /\ UNCHANGED <<vars, visit, opened, readVars, pool, timer, lost, tokenVars, form>>

\* Fields and presets of the create page.
EditForm(field, value) ==
    /\ On("create")
    /\ form[field] # value
    /\ form' = [form EXCEPT ![field] = value]
    /\ UNCHANGED <<vars, visit, opened, readVars, txVars>>

\* The form is submitted when plan and guardian are filled in; the windows are
\* not looked at, and the fields stay as they are afterwards.
HandleSubmit ==
    /\ On("create")
    /\ form.plan # NoHash /\ form.guardian # NoAddress
    /\ nextVaultId + Len(pool) <= MaxVaultId
    /\ Write(Call("createVault", form))

\* "Go to Dashboard" below a confirmed creation.
GoToDashboard ==
    /\ On("create")
    /\ hooks.main.status = "confirmed"
    /\ visit' = [visit EXCEPT !.page = "dashboard"]
    /\ hooks' = [main |-> Idle, approve |-> Idle]
    /\ form' = EmptyForm
    /\ UNCHANGED <<vars, opened, readVars, pool, timer, clicks, lost, moneyVars>>

\* The error is shown and the buttons work again.
WalletRefuses(h) ==
    /\ hooks[h].status = "wallet"
    /\ hooks' = [hooks EXCEPT ![h] = Idle]
    /\ UNCHANGED <<vars, visit, opened, readVars, pool, timer, clicks, lost, moneyVars, form>>

WalletSends(h) ==
    /\ hooks[h].status = "wallet"
    /\ hooks' = [hooks EXCEPT ![h] = Hook("sent")]
    /\ pool' = Append(pool, [hook |-> h, call |-> hooks[h].call])
    /\ UNCHANGED <<vars, visit, opened, readVars, timer, clicks, lost, moneyVars, form>>

\* The read of the receipt fails for good: the page stops waiting, shows neither
\* success nor error and enables its buttons; the transaction is still under way.
ReceiptLost(h) ==
    /\ hooks[h].status = "sent"
    /\ lost < MaxLost
    /\ lost' = lost + 1
    /\ hooks' = [hooks EXCEPT ![h] = Idle]
    /\ pool' = [i \in DOMAIN pool |->
                   IF pool[i].hook = h THEN [pool[i] EXCEPT !.hook = "nobody"] ELSE pool[i]]
    /\ UNCHANGED <<vars, visit, opened, readVars, timer, clicks, moneyVars, form>>

\* ERC-20 approve: the new allowance replaces the old one.
Approve(amount) ==
    /\ allowance' = amount
    /\ UNCHANGED <<vars, paidIn>>

\* fundVault takes the tokens by allowance; the page only ever approves FXRP.
Fund(amount) ==
    /\ vaults[visit.v].fundingAsset = FXRP
    /\ allowance >= amount
    /\ FundVault(visit.account, visit.v, amount)
    /\ allowance' = allowance - amount
    /\ paidIn' = paidIn + amount

\* createVault with the fields as they were at the click.
Create(fields) ==
    /\ fields.windows \in Timing
    /\ CreateVault(visit.account, fields.plan, fields.asset, fields.windows,
                   fields.guardian)

\* What a transaction does when it is mined, if the contract accepts it.
Effect(call) ==
    \/ call.fn = "approve" /\ Approve(call.arg)
    \/ call.fn = "fundVault" /\ Fund(call.arg)
    \/ /\ UNCHANGED tokenVars
       /\ \/ call.fn = "checkIn" /\ CheckIn(visit.account, visit.v)
          \/ call.fn = "ownerOverride" /\ OwnerOverride(visit.account, visit.v)
          \/ call.fn = "guardianHalt" /\ GuardianHalt(visit.account, visit.v)
          \/ call.fn = "cancelVault" /\ CancelVault(visit.account, visit.v)
          \/ /\ call.fn = "anchorLegalDoc"
             /\ \E hash \in LegalDoc : AnchorLegalDoc(visit.account, visit.v, hash)
          \/ call.fn = "finalizeDisputeWindow" /\ FinalizeDisputeWindow(visit.v)
          \/ call.fn = "finalizeFinalWindow" /\ FinalizeFinalWindow(visit.v)
          \/ call.fn = "createVault" /\ Create(call.arg)

\* The contract does not revert.
Accepted(call) == ENABLED Effect(call)

\* The oldest transaction is mined and its receipt, if anybody waits for it, seen:
\* a revert ends the wait without a word, a success starts the timer.
Mined ==
    LET tx == Head(pool)
        accepted == Accepted(tx.call)
        seen == tx.hook # "nobody" IN
    /\ pool # <<>>
    /\ pool' = Tail(pool)
    /\ IF accepted THEN Effect(tx.call) ELSE UNCHANGED <<vars, tokenVars>>
    /\ hooks' = IF seen
                THEN [hooks EXCEPT ![tx.hook] = IF accepted THEN Hook("confirmed") ELSE Idle]
                ELSE hooks
    /\ timer' = (timer \/ (accepted /\ tx.hook = "main" /\ visit.page = "vault"))
    /\ behind' = (behind \/ (accepted /\ tx.hook = "main" /\ visit.page = "vault"))
    /\ UNCHANGED <<visit, opened, readNext, readState, readOwner, readGuardian,
                   readTiming, due, clicks, lost, asked, form>>

\* Mutant: the hook is reset without asking for the state.
TimerOnlyResets ==
    /\ timer
    /\ timer' = FALSE
    /\ hooks' = [hooks EXCEPT !.main = Idle]
    /\ UNCHANGED <<vars, visit, opened, readVars, pool, clicks, lost, moneyVars, form>>

\* refetchAll and resetTx, two seconds after the confirmation.
TimerFires ==
    /\ timer
    /\ timer' = FALSE
    /\ due' = TRUE
    /\ hooks' = [hooks EXCEPT !.main = Idle]
    /\ UNCHANGED <<vars, visit, opened, readNext, readState, readOwner, readGuardian,
                   readTiming, behind, pool, clicks, lost, moneyVars, form>>
=============================================================================
