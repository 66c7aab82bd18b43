----------------------------- MODULE WebFrontEnd -----------------------------
(***************************************************************************)
(* The web front end (web/src/app) among the others who use the contract:  *)
(* what a visit shows and offers, and what its transactions do, while      *)
(* keepers, attestors, the oracle, the guardian and the owner's other      *)
(* devices move the vaults on.                                             *)
(***************************************************************************)
EXTENDS WebPages, TrusteePage

allVars == <<vars, webVars, attestations, trusteeVars>>

WebFrontEndInit == WebInit /\ TrusteeInit

\* Transactions of this tab that may still create a vault.
Ahead == Len(pool) + (IF hooks.main.status = "wallet" THEN 1 ELSE 0)

\* Everybody else.  Deposits and legal documents are followed from this tab only:
\* the balances and hashes the pages show decide nothing.  The asset of others'
\* vaults only matters to the page that funds one.
Elsewhere ==
    /\ Next
    /\ now' <= visit.until
    /\ nextVaultId' # nextVaultId =>
          /\ nextVaultId \in DOMAIN Created[visit.page]
          /\ vaults'[nextVaultId].owner \in Created[visit.page][nextVaultId]
          /\ vaults'[nextVaultId].fundingAsset = FXRP \/ visit.page = "vault"
          /\ nextVaultId' + Ahead <= MaxVaultId + 1
    /\ \A v \in VaultId :
          /\ v \notin DOMAIN Created[visit.page] => vaults'[v] = vaults[v]
          /\ ledger'[v].deposited = ledger[v].deposited
          /\ vaults'[v].legalDocHash = vaults[v].legalDocHash
    /\ UNCHANGED webVars

Reads ==
    \/ ReadNextVaultId
    \/ \E missing \in SUBSET VaultId :
          missing \subseteq vaultIds /\ (ReadOwners(missing) \/ ReadStates(missing))
    \/ (visit.timed => due) /\ ReadState
    \/ ~visit.timed /\ ReadConfig
    \/ visit.timed /\ ReadTiming

Clicks ==
    \/ \E v \in VaultId : HandleLookup(v)
    \/ \E fn \in {"checkIn", "ownerOverride", "guardianHalt", "cancelVault",
                  "anchorLegalDoc", "finalizeDisputeWindow", "finalizeFinalWindow"} :
          Do(fn)
    \/ \E amount \in Amount : DoApproveAndFund(amount) \/ DoFundVault(amount)
    \/ \E plan \in PlanHash : EditForm("plan", plan)
    \/ \E guardian \in GuardianKey : EditForm("guardian", guardian)
    \/ \E asset \in Asset : EditForm("asset", asset)
    \/ \E windows \in FormWindows : EditForm("windows", windows)
    \/ HandleSubmit
    \/ GoToDashboard

Wallet == \E h \in DOMAIN hooks : WalletRefuses(h) \/ WalletSends(h) \/ ReceiptLost(h)

\* A page of the registry is open, or the trustee's form.
WebFrontEndNext ==
    \/ /\ visit.page # "trustee"
       /\ \/ Open \/ Reads \/ Clicks \/ Wallet \/ Mined \/ TimerFires \/ Elsewhere
       /\ UNCHANGED <<attestations, trusteeVars>>
    \/ visit.page = "trustee" /\ TrusteeNext /\ UNCHANGED <<vars, webVars>>

\* setTimeout fires, and a refetch that was asked for is answered.
WebFrontEndSpec ==
    /\ WebFrontEndInit
    /\ [][WebFrontEndNext]_allVars
    /\ WF_allVars(TimerFires /\ UNCHANGED <<attestations, trusteeVars>>)
    /\ WF_allVars(due /\ ReadState /\ UNCHANGED <<attestations, trusteeVars>>)

-----------------------------------------------------------------------------
(* Properties.                                                             *)

\* Types of the pages' variables.
WebTypeOK ==
    /\ visit \in [page : Page, account : Account, v : VaultId, until : Nat, clicks : Nat,
                  timed : BOOLEAN]
    /\ opened \in [VaultId -> {"no", "known", "unborn"}]
    /\ readNext \in 0..(MaxVaultId + 1)
    /\ readState \in [VaultId -> 0..8 \cup {Unread, Failed}]
    /\ readOwner \in [VaultId -> Account \cup {NoAddress, Unread, Failed}]
    /\ readGuardian \in [VaultId -> Account \cup {NoAddress, Unread}]
    /\ readTiming \in [VaultId -> [lastCheckIn : 0..now, windowDeadline : Nat,
                                  state : VaultState] \cup {Unread}]
    /\ \A h \in DOMAIN hooks :
          hooks[h].status \in {"none", "wallet", "sent", "confirmed"}
    /\ timer => hooks.main.status = "confirmed"
    /\ clicks \in 0..visit.clicks /\ lost \in 0..MaxLost

\* What the page knows of its vault is what the contract has.
UpToDate(v) ==
    /\ readState[v] = Encoded(vaults[v].state)
    /\ readOwner[v] = vaults[v].owner
    /\ readGuardian[v] = vaults[v].guardianHaltKey

\* The page offers the owner and the guardian what the contract would let them do,
\* in every state: a check-in, an override, a halt or a cancellation exactly when
\* the call would succeed, funding in the states that take funds, the anchor never
\* in vain, and a finalization whenever it is due.
OffersMatchContract ==
    LET v == visit.v
        may == [checkIn |-> ENABLED CheckIn(visit.account, v),
                ownerOverride |-> ENABLED OwnerOverride(visit.account, v),
                guardianHalt |-> ENABLED GuardianHalt(visit.account, v),
                cancelVault |-> ENABLED CancelVault(visit.account, v)]
        party == visit.account \in {vaults[v].owner, vaults[v].guardianHaltKey} IN
    On("vault") /\ UpToDate(v) =>
        /\ \A f \in DOMAIN may : f \in Offered <=> may[f]
        /\ \A amount \in Amount :
              ENABLED FundVault(visit.account, v, amount) => "fundVault" \in Offered
        /\ "fundVault" \in Offered => vaults[v].state \notin {"FULLY_RELEASED", "CLOSED"}
        /\ "anchorLegalDoc" \in Offered => vaults[v].owner = visit.account
        /\ party /\ ENABLED FinalizeDisputeWindow(v) => "finalizeDisputeWindow" \in Offered
        /\ party /\ ENABLED FinalizeFinalWindow(v) => "finalizeFinalWindow" \in Offered

\* However old the readings, nobody is shown somebody else's vault as his own: the
\* dashboard lists exactly the account's vaults among those it has read, and only
\* the owner and the guardian of a vault ever get its panel.
OwnVaultsOnly ==
    /\ allVaultsLoaded =>
          DOMAIN Cards = {v \in vaultIds : /\ readOwner[v] # Failed
                                           /\ vaults[v].owner = visit.account}
    /\ Offered # {} =>
          visit.account \in {vaults[visit.v].owner, vaults[visit.v].guardianHaltKey}

Over == {"FULLY_RELEASED", "CLOSED"}

\* What is shown as over is over, however old the reading and whichever batch it
\* came from: a card, or the page of a vault that existed when it was opened, that
\* says released or closed says what the contract says.
ShownEndIsTrue ==
    /\ \A v \in DOMAIN Cards :
          getStateName(Cards[v]) \in Over => vaults[v].state = getStateName(Cards[v])
    /\ LET name == getStateName(ShownState(visit.v)) IN
       /\ opened[visit.v] = "known" /\ name \in Over => vaults[visit.v].state = name
       /\ opened[visit.v] = "known" /\ ReleaseShown => vaults[visit.v].state = "FULLY_RELEASED"

\* A countdown that is still running is right, however long ago its deadline was
\* read: unless somebody has restarted the vault's timers since, the contract counts to
\* the same deadline, and nobody has moved the vault on to another stage.  Cancelling is
\* the one way out before the deadline; it leaves the deadline (VaultRegistry.sol:348-353),
\* and a page that has not read the state since goes on counting for a closed vault.
CountdownIsRight ==
    \A v \in VaultId : LET read == readTiming[v] IN
        /\ read # Unread
        /\ Remaining(read.windowDeadline) > 0
        /\ read.lastCheckIn = vaults[v].lastCheckIn
        => /\ vaults[v].windowDeadline = read.windowDeadline
           /\ vaults[v].state \in {read.state, "CLOSED"}

Reached(v) ==
    LET steps == Timeline(Encoded(vaults[v].state))
    IN  {i \in DOMAIN LIFECYCLE_STEPS : steps[i] \in {"completed", "current"}}

\* The timeline tells the truth about the direction: every transition of the
\* contract that does not restart or close the page's vault lights further steps
\* and puts none out.
TimelineMovesForward ==
    [][vaults'[visit.v].state \notin {vaults[visit.v].state, "ACTIVE", "CLOSED"} =>
          /\ Reached(visit.v) \subseteq Reached(visit.v)'
          /\ Reached(visit.v) # Reached(visit.v)']_vaults

\* The account pays no more than it last agreed to, in all: before the page has seen an
\* approval confirmed nothing is paid, and from then on what was paid and what may still
\* be taken add up to that one approval.  Approvals whose receipts were lost add nothing,
\* amounts edited in between change nothing, and a payment pressed twice because its
\* receipt was lost comes out of the same approval.
PaysOneApproval ==
    /\ hooks.approve.status # "confirmed" => paidIn = 0
    /\ hooks.approve.status = "confirmed" => paidIn + allowance = asked

\* After every confirmed transaction the page reads the state again, unless the
\* account goes on to the next one first.
ConfirmedIsShown == (behind /\ timer) ~> (~behind \/ Busy("main"))
=============================================================================
