---------------------------- MODULE VaultRegistry ----------------------------
(***************************************************************************)
(* contracts/src/VaultRegistry.sol: the contract that keeps every vault,   *)
(* its custody balance and the dead man's switch that releases it.  One    *)
(* action per external function; a call that reverts is a step that cannot *)
(* be taken.  Transactions are serialised by the chain, so one call is one *)
(* step.  Several calls may carry the same block timestamp (`now').        *)
(*                                                                         *)
(* Vault ids that were never created are part of the state too: their      *)
(* storage reads as zero, which is state ACTIVE with deadline 0, and the   *)
(* permissionless functions work on them.                                  *)
(***************************************************************************)
EXTENDS Totals

CONSTANTS
    Account,          \* addresses that call the contract
    Admin,            \* the deployer
    EnclaveOracle,    \* the address fixed by the constructor
    VaultOwner,       \* the accounts that create vaults
    GuardianKey,      \* the accounts named as guardians
    Verifier,         \* the attestation verifiers the admin may link
    Registry,         \* the contract's own address, a token holder
    NoAddress,        \* address(0)
    Asset,            \* ERC-20 tokens used as fundingAsset
    LenientAsset,     \* those whose transfers return false instead of reverting
    PlanHash,         \* plan commitments
    LegalDoc,         \* legal document hashes
    NoHash,           \* bytes32(0)
    Timing,           \* the window lengths owners choose at creation
    Amount,           \* amounts passed to fundVault
    Threshold,        \* values passed to setQuorumThreshold
    InitialTokens,    \* bound: tokens of each asset each account starts with
    MaxVaultId,       \* bound on the number of vaults
    MaxTime,          \* bound on block.timestamp
    MaxDeposit,       \* bound on what is deposited into one vault
    MaxAttestations   \* bound on the attestations counted for one vault

Window == Nat \ {0}

TimingType == [checkInInterval : Nat, graceWindow : Nat,
               disputeWindow : Nat, finalWindow : Nat]

\* createVault's requires: no window may be zero, nor any address or hash.
ASSUME RegistryAssumption ==
    /\ {Admin, EnclaveOracle} \cup VaultOwner \cup GuardianKey \cup Verifier
         \subseteq Account
    /\ {Registry, NoAddress} \cap (Account \cup Asset) = {}
    /\ Registry # NoAddress
    /\ LenientAsset \subseteq Asset
    /\ NoHash \notin PlanHash \cup LegalDoc
    /\ Timing \subseteq [checkInInterval : Window, graceWindow : Window,
                         disputeWindow : Window, finalWindow : Window]
    /\ Amount \subseteq Nat \ {0}
    /\ Threshold \subseteq Nat \ {0}
    /\ InitialTokens \in Nat
    /\ MaxVaultId \in Nat
    /\ MaxTime \in Nat
    /\ MaxDeposit \in Nat
    /\ MaxAttestations \in Nat

VARIABLES
    nextVaultId,            \* auto-incrementing id counter
    vaults,                 \* id -> Vault struct
    vaultAttestationCount,  \* id -> number of verified attestations
    quorumThreshold,
    fdcVerifier,            \* the attestation verifier, NoAddress until set
    token,                  \* the ERC-20 balances: asset -> holder -> units
    now,                    \* block.timestamp
    ledger                  \* id -> what the contract's events add up to

registryVars == <<nextVaultId, vaults, vaultAttestationCount, quorumThreshold,
                  fdcVerifier>>

vars == <<nextVaultId, vaults, vaultAttestationCount, quorumThreshold,
          fdcVerifier, token, now, ledger>>

VaultId == 1..MaxVaultId

Holder == Account \cup {Registry}

\* enum VaultState; TRANCHE_1_RELEASED is only ever passed through inside
\* finalizeDisputeWindow.
VaultState == {"ACTIVE", "WARNING", "QUORUM_PENDING", "DISPUTE_WINDOW",
               "FINAL_WINDOW", "FULLY_RELEASED", "CLOSED"}

Vault == [owner : Account \cup {NoAddress},
          planCommitmentHash : PlanHash \cup {NoHash},
          fundingAsset : Asset \cup {NoAddress},
          balance : Nat,
          timing : TimingType,
          state : VaultState,
          lastCheckIn : Nat,
          windowDeadline : Nat,
          guardianHaltKey : Account \cup {NoAddress},
          legalDocHash : LegalDoc \cup {NoHash}]

\* Totals of VaultFunded, TrancheReleased and refund transfers of one vault,
\* and the amount of its latest first tranche.
Ledger == [deposited : Nat, released : Nat, refunded : Nat, tranche1 : Nat]

ZeroVault == [owner |-> NoAddress, planCommitmentHash |-> NoHash,
              fundingAsset |-> NoAddress, balance |-> 0,
              timing |-> [checkInInterval |-> 0, graceWindow |-> 0,
                          disputeWindow |-> 0, finalWindow |-> 0],
              state |-> "ACTIVE", lastCheckIn |-> 0, windowDeadline |-> 0,
              guardianHaltKey |-> NoAddress, legalDocHash |-> NoHash]

Init ==
    /\ nextVaultId = 1
    /\ vaults = [v \in VaultId |-> ZeroVault]
    /\ vaultAttestationCount = [v \in VaultId |-> 0]
    /\ quorumThreshold = 2
    /\ fdcVerifier = NoAddress
    /\ token = [a \in Asset |-> [h \in Holder |->
                                    IF h = Registry THEN 0 ELSE InitialTokens]]
    /\ now = 1
    /\ ledger = [v \in VaultId |-> [deposited |-> 0, released |-> 0,
                                    refunded |-> 0, tranche1 |-> 0]]

-----------------------------------------------------------------------------
(* Helpers shared by the functions below.                                  *)

\* The vaults after v enters state s with the given deadline.
Entered(v, s, deadline) ==
    [vaults EXCEPT ![v] = [@ EXCEPT !.state = s, !.windowDeadline = deadline]]

\* Mutant: the deadline of the window that was left stays in force.
RestartedWithOldDeadline(v) ==
    [vaults EXCEPT ![v] = [@ EXCEPT !.state = "ACTIVE", !.lastCheckIn = now]]

\* The vaults after v's timers restart: checkIn, guardianHalt and ownerOverride
\* all end this way.
Restarted(v) ==
    [vaults EXCEPT ![v] = [@ EXCEPT
        !.state = "ACTIVE",
        !.lastCheckIn = now,
        !.windowDeadline = now + vaults[v].timing.checkInInterval]]

\* One token's balances after a payment.
Paid(balances, from, to, amount) ==
    [balances EXCEPT ![from] = @ - amount, ![to] = @ + amount]

\* An ERC-20 transfer whose result the contract does not look at: a token that
\* reverts stops the call, a lenient one returns false and moves nothing.
Transfer(asset, from, to, amount) ==
    \/ /\ token[asset][from] >= amount
       /\ token' = [token EXCEPT ![asset] = Paid(token[asset], from, to, amount)]
    \/ /\ asset \in LenientAsset
       /\ token[asset][from] < amount
       /\ UNCHANGED token

-----------------------------------------------------------------------------
(* Administration.                                                         *)

SetFdcVerifier(caller, verifier) ==
    /\ caller = Admin
    /\ fdcVerifier = NoAddress
    /\ verifier # NoAddress
    /\ fdcVerifier' = verifier
    /\ UNCHANGED <<nextVaultId, vaults, vaultAttestationCount, quorumThreshold,
                   token, now, ledger>>

\* Vaults already waiting for quorum are not looked at again.
SetQuorumThreshold(caller, threshold) ==
    /\ caller = Admin
    /\ threshold > 0
    /\ quorumThreshold' = threshold
    /\ UNCHANGED <<nextVaultId, vaults, vaultAttestationCount, fdcVerifier,
                   token, now, ledger>>

-----------------------------------------------------------------------------
(* The owner's calls.                                                      *)

\* Mutant: the state and the timers of the new id are taken to be zero already.
CreateVaultKeepingState(caller, plan, asset, timing, guardian) ==
    /\ nextVaultId <= MaxVaultId
    /\ nextVaultId' = nextVaultId + 1
    /\ vaults' = [vaults EXCEPT ![nextVaultId] = [@ EXCEPT
                     !.owner = caller,
                     !.planCommitmentHash = plan,
                     !.fundingAsset = asset,
                     !.timing = timing,
                     !.guardianHaltKey = guardian,
                     !.lastCheckIn = now,
                     !.windowDeadline = now + timing.checkInInterval]]
    /\ UNCHANGED <<vaultAttestationCount, quorumThreshold, fdcVerifier,
                   token, now, ledger>>

\* Mutant: the struct is stored under the number of vaults there are already.
CreateVaultOffByOne(caller, plan, asset, timing, guardian) ==
    LET v == IF nextVaultId = 1 THEN 1 ELSE nextVaultId - 1 IN
    /\ nextVaultId <= MaxVaultId
    /\ nextVaultId' = nextVaultId + 1
    /\ vaults' = [vaults EXCEPT ![v] = [@ EXCEPT
                     !.owner = caller,
                     !.planCommitmentHash = plan,
                     !.fundingAsset = asset,
                     !.timing = timing,
                     !.guardianHaltKey = guardian,
                     !.state = "ACTIVE",
                     !.lastCheckIn = now,
                     !.windowDeadline = now + timing.checkInInterval]]
    /\ UNCHANGED <<vaultAttestationCount, quorumThreshold, fdcVerifier,
                   token, now, ledger>>

\* The struct's identity, timing and state fields are written; balance,
\* legalDocHash and the attestation count of the id are left as they are.
CreateVault(caller, plan, asset, timing, guardian) ==
    /\ nextVaultId <= MaxVaultId
    /\ nextVaultId' = nextVaultId + 1
    /\ vaults' = [vaults EXCEPT ![nextVaultId] = [@ EXCEPT
                     !.owner = caller,
                     !.planCommitmentHash = plan,
                     !.fundingAsset = asset,
                     !.timing = timing,
                     !.guardianHaltKey = guardian,
                     !.state = "ACTIVE",
                     !.lastCheckIn = now,
                     !.windowDeadline = now + timing.checkInInterval]]
    /\ UNCHANGED <<vaultAttestationCount, quorumThreshold, fdcVerifier,
                   token, now, ledger>>

\* The deadline is not consulted: a late check-in counts until somebody has
\* moved the vault past WARNING.
CheckIn(caller, v) ==
    /\ caller = vaults[v].owner
    /\ vaults[v].state \in {"ACTIVE", "WARNING"}
    /\ vaults' = Restarted(v)
    /\ UNCHANGED <<nextVaultId, vaultAttestationCount, quorumThreshold,
                   fdcVerifier, token, now, ledger>>

\* Mutant: only cancelled vaults refuse funds.
FundVaultUnlessClosed(caller, v, amount) ==
    /\ caller = vaults[v].owner
    /\ amount > 0
    /\ vaults[v].state # "CLOSED"
    /\ ledger[v].deposited + amount <= MaxDeposit
    /\ Transfer(vaults[v].fundingAsset, caller, Registry, amount)
    /\ vaults' = [vaults EXCEPT ![v] = [@ EXCEPT
                     !.balance = vaults[v].balance + amount]]
    /\ ledger' = [ledger EXCEPT ![v] = [@ EXCEPT
                     !.deposited = ledger[v].deposited + amount]]
    /\ UNCHANGED <<nextVaultId, vaultAttestationCount, quorumThreshold,
                   fdcVerifier, now>>

FundVault(caller, v, amount) ==
    /\ caller = vaults[v].owner
    /\ amount > 0
    /\ vaults[v].state \notin {"FULLY_RELEASED", "CLOSED"}
    /\ ledger[v].deposited + amount <= MaxDeposit
    /\ Transfer(vaults[v].fundingAsset, caller, Registry, amount)
    /\ vaults' = [vaults EXCEPT ![v] = [@ EXCEPT
                     !.balance = vaults[v].balance + amount]]
    /\ ledger' = [ledger EXCEPT ![v] = [@ EXCEPT
                     !.deposited = ledger[v].deposited + amount]]
    /\ UNCHANGED <<nextVaultId, vaultAttestationCount, quorumThreshold,
                   fdcVerifier, now>>

AnchorLegalDoc(caller, v, hash) ==
    /\ caller = vaults[v].owner
    /\ hash # NoHash
    /\ vaults' = [vaults EXCEPT ![v] = [@ EXCEPT !.legalDocHash = hash]]
    /\ UNCHANGED <<nextVaultId, vaultAttestationCount, quorumThreshold,
                   fdcVerifier, token, now, ledger>>

OwnerOverride(caller, v) ==
    /\ caller = vaults[v].owner
    /\ vaults[v].state = "QUORUM_PENDING"
    /\ vaults' = Restarted(v)
    /\ UNCHANGED <<nextVaultId, vaultAttestationCount, quorumThreshold,
                   fdcVerifier, token, now, ledger>>

\* Mutant: a vault can be cancelled while its release is under way.
CancelVaultAnytime(caller, v) ==
    LET refund == vaults[v].balance IN
    /\ caller = vaults[v].owner
    /\ vaults[v].state # "CLOSED"
    /\ vaults' = [vaults EXCEPT ![v] = [@ EXCEPT !.balance = 0, !.state = "CLOSED"]]
    /\ IF refund > 0
       THEN Transfer(vaults[v].fundingAsset, Registry, caller, refund)
       ELSE UNCHANGED token
    /\ ledger' = [ledger EXCEPT ![v] = [@ EXCEPT
                     !.refunded = ledger[v].refunded + refund]]
    /\ UNCHANGED <<nextVaultId, vaultAttestationCount, quorumThreshold,
                   fdcVerifier, now>>

\* Mutant: the refund is paid in the asset of the first vault.
CancelVaultInFirstAsset(caller, v) ==
    LET refund == vaults[v].balance IN
    /\ caller = vaults[v].owner
    /\ vaults[v].state = "ACTIVE"
    /\ vaults' = [vaults EXCEPT ![v] = [@ EXCEPT !.balance = 0, !.state = "CLOSED"]]
    /\ IF refund > 0
       THEN Transfer(vaults[1].fundingAsset, Registry, caller, refund)
       ELSE UNCHANGED token
    /\ ledger' = [ledger EXCEPT ![v] = [@ EXCEPT
                     !.refunded = ledger[v].refunded + refund]]
    /\ UNCHANGED <<nextVaultId, vaultAttestationCount, quorumThreshold,
                   fdcVerifier, now>>

CancelVault(caller, v) ==
    LET refund == vaults[v].balance IN
    /\ caller = vaults[v].owner
    /\ vaults[v].state = "ACTIVE"
    /\ vaults' = [vaults EXCEPT ![v] = [@ EXCEPT !.balance = 0, !.state = "CLOSED"]]
    /\ IF refund > 0
       THEN Transfer(vaults[v].fundingAsset, Registry, caller, refund)
       ELSE UNCHANGED token
    /\ ledger' = [ledger EXCEPT ![v] = [@ EXCEPT
                     !.refunded = ledger[v].refunded + refund]]
    /\ UNCHANGED <<nextVaultId, vaultAttestationCount, quorumThreshold,
                   fdcVerifier, now>>

-----------------------------------------------------------------------------
(* The guardian's call.                                                    *)

GuardianHalt(caller, v) ==
    /\ caller = vaults[v].guardianHaltKey
    /\ vaults[v].state \in {"DISPUTE_WINDOW", "FINAL_WINDOW"}
    /\ vaults' = Restarted(v)
    /\ UNCHANGED <<nextVaultId, vaultAttestationCount, quorumThreshold,
                   fdcVerifier, token, now, ledger>>

-----------------------------------------------------------------------------
(* The two ways a quorum reaches the contract.                             *)

\* A negative result is accepted and changes nothing; the signature passed with
\* it is not checked.
SubmitQuorumResult(caller, v, quorumMet) ==
    /\ caller = EnclaveOracle
    /\ vaults[v].state = "QUORUM_PENDING"
    /\ vaults' = IF quorumMet
                 THEN Entered(v, "DISPUTE_WINDOW", now + vaults[v].timing.disputeWindow)
                 ELSE vaults
    /\ UNCHANGED <<nextVaultId, vaultAttestationCount, quorumThreshold,
                   fdcVerifier, token, now, ledger>>

\* Mutant: the attestation being counted is counted twice against the threshold.
SubmitVerifiedAttestationEarly(caller, v) ==
    LET count == vaultAttestationCount[v] + 1 IN
    /\ caller = fdcVerifier
    /\ count <= MaxAttestations
    /\ vaultAttestationCount' = [vaultAttestationCount EXCEPT ![v] = count]
    /\ vaults' = IF vaults[v].state = "QUORUM_PENDING" /\ count + 1 >= quorumThreshold
                 THEN Entered(v, "DISPUTE_WINDOW", now + vaults[v].timing.disputeWindow)
                 ELSE vaults
    /\ UNCHANGED <<nextVaultId, quorumThreshold, fdcVerifier, token, now, ledger>>

\* The count grows in every state and for every id, and is never reset.
SubmitVerifiedAttestation(caller, v) ==
    LET count == vaultAttestationCount[v] + 1 IN
    /\ caller = fdcVerifier
    /\ count <= MaxAttestations
    /\ vaultAttestationCount' = [vaultAttestationCount EXCEPT ![v] = count]
    /\ vaults' = IF vaults[v].state = "QUORUM_PENDING" /\ count >= quorumThreshold
                 THEN Entered(v, "DISPUTE_WINDOW", now + vaults[v].timing.disputeWindow)
                 ELSE vaults
    /\ UNCHANGED <<nextVaultId, quorumThreshold, fdcVerifier, token, now, ledger>>

-----------------------------------------------------------------------------
(* Permissionless progress.                                                *)

\* Strictly after the deadline.
MarkWarning(v) ==
    /\ vaults[v].state = "ACTIVE"
    /\ now > vaults[v].windowDeadline
    /\ vaults' = Entered(v, "WARNING", now + vaults[v].timing.graceWindow)
    /\ UNCHANGED <<nextVaultId, vaultAttestationCount, quorumThreshold,
                   fdcVerifier, token, now, ledger>>

RequestAttestation(v) ==
    /\ vaults[v].state = "WARNING"
    /\ now >= vaults[v].windowDeadline
    /\ vaults' = Entered(v, "QUORUM_PENDING", vaults[v].windowDeadline)
    /\ UNCHANGED <<nextVaultId, vaultAttestationCount, quorumThreshold,
                   fdcVerifier, token, now, ledger>>

\* Mutant: the tranche is rounded up.
FinalizeDisputeWindowRoundedUp(v) ==
    LET tranche == (vaults[v].balance + 1) \div 2 IN
    /\ vaults[v].state = "DISPUTE_WINDOW"
    /\ now >= vaults[v].windowDeadline
    /\ vaults' = [vaults EXCEPT ![v] = [@ EXCEPT
                     !.balance = vaults[v].balance - tranche,
                     !.state = "FINAL_WINDOW",
                     !.windowDeadline = now + vaults[v].timing.finalWindow]]
    /\ ledger' = [ledger EXCEPT ![v] = [@ EXCEPT
                     !.released = ledger[v].released + tranche,
                     !.tranche1 = tranche]]
    /\ UNCHANGED <<nextVaultId, vaultAttestationCount, quorumThreshold,
                   fdcVerifier, token, now>>

\* Mutant: the vault stays in the state it should only pass through.
FinalizeDisputeWindowHalfway(v) ==
    LET tranche == vaults[v].balance \div 2 IN
    /\ vaults[v].state = "DISPUTE_WINDOW"
    /\ now >= vaults[v].windowDeadline
    /\ vaults' = [vaults EXCEPT ![v] = [@ EXCEPT
                     !.balance = vaults[v].balance - tranche,
                     !.state = "TRANCHE_1_RELEASED"]]
    /\ ledger' = [ledger EXCEPT ![v] = [@ EXCEPT
                     !.released = ledger[v].released + tranche,
                     !.tranche1 = tranche]]
    /\ UNCHANGED <<nextVaultId, vaultAttestationCount, quorumThreshold,
                   fdcVerifier, token, now>>

\* Half the balance, rounded down, leaves the vault's balance; no token moves.
FinalizeDisputeWindow(v) ==
    LET tranche == vaults[v].balance \div 2 IN
    /\ vaults[v].state = "DISPUTE_WINDOW"
    /\ now >= vaults[v].windowDeadline
    /\ vaults' = [vaults EXCEPT ![v] = [@ EXCEPT
                     !.balance = vaults[v].balance - tranche,
                     !.state = "FINAL_WINDOW",
                     !.windowDeadline = now + vaults[v].timing.finalWindow]]
    /\ ledger' = [ledger EXCEPT ![v] = [@ EXCEPT
                     !.released = ledger[v].released + tranche,
                     !.tranche1 = tranche]]
    /\ UNCHANGED <<nextVaultId, vaultAttestationCount, quorumThreshold,
                   fdcVerifier, token, now>>

\* Mutant: the balance is released without being zeroed.
FinalizeFinalWindowKeepingBalance(v) ==
    /\ vaults[v].state = "FINAL_WINDOW"
    /\ now >= vaults[v].windowDeadline
    /\ vaults' = Entered(v, "FULLY_RELEASED", vaults[v].windowDeadline)
    /\ ledger' = [ledger EXCEPT ![v] = [@ EXCEPT
                     !.released = ledger[v].released + vaults[v].balance]]
    /\ UNCHANGED <<nextVaultId, vaultAttestationCount, quorumThreshold,
                   fdcVerifier, token, now>>

FinalizeFinalWindow(v) ==
    /\ vaults[v].state = "FINAL_WINDOW"
    /\ now >= vaults[v].windowDeadline
    /\ vaults' = [vaults EXCEPT ![v] = [@ EXCEPT
                     !.balance = 0, !.state = "FULLY_RELEASED"]]
    /\ ledger' = [ledger EXCEPT ![v] = [@ EXCEPT
                     !.released = ledger[v].released + vaults[v].balance]]
    /\ UNCHANGED <<nextVaultId, vaultAttestationCount, quorumThreshold,
                   fdcVerifier, token, now>>

\* The chain's clock.
Tick ==
    /\ now < MaxTime
    /\ now' = now + 1
    /\ UNCHANGED <<registryVars, token, ledger>>

-----------------------------------------------------------------------------

OwnerStep ==
    \E caller \in Account :
        \/ \E plan \in PlanHash, asset \in Asset, timing \in Timing,
              guardian \in GuardianKey :
              caller \in VaultOwner /\ CreateVault(caller, plan, asset, timing, guardian)
        \/ \E v \in VaultId :
              \/ CheckIn(caller, v)
              \/ \E amount \in Amount : FundVault(caller, v, amount)
              \/ \E hash \in LegalDoc : AnchorLegalDoc(caller, v, hash)
              \/ OwnerOverride(caller, v)
              \/ CancelVault(caller, v)

GuardianStep == \E caller \in Account, v \in VaultId : GuardianHalt(caller, v)

AdminStep ==
    \E caller \in Account :
        \/ \E verifier \in Verifier : SetFdcVerifier(caller, verifier)
        \/ \E threshold \in Threshold : SetQuorumThreshold(caller, threshold)

OracleStep ==
    \E caller \in Account, v \in VaultId, quorumMet \in BOOLEAN :
        SubmitQuorumResult(caller, v, quorumMet)

VerifierStep ==
    \E caller \in Account, v \in VaultId : SubmitVerifiedAttestation(caller, v)

KeeperStep ==
    \E v \in VaultId :
        \/ MarkWarning(v)
        \/ RequestAttestation(v)
        \/ FinalizeDisputeWindow(v)
        \/ FinalizeFinalWindow(v)

Next ==
    \/ OwnerStep
    \/ GuardianStep
    \/ AdminStep
    \/ OracleStep
    \/ VerifierStep
    \/ KeeperStep
    \/ Tick

Spec == Init /\ [][Next]_vars

-----------------------------------------------------------------------------
(* The abstract life of a vault: an id that was never created is unborn,   *)
(* whatever the permissionless functions have done to its storage.         *)

PhaseName ==
    [ACTIVE |-> "living", WARNING |-> "missing", QUORUM_PENDING |-> "questioned",
     DISPUTE_WINDOW |-> "disputed", FINAL_WINDOW |-> "halfPaid",
     FULLY_RELEASED |-> "paid", CLOSED |-> "cancelled"]

PhaseOf(v) == IF v >= nextVaultId THEN "unborn" ELSE PhaseName[vaults[v].state]

Lifecycle == INSTANCE VaultLifecycle WITH
    Vault <- VaultId,
    Deposit <- Amount,
    phase <- [v \in VaultId |-> PhaseOf(v)],
    held <- [v \in VaultId |-> vaults[v].balance],
    paid <- [v \in VaultId |-> ledger[v].released]

-----------------------------------------------------------------------------
(* Properties.                                                             *)

TypeOK ==
    /\ nextVaultId \in 1..(MaxVaultId + 1)
    /\ vaults \in [VaultId -> Vault]
    /\ vaultAttestationCount \in [VaultId -> Nat]
    /\ quorumThreshold \in Nat \ {0}
    /\ fdcVerifier \in Account \cup {NoAddress}
    /\ token \in [Asset -> [Holder -> Nat]]
    /\ now \in Nat
    /\ ledger \in [VaultId -> Ledger]

Credited(asset) ==
    [v \in VaultId |-> IF vaults[v].fundingAsset = asset THEN vaults[v].balance ELSE 0]

\* The contract always holds the tokens it owes: over every order of deposits,
\* tranches, refunds and id reuse, the balances credited to all the vaults of an
\* asset never exceed the units the contract holds of it.  Tokens that return
\* false instead of reverting are credited without being received, and are
\* outside the promise, but must not break it for the others.
Solvency ==
    \A asset \in Asset \ LenientAsset : Total(Credited(asset), MaxVaultId) <= token[asset][Registry]

\* No unit is lost or paid twice: what was deposited into a vault is in its
\* balance, or was released in a tranche, or was refunded by cancelVault.
Conservation ==
    \A v \in VaultId :
        ledger[v].deposited =
            vaults[v].balance + ledger[v].released + ledger[v].refunded

\* How long the windows that lead to a state are together.
ToWarning(v) == vaults[v].timing.checkInInterval
ToQuorum(v) == ToWarning(v) + vaults[v].timing.graceWindow
ToHalf(v) == ToQuorum(v) + vaults[v].timing.disputeWindow
ToRelease(v) == ToHalf(v) + vaults[v].timing.finalWindow

\* The dead man's switch needs silence: a vault in a later state has gone without
\* a check-in, an override or a halt for the sum of the windows that lead there,
\* whoever calls what in whatever order.
SilenceBeforeRelease ==
    \A v \in VaultId :
        /\ vaults[v].state = "WARNING" => now - vaults[v].lastCheckIn >= ToWarning(v)
        /\ vaults[v].state = "QUORUM_PENDING" => now - vaults[v].lastCheckIn >= ToQuorum(v)
        /\ vaults[v].state = "DISPUTE_WINDOW" => now - vaults[v].lastCheckIn >= ToQuorum(v)
        /\ vaults[v].state = "FINAL_WINDOW" => now - vaults[v].lastCheckIn >= ToHalf(v)
        /\ vaults[v].state = "FULLY_RELEASED" => now - vaults[v].lastCheckIn >= ToRelease(v)

\* relayer/internal/notifier/notifier.go:235: when a vault is fully released its
\* funds have gone to the beneficiaries, and the contract keeps only what it owes.
ReleasedFundsLeave ==
    \A v \in VaultId :
        vaults[v].state = "FULLY_RELEASED" =>
            \A asset \in Asset \ LenientAsset :
                token[asset][Registry] <= Total(Credited(asset), MaxVaultId)

\* A guardian who halts in the final window saves at least as much as the first
\* tranche released, whatever the rounding and whatever the owner added since.
HaltSavesHalf ==
    \A v \in VaultId :
        vaults[v].state = "FINAL_WINDOW" => vaults[v].balance >= ledger[v].tranche1

\* A vault once created keeps its owner, commitment, asset, windows and guardian:
\* no later creation takes over its id, no call re-targets it.
ConfigFixed ==
    [][\A v \in VaultId : v < nextVaultId =>
          /\ vaults'[v].owner = vaults[v].owner
          /\ vaults'[v].planCommitmentHash = vaults[v].planCommitmentHash
          /\ vaults'[v].fundingAsset = vaults[v].fundingAsset
          /\ vaults'[v].timing = vaults[v].timing
          /\ vaults'[v].guardianHaltKey = vaults[v].guardianHaltKey]_vars

\* A released or cancelled vault is over: it holds nothing, and no call, by
\* anybody, moves it or its totals again.
TerminalIsFinal ==
    [][\A v \in VaultId :
          v < nextVaultId /\ vaults[v].state \in {"FULLY_RELEASED", "CLOSED"} =>
             /\ vaults[v].balance = 0
             /\ vaults'[v].state = vaults[v].state
             /\ vaults'[v].balance = 0
             /\ ledger'[v] = ledger[v]]_vars

\* The contract implements the lifecycle: interleaved calls on many vaults, on
\* ids that do not exist yet and at any time, move each vault's state and funds
\* only along the documented transitions.
ImplementsLifecycle == Lifecycle!LifecycleSpec
=============================================================================
