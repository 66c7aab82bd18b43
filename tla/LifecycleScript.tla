--------------------------- MODULE LifecycleScript ---------------------------
(***************************************************************************)
(* scripts/e2e-lifecycle.ts: the end-to-end test that drives one vault     *)
(* after another through the registry, on a chain that others use too.     *)
(* A scenario is a sequence of calls, waits and assertions.  A call is two *)
(* steps: it is sent if gas estimation says that it would succeed, and     *)
(* mined later, where it may revert without the script noticing, since     *)
(* waitForTransactionReceipt does not look at the receipt's status.        *)
(***************************************************************************)
EXTENDS FAssetsRouter, Sequences, FiniteSets

CONSTANTS
    ScriptOwner,     \* the account of PRIVATE_KEY
    ScriptGuardian,  \* the account of GUARDIAN_PRIVATE_KEY
    Stranger,        \* anybody else with vaults in the same registry
    Argument,        \* values of --scenario, "none" when it is not given
    DemoTimings,     \* DEMO_TIMINGS, in units of the model's clock
    Pause,           \* the ten seconds before the happy path's check-in
    PrintsFraction,  \* whether formatEther prints "100.0", as the script expects, or
                     \* "100", as viem's does (external)
    OthersAmount,    \* bound: the amounts others deposit, route or redeem
    MaxOthers        \* bound on the steps of others

\* What each scenario deposits, in units of 50 FXRP.
FundAmount == [happy |-> 2, halt |-> 4, override |-> 0, cancel |-> 1]

\* There is a plan to commit to, the registry serves the amounts and the threshold
\* the script uses, and it has room for a vault.
ASSUME ScriptAssumption ==
    /\ {ScriptOwner, Stranger} \subseteq VaultOwner
    /\ {ScriptGuardian, Stranger} \subseteq GuardianKey
    /\ Stranger \notin {ScriptOwner, ScriptGuardian}
    /\ PlanHash # {}
    /\ DemoTimings \in Timing
    /\ Pause \in Nat
    /\ PrintsFraction \subseteq BOOLEAN
    /\ {FundAmount.happy, FundAmount.halt, FundAmount.cancel} \cup OthersAmount
         \subseteq Amount
    /\ 1 \in Threshold
    /\ MaxVaultId >= 1
    /\ MaxOthers \in Nat

VARIABLES
    scenario,  \* what main takes the argument for
    prints,    \* what formatEther does with a whole number
    pc,        \* the step of the scenario, 0 for the set-up
    sent,      \* whether the step's transaction has been sent
    mine,      \* vaultId, read back after createVault
    outcome,   \* "running", "passed" or "failed" (exit code 1)
    others     \* steps that others have taken

scriptVars == <<scenario, prints, pc, sent, mine, outcome, others>>

allVars == <<vars, routerVars, scriptVars>>

-----------------------------------------------------------------------------
(* The scenarios.                                                          *)

STATE_NAMES == <<"ACTIVE", "WARNING", "QUORUM_PENDING", "DISPUTE_WINDOW",
                 "SLASHING_REVIEW", "TRANCHE_1_RELEASED", "FINAL_WINDOW",
                 "FULLY_RELEASED", "CLOSED">>

\* A step: what is done, and with which number.
Do(op) == [op |-> op, n |-> 0]

AdvanceTime(seconds) == [op |-> "advanceTime", n |-> seconds]

InState(index) == [op |-> "assertState", n |-> index]

Holds(amount) == [op |-> "assertBalance", n |-> amount]

Fund(amount) == [op |-> "fundVault", n |-> amount]

Create == <<Do("createVault"), Do("readId")>>

\* Mutant: the window is waited out, but not exceeded.
MissedExactly(window) == AdvanceTime(window)

\* Wait until a window has passed.
Missed(window) == AdvanceTime(window + 1)

ToPending == <<Missed(DemoTimings.checkInInterval), Do("markWarning"),
               Missed(DemoTimings.graceWindow), Do("requestAttestation")>>

ScenarioHappyPath ==
    Create \o
    <<Fund(FundAmount.happy), Holds(FundAmount.happy),
      AdvanceTime(Pause), Do("checkIn"), InState(0),
      Missed(DemoTimings.checkInInterval), Do("markWarning"), InState(1),
      Missed(DemoTimings.graceWindow), Do("requestAttestation"), InState(2),
      Do("submitQuorumResult"), InState(3),
      Missed(DemoTimings.disputeWindow), Do("finalizeDisputeWindow"), InState(6),
      Missed(DemoTimings.finalWindow), Do("finalizeFinalWindow"), InState(7),
      Holds(0)>>

\* Mutant: the vault is not funded before it is driven to the dispute window.
ScenarioGuardianHaltUnfunded ==
    Create \o ToPending \o
    <<Do("submitQuorumResult"), InState(3), Do("guardianHalt"), InState(0),
      Do("checkIn"), InState(0)>>

ScenarioGuardianHalt ==
    Create \o <<Fund(FundAmount.halt)>> \o ToPending \o
    <<Do("submitQuorumResult"), InState(3),
      Do("guardianHalt"), InState(0), Holds(FundAmount.halt),
      Do("checkIn"), InState(0)>>

ScenarioOwnerOverride ==
    Create \o ToPending \o <<InState(2), Do("ownerOverride"), InState(0)>>

ScenarioCancel ==
    Create \o <<Fund(FundAmount.cancel), Do("cancelVault"), InState(8), Holds(0)>>

\* Without the option indexOf answers -1 and the first element of argv, the path
\* of node, is taken for the scenario; the default "all" is never reached.
ScenarioOf(argument) == IF argument = "none" THEN "path of node" ELSE argument

Part(name, steps) == IF scenario \in {name, "all"} THEN steps ELSE <<>>

Program == Part("happy", ScenarioHappyPath) \o Part("halt", ScenarioGuardianHalt)
             \o Part("override", ScenarioOwnerOverride) \o Part("cancel", ScenarioCancel)

-----------------------------------------------------------------------------
(* The script's steps.                                                     *)

ScriptInit ==
    /\ Init
    /\ RouterInit
    /\ scenario \in {ScenarioOf(argument) : argument \in Argument}
    /\ prints \in PrintsFraction
    /\ pc = 0
    /\ sent = FALSE
    /\ mine = 0
    /\ outcome = "running"
    /\ others = 0

Step == Program[pc]

At(op) == outcome = "running" /\ pc > 0 /\ Step.op = op

\* The step is done; after the last one the script announces success.
Continue ==
    /\ pc' = pc + 1
    /\ outcome' = IF pc = Len(Program) THEN "passed" ELSE "running"

\* Mutant: a failed assertion is printed but does not end the process.
AssertEqualLogging(holds) == Continue

\* assertEqual: the process exits when the values differ.
AssertEqual(holds) ==
    IF holds THEN Continue ELSE outcome' = "failed" /\ UNCHANGED pc

\* Minting and the threshold are attempted; a failure is only noted.
SetUp ==
    /\ outcome = "running" /\ pc = 0
    /\ IF ScriptOwner = Admin THEN SetQuorumThreshold(ScriptOwner, 1) ELSE UNCHANGED vars
    /\ Continue
    /\ UNCHANGED <<routerVars, scenario, prints, sent, mine, others>>

\* The contract call behind a writeContract.
Call(step) ==
    \/ /\ step.op = "createVault"
       /\ \E plan \in PlanHash :
             CreateVault(ScriptOwner, plan, Fxrp, DemoTimings, ScriptGuardian)
    \/ step.op = "fundVault" /\ FundVault(ScriptOwner, mine, step.n)
    \/ step.op = "checkIn" /\ CheckIn(ScriptOwner, mine)
    \/ step.op = "markWarning" /\ MarkWarning(mine)
    \/ step.op = "requestAttestation" /\ RequestAttestation(mine)
    \/ step.op = "submitQuorumResult" /\ SubmitQuorumResult(EnclaveOracle, mine, TRUE)
    \/ step.op = "finalizeDisputeWindow" /\ FinalizeDisputeWindow(mine)
    \/ step.op = "finalizeFinalWindow" /\ FinalizeFinalWindow(mine)
    \/ step.op = "guardianHalt" /\ GuardianHalt(ScriptGuardian, mine)
    \/ step.op = "ownerOverride" /\ OwnerOverride(ScriptOwner, mine)
    \/ step.op = "cancelVault" /\ CancelVault(ScriptOwner, mine)

\* A transfer that would not revert.
CanPay(asset, from, amount) ==
    token[asset][from] >= amount \/ asset \in LenientAsset

\* Gas estimation: every require of the function behind the call holds.
WouldSucceed(step) ==
    \/ step.op = "createVault" /\ nextVaultId <= MaxVaultId
    \/ /\ step.op = "fundVault"
       /\ vaults[mine].owner = ScriptOwner
       /\ step.n > 0
       /\ vaults[mine].state \notin {"FULLY_RELEASED", "CLOSED"}
       /\ ledger[mine].deposited + step.n <= MaxDeposit
       /\ CanPay(vaults[mine].fundingAsset, ScriptOwner, step.n)
    \/ /\ step.op = "checkIn"
       /\ vaults[mine].owner = ScriptOwner
       /\ vaults[mine].state \in {"ACTIVE", "WARNING"}
    \/ /\ step.op = "markWarning"
       /\ vaults[mine].state = "ACTIVE"
       /\ now > vaults[mine].windowDeadline
    \/ /\ step.op = "requestAttestation"
       /\ vaults[mine].state = "WARNING"
       /\ now >= vaults[mine].windowDeadline
    \/ step.op = "submitQuorumResult" /\ vaults[mine].state = "QUORUM_PENDING"
    \/ /\ step.op = "finalizeDisputeWindow"
       /\ vaults[mine].state = "DISPUTE_WINDOW"
       /\ now >= vaults[mine].windowDeadline
    \/ /\ step.op = "finalizeFinalWindow"
       /\ vaults[mine].state = "FINAL_WINDOW"
       /\ now >= vaults[mine].windowDeadline
    \/ /\ step.op = "guardianHalt"
       /\ vaults[mine].guardianHaltKey = ScriptGuardian
       /\ vaults[mine].state \in {"DISPUTE_WINDOW", "FINAL_WINDOW"}
    \/ /\ step.op = "ownerOverride"
       /\ vaults[mine].owner = ScriptOwner
       /\ vaults[mine].state = "QUORUM_PENDING"
    \/ /\ step.op = "cancelVault"
       /\ vaults[mine].owner = ScriptOwner
       /\ vaults[mine].state = "ACTIVE"
       /\ vaults[mine].balance > 0 =>
             CanPay(vaults[mine].fundingAsset, Registry, vaults[mine].balance)

IsCall(step) ==
    step.op \notin {"readId", "advanceTime", "assertState", "assertBalance"}

\* writeContract estimates gas first and throws when the call would revert.
WriteContract ==
    /\ outcome = "running" /\ pc > 0 /\ ~sent
    /\ IsCall(Step)
    /\ IF WouldSucceed(Step)
       THEN sent' = TRUE /\ UNCHANGED outcome
       ELSE outcome' = "failed" /\ UNCHANGED sent
    /\ UNCHANGED <<vars, routerVars, scenario, prints, pc, mine, others>>

\* Mutant: the receipt of the same transaction is waited for again.
MinedWaitingStill ==
    /\ sent
    /\ IF WouldSucceed(Step) THEN Call(Step) ELSE UNCHANGED vars
    /\ Continue
    /\ UNCHANGED <<routerVars, scenario, prints, sent, mine, others>>

\* Mutant: the wait goes on until the transaction has succeeded.
MinedOnSuccess ==
    /\ sent
    /\ sent' = FALSE
    /\ WouldSucceed(Step) /\ Call(Step)
    /\ Continue
    /\ UNCHANGED <<routerVars, scenario, prints, mine, others>>

\* waitForTransactionReceipt returns for a reverted transaction as well.
Mined ==
    /\ sent
    /\ sent' = FALSE
    /\ IF WouldSucceed(Step) THEN Call(Step) ELSE UNCHANGED vars
    /\ Continue
    /\ UNCHANGED <<routerVars, scenario, prints, mine, others>>

\* The new vault's id is taken to be the one before the next.
ReadVaultId ==
    /\ At("readId")
    /\ mine' = nextVaultId - 1
    /\ Continue
    /\ UNCHANGED <<vars, routerVars, scenario, prints, sent, others>>

\* evm_increaseTime and evm_mine.
TimeAdvanced ==
    /\ At("advanceTime")
    /\ now' = now + Step.n
    /\ Continue
    /\ UNCHANGED <<registryVars, token, ledger, routerVars, scenario, prints, sent,
                   mine, others>>

AssertState ==
    /\ At("assertState")
    /\ AssertEqual(vaults[mine].state = STATE_NAMES[Step.n + 1])
    /\ UNCHANGED <<vars, routerVars, scenario, prints, sent, mine, others>>

\* The expected text has a fraction, "100.0".
AssertBalance ==
    /\ At("assertBalance")
    /\ AssertEqual(prints /\ vaults[mine].balance = Step.n)
    /\ UNCHANGED <<vars, routerVars, scenario, prints, sent, mine, others>>

ScriptStep ==
    \/ SetUp
    \/ WriteContract
    \/ Mined
    \/ ReadVaultId
    \/ TimeAdvanced
    \/ AssertState
    \/ AssertBalance

-----------------------------------------------------------------------------
(* Everybody else on the chain.                                            *)

\* Bound: the script's own vaults still have room.
LeavesRoom ==
    nextVaultId + Cardinality({i \in DOMAIN Program :
                                 i >= pc /\ Program[i].op = "createVault"}) <= MaxVaultId

StrangerOwns ==
    \/ \E plan \in PlanHash, asset \in Asset :
          LeavesRoom /\ CreateVault(Stranger, plan, asset, DemoTimings, Stranger)
    \/ \E v \in VaultId :
          \/ CheckIn(Stranger, v)
          \/ \E amount \in OthersAmount : FundVault(Stranger, v, amount)
          \/ OwnerOverride(Stranger, v)
          \/ CancelVault(Stranger, v)
          \/ GuardianHalt(Stranger, v)

\* The router does not look the vault id up: one id stands for all.  Tokens also come
\* without the router.
StrangerRoutes ==
    \/ \E asset \in Asset : AllowlistFAsset(RouterAdmin, asset)
    \/ \E asset \in Asset, amount \in OthersAmount :
          \/ FundWithFAsset(Stranger, 1, asset, amount)
          \/ RedeemToNative(Stranger, 1, asset, amount)
          \/ TransferDirectly(Stranger, asset, amount)

\* Strangers with vaults of their own or at the router, keepers that serve
\* every vault, and the enclave's oracle.
OtherStep ==
    /\ others < MaxOthers
    /\ others' = others + 1
    /\ \/ StrangerOwns /\ UNCHANGED routerVars
       \/ StrangerRoutes
       \/ KeeperStep /\ UNCHANGED routerVars
       \/ \E v \in VaultId :
             SubmitQuorumResult(EnclaveOracle, v, TRUE) /\ UNCHANGED routerVars
    /\ UNCHANGED <<scenario, prints, pc, sent, mine, outcome>>

\* Time passes by itself too.
TimePasses == Tick /\ UNCHANGED <<routerVars, scriptVars>>

ScriptNext == ScriptStep \/ OtherStep \/ TimePasses

\* The script keeps running: nothing it waits for is up to anybody else, and the
\* chain mines what was sent.
ScriptSpec == ScriptInit /\ [][ScriptNext]_allVars /\ WF_allVars(ScriptStep)

-----------------------------------------------------------------------------
(* Properties.                                                             *)

\* Types of the script's variables.
ScriptTypeOK ==
    /\ pc \in 0..(Len(Program) + 1)
    /\ sent \in BOOLEAN
    /\ sent => outcome = "running" /\ IsCall(Step)
    /\ mine \in 0..MaxVaultId
    /\ outcome \in {"running", "passed", "failed"}

\* What the scenario's vault must have gone through, by the contract's accounts.
Earned ==
    LET v == mine
        funds == FundAmount[IF scenario = "all" THEN "cancel" ELSE scenario] IN
    /\ vaults[v].owner = ScriptOwner
    /\ ledger[v].deposited = funds
    /\ scenario = "happy" =>
          vaults[v].state = "FULLY_RELEASED" /\ ledger[v].released = funds
    /\ scenario \in {"halt", "override"} =>
          vaults[v].state = "ACTIVE" /\ vaults[v].balance = funds
    /\ scenario \in {"cancel", "all"} =>
          vaults[v].state = "CLOSED" /\ ledger[v].refunded = funds

\* A pass means something: when the last assertion of a scenario holds, the vault
\* is one of the script's own and has done what the scenario is about, whatever
\* others did meanwhile and whichever transaction reverted unnoticed (each
\* assertEqual stands for the calls before it).
PassIsEarned ==
    [][outcome = "running" /\ outcome' = "passed" /\ Program # <<>> => Earned]_allVars

\* Owners who share the registry are spared: the id the script reads back may be
\* a stranger's vault created in between, but the script never opens the dispute
\* window of such a vault or touches its funds.
StrangersSpared ==
    [][pc' # pc =>
         \A v \in VaultId : vaults[v].owner = Stranger =>
            /\ vaults'[v].balance = vaults[v].balance
            /\ vaults'[v].state \in {vaults[v].state, "WARNING", "QUORUM_PENDING"}]_allVars

\* An assertion of a balance that holds in numbers and fails on the text.
FailedOnText ==
    ~prints /\ pc > 0 /\ Step.op = "assertBalance" /\ vaults[mine].balance = Step.n

\* Left alone, the script is refused nothing: no wait is too short for the call after it,
\* no scenario leaves the next one short of ids, tokens or a state, and every state and
\* balance is the one expected.  Only the text of a balance can stop it, where
\* formatEther does not print the fraction the script expects; viem's does not.
UndisturbedFailsOnText ==
    others = 0 /\ outcome = "failed" => FailedOnText

\* Whatever others do and whichever transaction reverts unnoticed, the script comes to
\* its end: nothing that it waits for keeps it waiting.
ScriptEnds == <>(outcome # "running")
=============================================================================
