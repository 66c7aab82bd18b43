# Continuity Vault: a TLA+ development

Continuity Vault (the flareForge repository) is a dead man's switch for on-chain
funds. An owner funds a vault and checks in regularly. If the owner falls silent
the vault moves through a warning, a question to trustees, a dispute window and a
final window, and its funds are declared released; until the end the owner or a
guardian can stop it. This directory models the protocol, model-checks it with
TLC and proves the contract's central invariants with TLAPS.

All source paths below are relative to the repository's root (`src/` here).

## 1. The system

| Component | Source | State it keeps | Operations |
|---|---|---|---|
| Vault registry | `contracts/src/VaultRegistry.sol` | vault structs, next id, attestation counts, threshold, verifier, custody of tokens | `createVault`, `checkIn`, `fundVault`, `anchorLegalDoc`, `ownerOverride`, `cancelVault` (owner); `guardianHalt` (guardian); `submitQuorumResult` (oracle); `submitVerifiedAttestation` (verifier); `markWarning`, `requestAttestation`, `finalizeDisputeWindow`, `finalizeFinalWindow` (anybody); `setFdcVerifier`, `setQuorumThreshold` (admin) |
| Attestation verifier | `contracts/src/FdcAttestationVerifier.sol` | case to vault, verified attestations, who attested | `registerCase`, `submitAttestation` (anybody with a proof) |
| FAssets router | `contracts/src/FAssetsRouter.sol` | allowlist | `allowlistFAsset`, `fundWithFAsset`, `redeemToNative` |
| Attestation API | `attestation-api/server.js` | records per case, in memory | `POST /attest`, `GET /attestations/:caseId` |
| Enclave | `enclave/internal/{sealedstore,crypto,quorum,api}` | sealed plans, attestations and results in SQLite; keys in memory | store a plan, submit an attestation, quorum status, quorum result, reset |
| Relayer | `relayer/internal/{watcher,store,chain,enclaveclient,notifier}` | a copy of every vault, notification flags | sweep of deadlines, polling of the enclave, notices |
| End-to-end script | `scripts/e2e-lifecycle.ts` | the scenario it is in, the vault it drives | four scenarios of calls, waits and assertions |
| Web front end, registry pages | `web/src/app/{page,vault/[id]/page,vault/create/page,observe/page}.tsx`, `lib/constants.ts`, `components/{StateTimeline,VaultCard}.tsx` | what was read of the contract and when, two transaction hooks, a timer, a form | open, look up, read, click, confirm in the wallet |
| Web front end, trustee page | `web/src/app/trustee/page.tsx` | the form, one request, its result | post an attestation to the API |
| Deployment | `contracts/script/` | - | deploys the above |
| Stubs | `FeeModule.sol`, `AttestorBondRegistry.sol` | - | none has a body |

How they interact:

- A trustee posts to the API. The Flare Data Connector (external) proves what the
  API answers. Anybody submits the proof to the verifier, which calls the
  registry in the same transaction; with enough attestations the registry opens
  the dispute window.
- Independently the enclave counts attestations against the owner's sealed plan
  and signs a result; the relayer polls for it and submits it to the registry as
  the enclave oracle.
- The relayer sends the permissionless transactions when deadlines pass and
  notifies the owner.
- The router and the registry share only the tokens.
- The pages and the script read the contract's views one by one and send their
  transactions through a wallet or a key; between a reading, a click, the
  transaction and its receipt everybody else may act. The trustee's page posts to
  the API over a connection that can fail.

What is hard in it: any caller can move a vault at any deadline, in any order
with the owner's and the guardian's calls, and even before the vault exists; a
vault can go round the cycle many times while its counters are not reset; two
contracts and two services each keep their own idea of the quorum; several
vaults share one custody; services lose their memory or their keys; requests in
the enclave share a read-write lock and read twice what may change in between;
the relayer acts on a copy that it advances by itself; a page shows readings of
different ages side by side, and its transactions may be lost from sight and sent
again. `PROJECT.json` lists each such hazard at its line, with the properties aimed
at it.

What makes each component correct:

- *Registry*: no release without silence for all the windows; deposits are
  conserved and covered by tokens; the halt saves at least half; a finished vault
  stays finished; the lifecycle of the documented state diagram.
- *Verifier*: the registry's bare counter equals the number of different
  attestors recorded; one trustee never makes a quorum of two.
- *API and flow*: nobody is recorded in whose name nothing was posted, and what is
  served is recorded in the end.
- *Router*: it never touches custody it did not bring in.
- *Enclave*: a signed result stands on attestations that are there; requests
  finish.
- *Script*: when it says passed, a vault of its own has gone through the scenario;
  it opens no dispute over a stranger's vault; undisturbed, nothing but the text of a
  balance stops it.
- *Web pages*: the buttons offered are the calls the contract accepts; nobody is
  shown another's vault as his own; what is shown as over is over; a running countdown
  is the contract's; the owner pays nothing before his approval is confirmed and no more
  than that one approval afterwards; a confirmation is followed by a new reading.
- *Trustee page*: what it says was recorded is recorded.
- *Relayer*: notices come before the acts they announce; a silent owner's vault
  is released; its copy follows the lifecycle and is ahead of the chain only by
  the transactions in flight.

## 2. Modules

| Module | Models | Built on |
|---|---|---|
| `Totals` | the sum of a sequence of balances, as a recursive function | - |
| `VaultLifecycle` | abstract specification: phases of a vault and where its funds are, no clock, no callers, no tokens | - |
| `VaultRegistry` | the registry contract and the ERC-20 tokens it moves | `Totals`, instance of `VaultLifecycle` |
| `FdcAttestationVerifier` | the verifier, calling the registry | `VaultRegistry` |
| `AttestationApi` | the web service | - |
| `AttestationFlow` | API, data connector, verifier and registry together | `FdcAttestationVerifier`, instance of `AttestationApi` |
| `FAssetsRouter` | the router beside the registry | `VaultRegistry` |
| `VaultEnclave` | sealed store, keys, quorum engine and handlers | - |
| `Relayer` | the relayer's two goroutines, its table, its transactions in flight, the chain around it | `VaultRegistry` |
| `LifecycleScript` | the end-to-end script, with strangers, keepers and the router beside it | `FAssetsRouter` |
| `WebDisplay` | the tables, the timeline and the conditions of the buttons | - |
| `WebPages` | one visit to a page of the registry: readings, buttons, form, wallet | `VaultRegistry`, `WebDisplay` |
| `TrusteePage` | the trustee's form, its request and its answer | `AttestationApi` |
| `WebFrontEnd` | all the pages, among everybody else who calls the contract | `WebPages`, `TrusteePage` |
| `VaultRegistryProofs` | lemmas on sums; the registry's invariants and action properties | `VaultRegistry` |
| `VaultRefinementProofs` | the registry implements `VaultLifecycle` | `VaultRegistryProofs` |
| `AttestationProofs` | theorems of the verifier beside the registry, and of API, data connector and contracts together | `AttestationFlow`, `VaultRegistryProofs` |
| `RouterProofs` | theorems of the router beside the registry | `FAssetsRouter`, `VaultRegistryProofs` |
| `RelayerProofs` | the relayer's invariants, its notices, its copy of the registry | `Relayer`, `VaultRegistryProofs` |
| `ScriptProofs` | what the script and those beside it leave true of the contracts | `LifecycleScript`, `RouterProofs`, `VaultRefinementProofs` |
| `EnclaveProofs` | theorems of the quorum engine | `VaultEnclave` |
| `WebProofs` | theorems of the web front end, and that it is one of the registry's callers | `WebFrontEnd`, `VaultRegistryProofs` |
| `MC...` | small sets and window lengths for TLC | their component |

### Correspondence with the code

*VaultRegistry.* One action per external function with the same name. A revert is
a step that cannot be taken; the modifiers are the first conjuncts. Storage of an
id that was never created is `ZeroVault`, which the permissionless functions can
already move. `token` holds the ERC-20 balances. Approvals are taken as given.
The contract ignores the result of `transfer` and `transferFrom`, so an asset in
`LenientAsset` may fail silently. `ledger` adds up what the contract's own events
announce (deposits, tranches, refunds); no guard reads it except the bound on
deposits. Numbers are unbounded naturals: Solidity 0.8 reverts instead of
wrapping, and a window so long that `block.timestamp + window` overflows is not
modelled. `SLASHING_REVIEW` is entered by no function, and
`TRANCHE_1_RELEASED` only exists inside one transaction.

*FdcAttestationVerifier.* A proof is the response it proves; `confirmed` is kept
because the contract checks it. `SubmitAttestation` contains the registry's
`SubmitVerifiedAttestation` as one step, so it cannot happen unless the verifier
is linked. Any id in `VaultId` may be given to `registerCase`, created or not.

*AttestationApi, AttestationFlow.* The API answers with the last record of a
case. The data connector is external: `RequestProof` makes the answer of that
moment provable for good. Restarting the API empties it.

*FAssetsRouter.* `routed` adds up `FAssetFunded` events. `TransferDirectly` is what any
holder of a token may do without asking either contract: an ERC-20 transfer to the
registry's address (external). `donated` adds those up.

*VaultEnclave.* A request is a record of what it has read and the step it is at.
`Locked` and `Writing` are derived from the requests between the first and last
step of an engine call, which is exactly where `Engine.mu` is held. A submission
is lock-plan-check, insert, evaluate, sign; a status is lock-plan, evaluate, sign;
a result request then reads the stored signature in a second critical section.
Only `quorum_met = 1` rows are ever written, so `results` keeps those. A failed
request (no readable plan, type not accepted) leaves no trace and is not a step. A
restart forgets the requests and the keys and keeps the tables.

*Relayer.* `tracked` is the table; `sweep` and `poll` are the two goroutines with
what each has read. A pass takes its rows and its time once (`RowsRead`,
`PollStart`) and every later decision is taken on them, as in the code; a pass
that finds nothing to do is one step. A sync is two steps, because the state and
the deadline are read by separate calls. Sending and `UpdateState` are separate
steps, so a crash, a block or the other goroutine can come in between.
`mempool` keeps the nonce order; `Mine` executes the head or, if the registry
would revert, just drops it. `OtherTransaction` is everybody else, other keepers
included; the oracle's key is the relayer's own, as `submitQuorumResult` demands
of whoever relays. The order of vaults within a pass is left open. The event
listener is not there because `handleEvent` does nothing, nor is
`RefreshVaultFromChain`, which nothing calls. `told`, `revivals` and
`disruptions` are history for the properties and the bounds. The owner, the windows
and `last_check_in` of a row never decide anything that the registry's own fields
would decide differently, and are not copied; `warning_sent` is never read.

*LifecycleScript.* A scenario is a sequence of steps, `Program` the concatenation
of those the argument selects. A `writeContract` and its
`waitForTransactionReceipt` are two steps: viem estimates gas first and throws if
the call would revert (`WriteContract`), and between that and the block others may
act, so that the call reverts when it is mined and the script goes on (`Mined`).
`approve` is taken as given and is not a step. `readId` reads `nextVaultId` in a
step of its own. `assertEqual` ends the process. What `formatEther` prints for a
whole number (external: viem) is left open by `prints`. With FALSE it is the code as
it stands: viem prints `"100"`, the script expects `"100.0"` (`:282`, `:356`, `:415`,
`:519`), and every scenario but the override stops at its first balance. With TRUE it is
the script with those four texts corrected; what comes after the first balance can only
be explored so. Times are in units of 30 seconds, the length of the longest of
`DEMO_TIMINGS`, each of which is rounded up to one unit. `OtherStep` is a stranger
with vaults of his own, a keeper that serves any vault, the oracle, or somebody at
the router; `waitForState` is called by nothing.

*WebDisplay, WebPages.* One tab, one visit. What wagmi's hooks have read are
variables (`readNext`, `readState`, `readOwner`, `readGuardian`, `readTiming`); a reading is an
action that may happen at any time, since the query library refetches by itself,
and each is separate, as each is a call of its own. The dashboard's batches are
keyed by the list of ids: when the number read changes they are new queries, unread
at first, and an item of a batch may fail by itself. `opened` remembers whether an
id existed when it was first looked at, since a cached answer about an id outlives
its creation. `hooks` are the two `useWriteContract` hooks with the
`useWaitForTransactionReceipt` behind each; `pool` keeps the calls that are sent.
`Mined` evaluates the contract's own action: accepted calls have its effect,
others revert and only end the wait. `ReceiptLost` is a receipt that is never seen.
Tokens of the connected account are followed by its allowance only, which is what
the two buttons of the fund form depend on. `asked` (the last approval the wallet was
asked for), `paidIn`, and the state kept with each reading of a deadline are history: no
action looks at them. `OffersMatchContract`
compares the buttons, whose conditions are numbers, with the guards of the
contract's actions, which are names. The form accepts any windows, zero
included, for the contract to refuse. The countdown of the vault and observe pages
(`Remaining`) runs on by the visitor's clock from the deadline last read; that clock is
taken to agree with the chain's. The deadline is a reading of its own, so a visit
follows it or all the rest (`timed`), which keeps the instance small and loses
nothing, since no property relates the two readings. Balances, attestation counts and the deadlines on the dashboard's
cards are read and shown in the same way as the state and left out.

*TrusteePage, WebFrontEnd.* A request travels, is answered or lost on either way, and
one that the page gave up may arrive late. `Elsewhere` is every other step of the
registry: keepers, oracle, guardian, other owners, and the same accounts from other
devices.

### Mutants

Operators that a comment introduces with "Mutant:" are slips the code could have
had (a lost reset, a wrong key, a dropped guard). None is part of a
specification; each is there to show that the property it is paired with in
`PROJECT.json` fails when the code is wrong.

## 3. Runs

| Run | What it asks | Bounds and why they are enough |
|---|---|---|
| `registry_single` | release only after silence, conservation, halting saves half, finality, refinement of `VaultLifecycle` | one vault, time 1..12, deposits 1 and 2 up to 3, two choices of windows, thresholds 1 and 2. A full round takes 5 to 8 ticks, so 12 admits a release, a halt and a second round |
| `fdc` | agreement of the two counters, distinct attestors | two cases, three attestors, time to 6, attestors and cases symmetric (safety only). A quorum of two with an attestor in both cases fits |
| `flow` | evidence was posted in its attestor's name; the served attestor is heard | two cases, two attestors, the API may restart at any time; the clock hardly moves because nothing here depends on it |
| `script` | is a pass earned, are strangers spared, does the script always come to its end, and can an undisturbed run be stopped by anything but the text of a balance; with many vaults in one custody: solvency, custody explained to the unit, fixed configuration, refinement | every scenario and all of them together, up to five vaults, three assets, one of which is lenient and one allowlisted only by somebody's call. Others take two steps, anywhere: enough to create a vault in between and act on it, to make one call revert, or to move an id before it exists. They pay one unit at a time. Both values of `prints` are run. `MaxTime` 3 bounds only the time that passes by itself; the script's own time travel is not bounded |
| `web` | do the buttons match the contract, are vaults, ends, countdowns and attestations shown truthfully, are payments bounded, is a confirmation followed by a reading | one visit at a time: the owner at his vault until time 6 with one click (a full round takes five ticks) and until time 2 with three (approve, fund, and fund again after a lost receipt); the guardian until time 6 with two (two rounds of halting); a dashboard with two vaults and two owners (until time 3, so its cards end only by cancellation; the released end is the observer's); an observer with two ids, one of them not yet created; an observer until time 7 and an owner until time 6 who follow the countdown (through a full round and a restart); a creator with two clicks; a trustee with two cases. One receipt is lost, anywhere; two assets, one of which is not FXRP; amounts 1 and 2 |
| `enclave` | results stand on attestations, stable evaluation, every request is answered | two concurrent requests, two attestors, two plans with thresholds 1 and 2, one restart, two clock values |
| `registry_release` | do released funds leave? | violated: no function transfers a tranche |
| `fdc_waits` | does a created vault with a quorum wait? | violated: both trustees attest while the vault is active, it falls silent, and `requestAttestation` leaves it waiting. `ForExistingSpec` leaves out attestations to an id before it is created, which would give a shorter example about nobody's vault |
| `fdc_stale` | is the quorum since the last sign of life? | violated: one trustee attests, the owner overrides, the vault falls silent again, and the other trustee alone opens the dispute. Time to 8, for two silences; `OnRequestSpec` leaves out attestations that nobody asked for |
| `flow_heard` | is every posted attestor heard? | violated: an overtaken record is never served |
| `relayer` | no tranche without a notice, the copy follows the lifecycle and the chain, is one pass in time enough, a silent owner is released | one vault created at time 1, all windows 1, time to 12: a release takes 9 ticks and a torn sync 2 more. One restart of the timers, and one crash, failed call or tick that outruns the loops, each anywhere; two transactions in flight, which is one per goroutine |
| `relayer_stuck` | is a silence after a check-in acted upon? | violated: the copy is not refreshed, runs ahead and is dropped |

The five violations are disagreements between the code and what its own
comments or messages say; `PROJECT.json` quotes the lines.

More disagreements were met and have no run. In the contracts and services: tokens sent through
`fundWithFAsset` are credited to no vault (`FAssetsRouter.sol:76` says it funds
one); the payload of a signed quorum result carries the time of the latest
evaluation and not the one that was signed (`engine.go:265`), which nobody
verifies; the relayer sends the dispute notice twice, from
`relayQuorumResult` and from the next sweep (`watcher.go:376` says once); and
the beneficiaries' splits are added in a `uint8` (`store.go:148`), so 356 passes
as 100. `setQuorumThreshold` does not look at vaults that wait, so lowering the threshold
to what is already counted opens nothing either. `relayer/README.md:25` promises a reset
of the enclave's quorum when a guardian halts, and nothing in the relayer calls it: the
old quorum is relayed as soon as the vault is pending again. The API takes a post
without a signature for any address (`server.js:73-75`), so "posted" never means posted
by the attestor.

In the script: without `--scenario` the path of node is taken for the scenario,
nothing runs and "ALL SCENARIOS PASSED" is printed (`e2e-lifecycle.ts:528`, while
`:15` documents the default "all"; `PassIsEarned` leaves this case out by
`Program # <<>>`); `formatEther` of viem prints `"100"`, not the `"100.0"` that
`:282` expects, so that every scenario but the override fails at its first balance
(the only failure `UndisturbedFailsOnText` allows); time travel exists on Anvil only, though `:6` speaks of Coston2; and
the global threshold stays at 1 afterwards.

In the enclave: attestors are compared as text (`engine.go:103`), so two spellings of
one address count as two attestors. `VaultEnclave` takes an attestor to be its text.

In the web pages: an owner cannot halt in the dispute or final window, although
`constants.ts:69` and the landing page say "owner or guardian"; finalizing is
offered to owner and guardian only, although a comment in the vault page says
anyone can call; a second click within two seconds of a confirmation drops the
refetch of the first; the configuration is read once; the approval's hook is never
reset, so a second deposit is offered without an approval and reverts; the page
approves FXRP whatever asset the vault has; a failed item of a batch is shown as
ACTIVE; the countdown goes on for a vault that was cancelled from elsewhere, since
`cancelVault` leaves the deadline and the page has its state from an earlier reading; an
empty registry shows "Loading" for ever; and an observer may see
"released" from an answer cached before the id was created (which is why
`ShownEndIsTrue` speaks of ids that existed when first looked at).

Deadlock is checked for `registry_single`, `flow`, `enclave` and `relayer`, where something can always happen (a check-in, a negative quorum
result, an anchored document; a post; a stored plan; a sweep). The other passing runs bound the clock and end when it does,
and say `CHECK_DEADLOCK FALSE`.

### Fairness

Five specifications assume any.

- `DiligentSpec` (flow): the admin links the verifier, each case is registered,
  somebody keeps asking for a proof of each case and submits each available proof
  of each attestor, all weakly fair. No component of the repository does this; it
  is an assumption on the trustees and operators, stated so that
  `LastAttestorIsHeard` and the failure of `EveryAttestorIsHeard` are about the
  API and the contracts and not about somebody's idleness.
- `FairEnclaveSpec`: each request's own next step is strongly fair. Goroutines
  are scheduled, and Go's `sync.RWMutex` lets a reader that is waiting go before
  the next writer, so a result request cannot be starved between its two critical
  sections. New requests, resets, restarts and plans are not fair.
- `RelaySpec`: the operator restarts a stopped relayer, its tickers fire, its
  goroutines run, sent transactions are mined and time passes, all weakly fair.
  Nothing makes these prompt: a call may fail and the clock may outrun a pass.
  `SilentOwnerIsReleased` and `SilenceIsActedUpon` therefore speak of behaviours
  in which that never happens (`Smooth`: every tick finds both loops done since
  the last one and nothing in flight), which is what poll intervals of seconds
  against windows of days amount to. Neither owners, guardians, other keepers nor
  the enclave have to act. `TimeForAll` and `TimeForLast` only ask that the
  bounded clock does not stop too early.

- `ScriptSpec`: the script's own next step is weakly fair: it is one process, the
  chain mines what was sent, and nothing it waits for is up to anybody else.
- `WebFrontEndSpec`: the timer of `setTimeout` fires, and a refetch that was asked for
  is answered. Clicks, the wallet, mining and readings nobody asked for are not fair.

## 4. Proofs

All theorems hold for every value of the constants that satisfies the named
assumptions of the modules:

- `RegistryAssumption`: the zero address, the registry and the accounts are
  different; windows, amounts and thresholds are not zero, as the constructor and
  `createVault` require;
- `FdcAssumption`: the verifier contract is one of the addresses the admin may
  link, and there are finitely many attestors;
- `RouterAssumption`: the router is an account, no owner and no guardian;
- `WebAssumption`: visits are to existing pages, the creator is one of the vault
  owners, and the values for "not read" and "failed" are no address and no number;
- `TrusteeAssumption`: an empty field is no case and no attestor;
- `RelayerAssumption`: the relayer's key is an account, and the lead time and the
  bounds are numbers;
- `ScriptAssumption`: the script's owner and guardian are not the stranger, its
  windows and deposits are ones the registry accepts, there is a plan to commit to,
  the quorum threshold may be one, and the registry may have a vault;
- `EnclaveAssumption`: plans have a numeric threshold and types, and there is at
  least one boot.

The bounds (`MaxVaultId`, the clock, deposits, requests, boots) are constants too,
so the theorems hold however large they are. Three theorems have a hypothesis of
their own:

- `CopyStaysClose` asks that the relayer's key is the registry's `EnclaveOracle`. Only
  that address may submit a quorum result, `relayer/README.md:22` makes the relayer
  submit it, and the service has one key; with another one its `submitQuorumResult`
  would revert, which the relayer records as sent.
- `ProofsStaySubmittable` asks that `MaxAttestations`, the model's bound on a count that
  the contract leaves unbounded, has room for every attestor.
- `UndisturbedIsServed` asks for seven tokens, four vault ids and deposits up to four:
  what the four scenarios together spend, create and put into one vault. The tokens are
  the owner's own and the other two are bounds of the model; TLC finds an undisturbed run
  that is refused when any of the three is one less. The texts of the balances are no
  hypothesis: that they may stop the run is part of what is proved.

| Module | Theorem | States |
|---|---|---|
| `VaultRegistryProofs` | `InvariantHolds` | `Spec => []IInv`, the inductive invariant |
| | `TypeCorrect` | `Spec => []TypeOK` |
| | `FundsConserved` | `Spec => []Conservation` |
| | `HalfIsSaved` | `Spec => []HaltSavesHalf` |
| | `ReleaseNeedsSilence` | `Spec => []SilenceBeforeRelease` |
| | `StaysSolvent` | `Spec => []Solvency` |
| | `ConfigNeverChanges` | `Spec => ConfigFixed` |
| | `TerminalStays` | `Spec => TerminalIsFinal` |
| | `EveryVaultIsCovered` | the registry holds what it credits to each single vault |
| `VaultRefinementProofs` | `RegistryRefinesLifecycle` | `Spec => ImplementsLifecycle` |
| `AttestationProofs` | `FdcRefinesRegistry` | `FdcSpec => Spec` |
| | `FdcTypeCorrect` | `FdcSpec => []FdcTypeOK` |
| | `FdcInvariantHolds`, `CountsAgree` | `FdcSpec => []CountMatchesAttestors` |
| | `TriggerNeedsQuorum` | `FdcSpec => QuorumOfDistinctAttestors` |
| | `FlowInvariantHolds`, `EvidenceIsReal` | `FlowSpec => []EvidenceWasPosted` |
| | `FlowRefinesFdc` | `FlowSpec => FdcSpec` |
| | `HearingNeverGoesBack` | no step takes back what a trustee's hearing has reached |
| | `ProofsStaySubmittable` | nothing ever bars an available proof that was not heard |
| `RouterProofs` | `CustodyAccounted` | `RouterSpec => []CustodyExplained` |
| | `SolventWithRouter` | `RouterSpec => []Solvency` |
| `EnclaveProofs` | `EnclaveInvariantHolds`, `ResultsAreBacked` | `EnclaveSpec => []ResultHasAttestors` |
| | `EvaluationStays` | `EnclaveSpec => EvaluationIsStable` |
| | `EnclaveTypeCorrect` | `EnclaveSpec => []EnclaveTypeOK` |
| | `RequestsOnlyAdvance` | a request's steps bring it nearer to its answer, and nothing throws it back |
| | `NoCircularWait` | a request that waits for the lock waits for one writer, which waits for nobody |
| `WebProofs` | `WebRefinesRegistry` | `WebFrontEndSpec => Spec` |
| | `AnswersAreTrue` | `WebFrontEndSpec => []AnsweredIsRecorded` |
| | `PaymentsBounded` | `WebFrontEndSpec => []PaysOneApproval` |
| | `ReadingsHold`, `OnlyOwnVaults` | `WebFrontEndSpec => []OwnVaultsOnly` |
| | `EndsAreTrue` | `WebFrontEndSpec => []ShownEndIsTrue` |
| | `CountdownsAreRight` | `WebFrontEndSpec => []CountdownIsRight` |
| | `WebTypeCorrect` | `WebFrontEndSpec => []WebTypeOK` |
| | `TimelinesMoveForward` | `WebFrontEndSpec => TimelineMovesForward` |
| | `ConfirmationsAreFollowed` | a confirmed change is not forgotten before it is shown |
| | `AcceptedIsOffered` | on an up-to-date page, whatever call of the visitor's is carried out has its button |
| | `OfferedIsAccepted` | on an up-to-date page, a button's call meets the contract's conditions on caller, state and refund |
| `RelayerProofs` | `RelayInvariantHolds` | `RelaySpec => []RelayInv`, the inductive invariant |
| | `RelayerTypeCorrect` | `RelaySpec => []RelayerTypeOK` |
| | `RelayerRefinesRegistry` | `RelaySpec => Spec` |
| | `NoticeComesFirst` | `RelaySpec => NoticeBeforeTranche` |
| | `CopyMovesForward` | `RelaySpec => CopyFollowsLifecycle` |
| | `CopyStaysClose` | `RelaySpec => []CopyAheadByPending` |
| | `PassIsEnough` | `RelaySpec => DueIsServed` |
| `ScriptProofs` | `ScriptInvariantHolds` | `ScriptSpec => []ScriptInv`, the inductive invariant |
| | `ScriptTypeCorrect` | `ScriptSpec => []ScriptTypeOK` |
| | `ScriptKeepsCustody` | `ScriptSpec => [](Solvency /\ CustodyExplained)` |
| | `ScriptKeepsConfig` | `ScriptSpec => ConfigFixed` |
| | `ScriptRefinesLifecycle` | `ScriptSpec => ImplementsLifecycle` |
| | `StrangersAreSpared` | `ScriptSpec => StrangersSpared` |
| | `PassesAreEarned` | `ScriptSpec => PassIsEarned` |
| | `UndisturbedIsServed` | `ScriptSpec => []UndisturbedFailsOnText` |

*The registry.* None of the properties is inductive alone. `Sound(v)` gathers for
one id what the others rest on:

- `IdentityOf`: an id not yet created has a zero owner, asset, guardian and balance, so
  nobody's owner or guardian calls reach it, whatever state the keepers put it in;
- `FundsOf`: deposits equal balance, released and refunded together, and in the
  final window the balance covers the first tranche;
- `TimersOf`: in each state the deadline is far enough from `lastCheckIn`, which
  is the missing half of `SilenceBeforeRelease`: when the deadline passes the
  silence has lasted for the sum of the windows.

`IInv` is `TypeOK` and `Sound` for every id. One lemma per action shows what it
does to one vault (`...Effect`); `OneVaultSound` and `UntouchedSound` lift that to
all ids. `Solvency` is proved on top of `IInv`, with itself as the only addition, and
`EveryVaultIsCovered` follows, as no term of a sum exceeds it.
It needs that changing one entry of a sequence changes its total by the
difference: `VaultRegistryProofs` begins by proving that, and bounds and congruence of totals, from
the uniqueness of partial sums. The sum is a recursive function and not a fold of
the community modules, since those go through arbitrary orderings of a set.

*Refinement.* The mapping is the instance `Lifecycle` of `VaultRegistry`: a vault's
phase is read off its state, and an id not yet created is `unborn` whatever its
storage says. The calls the contract accepts for such an id are stuttering steps;
that nothing is lost by it rests on `IdentityOf`, which says its balance is zero.
Each call on a vault that exists maps to the lifecycle step of that vault
(`WaitMaps`, `OwnerMaps`, `FinalizeMaps`, `RestartMaps`).

*Verifier and flow.* Each step of the verifier is a step of the registry or
none, so `IInv` carries over. The two counters agree because a new attestor is
appended to the list, added to the set and counted in one transaction
(`SubmitHolds`), and none of the registry's other functions counts
(`RegistryKeepsCounts`). `FdcSpec` leaves out direct calls of
`submitVerifiedAttestation` by another address the admin may have linked: such a
verifier would count by its own rules, and as the admin can link only one, this
contract would then never reach the registry. `FlowInv` adds what claims to be somebody's attestation at
each stage: `ServiceHonest` (the API's records), `ProofsHonest` (proofs, which
outlive them) and `ChainHonest` (the contracts' records).

`LastAttestorIsHeard` is a liveness property, and fairness is all that TLC has to add to
what is proved for it. Every step of the flow is one of the verifier's or none
(`FlowRefinesFdc`); nobody can unlink the verifier, move a case, withdraw a proof or
strike an attestor out (`HearingNeverGoesBack`); and once case and verifier are in place
a proof that is not yet heard meets every condition of `submitAttestation`, in whatever
state the vault is (`ProofsStaySubmittable`, from `AllConfirmed`: the API only ever
serves confirmed records, also to proofs that outlive them).

*Router.* Custody is three sums over the vaults, beside what was routed and what was
transferred directly. A step changes one term of one or
two of them (`OneTermChanges`, `CustodyMoves`), and `UnbornReleasedNothing` says
that the finalize calls, which accept an id before it is created, released nothing
for it. Otherwise `createVault`, by writing the id's `fundingAsset`, would move its
tranches from one asset's account to another's.

*Enclave.* `ResultHasAttestors` needs three facts about requests in progress:
`SignsForQuorum`, a request about to sign already has its attestors; `OneRowEach`,
the table's primary key, by which counting rows counts attestors; and
`WriterAlone`, the read-write lock, by which no reset takes the rows from under a
request that has counted them. `EvaluationStays` follows from the same invariant.

So do the two facts behind `RequestsAnswered`. `RequestsOnlyAdvance` counts the steps a
request can still take, at most five, and shows that each of its own lowers the count
while other requests, plans, resets and a restart leave it or end the request. And the
only step that may have to wait is the second read of the payload: then one writer holds
the lock, alone, and its own step is free (`NoCircularWait`).

*Web front end.* `WalletInv` types what lies between a click and a block: every call in a
hook or in the pool is one that the account's page can make (`CallsOf`), with a
complete form if it creates a vault. Hence whatever is mined is a step of the
registry (`EffectIsRegistryStep`), which gives `WebRefinesRegistry`, and with it
the registry's invariant `IInv` and its theorems beside an open page.
`PaysOneApproval` rests on what the page does, not on the token: `PayInv` says that a
payment is sent only once the page has seen an approval confirmed, that nothing is
approved afterwards (the first button is gone), and that the approval the page waits for
is the last one sent. So approvals whose receipts were lost are mined before it and are
replaced by it (`MinedPays`), and a payment pressed again after a lost receipt comes out
of the same allowance. `LookInv` says of each reading how it may lag
behind: owner and guardian are what they are now or, of an id that was not created
when they were read, zero; a state read of a vault that existed shows no end that is
not true. It is kept by every step of the contract because creation is the only one
that writes the parties (`StepKeepsConfig`), because a finished vault is never moved
(`FinishedStays`), and because an id not yet created has zero parties
(`IdentityOf`); and `NameOfEncoded` shows that the pages' table of names is the
contract's enum. `CountdownIsRight` rests on what a step can do to a vault's clock: let
it run, restart it, or set the next deadline once the last has passed (`ClockMoves`).
Before the deadline the only other thing that can happen to the vault is its cancellation
(`Runs`). A reading then stays right, deadline and state, until it has run out or the
timers restart (`TimingInv`). What could confuse it is a restart in the second of an
earlier check-in, which sets the same deadline again (the vault is active both times, or
closed and never restarted), and an id not yet created, whose zero windows leave every deadline
passed (`ClockInv`). `TrusteeInv` adds to `AnsweredIsRecorded` what holds while the answer
travels.

`TimelineMovesForward` is two facts: a call moves its vault by one state, restarts it
or closes it (`CallMovesState`, `StateMoves`), and the lit steps of a state are the
first so many, more of them in each later state (`TimelineLights`).

`ConfirmationsAreFollowed` is the part of `ConfirmedIsShown` that needs no fairness.
While a confirmed change is not shown (`behind`) and the timer or a refetch is due, a
step leaves it so, reads the state as the contract has it, or is the account's next
click; a page that lost sight of a change would show in `Followed`. It rests on
`FollowInv`: only a page that was looked at has calls under way, and only a vault's page
has a timer.

`OffersMatchContract` asks of every reachable state which calls the contract would
take, with ENABLED, which the prover cannot open. Its two directions are proved in other
words. `AcceptedIsOffered` speaks of steps: when a call of the visitor's is carried out,
the page had its button, if it was up to date. `OfferedIsAccepted` speaks of the
requires of the functions (`Accepts`): where there is a button the caller and the state
are right, and a cancellation's refund is in the registry, since it is solvent
(`CanRefund`). What it leaves open is what the page leaves to the contract: the amount
approved, and the deadline of a finalization. That these requires are all there is to a
call is visible in the actions, and checked with ENABLED by the run.

*Relayer.* The relayer reads, decides and writes in separate steps, and its other
goroutine, the owner or another keeper may act in between. `RelayInv` therefore says of
each step of each goroutine what still holds of what it has read:

- `RowsSound`: a tracked id exists, and a row marked as announced belongs to an owner
  who was told;
- `SweepSound`: rows read by the sweep still say what the table says (`SameRow`), since
  only the poll writes besides it and only rows that wait for a quorum; `PollSound`: the
  polled rows still wait, until the result of the vault in hand is recorded;
- `Steady`: a vault that exists has no more than one window of its owner's left.

Sending is separate from mining: the head of the mempool is executed or, if the
registry refuses it, dropped, so each step is a registry step or none
(`RelayerRefinesRegistry`). `CopyAheadByPending` only speaks of histories without
trouble, in which every pass ends before the clock ticks, so `CalmInv` is an invariant of its
own. It says by which transactions in flight the copy of an undisturbed vault is ahead
(`Backed`: one call that the registry will accept, or the attestation request and the
oracle's result behind it), that a copied deadline is never earlier than the registry's
(`Late`), and the same of what the two passes are about to write (`SweepCalm`,
`PollCalm`). `HeadSucceeds` shows that the transaction it counts on is not refused.

`DueIsServed` says that no row is due when the clock goes on, which the sweep alone does
not decide: rows are also written by the sync, which starts over after a crash, and by
the poll. `PassServes` says it of the rows this pass is done with, in the middle of a
pass, and of all of them at its end. It is kept because a row just written, by whom ever,
has its deadline ahead (`NewRowUndue`: windows are not zero), and because the rows the
sweep works from are still those of the table. `PassIsEnough` needs neither the owner's
silence nor that the transactions succeed, which makes it the relayer's share of
`SilentOwnerIsReleased`.

*Script.* The script is a list of deeds. `WellFormed` says what every choice of scenarios
has in common (a vault of its own first; nothing is driven towards release before a
deposit of its own), and `ScriptInv` adds to the router's invariant where the script
stands (`Position`), whose vaults there are (`Owners`), and that a deposit that passed gas
estimation is into a vault of the script's (`Claimed`), which is why a stranger's vault
whose id it read back by mistake is left alone. Whatever happens on the chain in a step is a
`ChainStep`: a registry call, a creation, a call of the router, or a jump of the
clock, as with `evm_increaseTime`, which no step of the registry makes and which
breaks none of its invariants (`ElapsedHolds`).

`PassIsEarned` is about the end of a run, and what the last assertion is worth depends on
the steps before it. `InPlace` follows the last scenario of the program (`Plan`; `Place`
is where in it the script stands):

- `Untouched`: the vault whose id is read back is fresh or somebody else's. An id has no
  deposits before it is created (`Accounts`), and a stranger's creation in between makes
  the id read back a stranger's;
- from the first call that only the owner can make (`Gate`) the vault is the script's;
- `Counted`: the deposit is in the vault once a balance was asserted. The cancellation
  has no such assertion after its deposit. There it is `Payable` that helps: what gas
  estimation saw of tokens and room is still so when the deposit is mined, and if it
  reverts all the same the vault is released, which no cancellation can follow;
- `Lived`: an asserted end stays, and nothing that was released came back by a halt
  (`Unhalted`). With the halt's scenario this is known from the balance it asserts
  after its own halt.

Others keep all this because only the vault's owner and guardian can do more to it than
let it run its course (`LeftAlone`). `Accounts /\ InPlace` was also checked with TLC as an
invariant of the `script` run before it was proved.

`UndisturbedIsServed` is the converse: a run in which nobody else does anything fails at
no call, and at no assertion but one whose amount is right and whose text is not
(`FailedOnText`; the proof carries on past it with `prints`, and stops there without).
Every position of every
program gets an `Expectation`: the state, balance, deposits and window of the vault in
hand, and the tokens and ids used so far. `Leads` is what one deed makes of it. Each
scenario has such an annotation (`HappyAnnotated`, `HaltAnnotated`, `OverrideAnnotated`,
`CancelAnnotated`), annotations that meet can be joined (`AnnotatedJoined`), and so every
choice of scenarios has one (`ProgramAnnotated`). `Undisturbed` adds that the contracts
are as the annotation expects (`AsExpected`). A call that is expected is accepted
(`CallIsServed`) and has the expected effect (`CallAsExpected`), an assertion that is
expected holds (`AssertsAsExpected`), and time, which may pass anywhere, only helps.
`ScriptEnds` needs besides only that the script goes on.

Only model-checked: `OffersMatchContract`, as it stands, because it compares with ENABLED;
and all liveness, since fairness and ENABLED are out of the prover's reach. Of each
liveness property the part that is about steps is proved; what TLC adds is that fair
steps are taken and so get there:

| Checked by TLC | Proved |
|---|---|
| `LastAttestorIsHeard` | `HearingNeverGoesBack`, `ProofsStaySubmittable` |
| `RequestsAnswered` | `RequestsOnlyAdvance`, `NoCircularWait` |
| `SilentOwnerIsReleased` | `PassIsEnough`, `CopyStaysClose`, `CopyMovesForward` |
| `ScriptEnds` | `UndisturbedIsServed`, for what the end of an undisturbed run can be |
| `ConfirmedIsShown` | `ConfirmationsAreFollowed` |

## 5. Not modelled

- The relayer's configuration, database errors and the text of its notices; that
  its clock and the chain's differ.
- The proof verification of the data connector, signatures and encryption: a proof
  is what it proves, a sealed plan is readable by the boot that sealed it.
- Token callbacks: a token that calls back into the registry during `fundVault`.
- `attestation/evidence.go`, the deployment scripts, the stub contracts: no protocol
  state.
- Of the web front end: ABI tables, layout, badges, balances, attestation counts and
  the deadlines on the dashboard's cards, which are shown as they are read; a visitor's
  clock that differs from the chain's; `TransactionButton`, which no
  page uses. Several tabs of one account are part of `Elsewhere`.
- Of the script: reading its keys and addresses, choosing the chain, and the attempt
  to mint tokens, whose failure it ignores.
- Of the API: the refusal of missing fields, unknown types, malformed addresses (the
  page only looks at the length) and signatures of somebody else. Such a request
  records nothing, and "refused" in `TrusteePage` is the refusal of a duplicate only.
- `MarkNotified`, `GetPendingQuorumResults`, `DeletePlan`: nothing calls them.
- Database and network errors inside a request: it ends with an error having
  changed nothing, like a request refused for its plan.

## 6. Plan

1. *Done*: the registry, its abstract lifecycle; verifier, API and flow; router;
   enclave; the relayer beside the registry; the end-to-end script; the web front
   end. Proofs of their safety properties; of `OffersMatchContract` the two halves that can be
   said without ENABLED; of each liveness property what can be said without fairness.
2. The relayer composed with `VaultEnclave`, so that the quorum it relays can be an
   old one: nothing resets the enclave after a halt. Today `EnclaveAttests` is a
   single step.
3. Plan validation as a pure operator with 8-bit sums of the beneficiaries' splits
   against its reference, and attestors as addresses with several spellings.
4. Which boot's key a served signature carries (`VaultEnclave` keeps the signer,
   no property reads it yet).
