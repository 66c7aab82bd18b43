---------------------------- MODULE RelayerProofs ----------------------------
(***************************************************************************)
(* Theorems about the relayer beside the registry: it is one of the        *)
(* registry's callers, its copy of a vault moves as vaults do, an owner is *)
(* told before the first half leaves, and the copy runs ahead only by what *)
(* is in flight; for any number of vaults, rows, transactions in flight,   *)
(* crashes and failed calls.                                               *)
(***************************************************************************)
EXTENDS Relayer, VaultRegistryProofs, SequenceTheorems, FiniteSetTheorems

-----------------------------------------------------------------------------
(* Seen from the registry.                                                 *)

\* What is in flight is a call anybody may make, or the oracle's.
LEMMA ExecuteIsRegistryStep ==
    ASSUME NEW tx \in Tx, Execute(tx)
    PROVE  KeeperStep \/ OracleStep
BY RelayerAssumption DEF Execute, Tx, KeeperStep, OracleStep

\* The relayer's own steps leave the contract alone.
LEMMA RelayStepIsRegistryStep ==
    ASSUME mempool \in Seq(Tx), [RelayNext]_relayVars
    PROVE  [Next]_vars
<1>1. CASE Mine
  <2>1. Head(mempool) \in Tx
    BY <1>1 DEF Mine
  <2>2. CASE Execute(Head(mempool))
    BY <2>1, <2>2, ExecuteIsRegistryStep DEF Next
  <2>3. QED
    BY <1>1, <2>2 DEF Mine
<1>2. CASE OtherTransaction
  BY <1>2 DEF OtherTransaction, Next
<1>3. CASE ClockTick
  BY <1>3 DEF ClockTick, Next
<1>4. CASE Boot \/ SweepStart \/ Syncing \/ SyncFails
  BY <1>4 DEF Boot, SweepStart, Syncing, SyncState, SyncTiming, LoopsStart, SyncFails
<1>5. CASE SweepWork
  BY <1>5 DEF SweepWork, SweepRows, RemindOwner, AnnounceDispute, RecordDispute, SendDue,
              Advance, SweepEnd
<1>6. CASE \E v \in VaultId : SendDueFails(v) \/ PollFails(v) \/ EnclaveAttests(v)
  BY <1>6 DEF SendDueFails, PollFails, EnclaveAttests
<1>7. CASE PollStart \/ PollWork
  BY <1>7 DEF PollStart, PollWork, PollStatus, SubmitResult, RecordRelay, FinishRelay,
              PollEnd
<1>8. CASE Crash
  BY <1>8 DEF Crash
<1>9. CASE UNCHANGED relayVars
  BY <1>9 DEF relayVars
<1>10. QED
  BY <1>1, <1>2, <1>3, <1>4, <1>5, <1>6, <1>7, <1>8, <1>9 DEF RelayNext

-----------------------------------------------------------------------------
(* How a vault moves.                                                      *)

\* The states a row or a vault leaves when its deadline has passed.
Timed == {"ACTIVE", "WARNING", "DISPUTE_WINDOW", "FINAL_WINDOW"}

\* The window of a state that is entered with one.
WindowOf(v, s) ==
    IF s = "WARNING" THEN vaults[v].timing.graceWindow
    ELSE IF s = "DISPUTE_WINDOW" THEN vaults[v].timing.disputeWindow
    ELSE vaults[v].timing.finalWindow

\* The timers of a vault that exists: the owner's windows, of which no state has
\* more than one left.
SteadyOf(v) ==
    v < nextVaultId =>
        /\ vaults[v].timing \in Timing
        /\ vaults[v].state = "ACTIVE" =>
              vaults[v].windowDeadline = vaults[v].lastCheckIn + ToWarning(v)
        /\ vaults[v].state \in Timed \ {"ACTIVE"} =>
              vaults[v].windowDeadline <= now + WindowOf(v, vaults[v].state)

Steady == \A v \in VaultId : SteadyOf(v)

\* Nothing happens to a vault's life.
Stays(v) ==
    /\ vaults'[v].state = vaults[v].state
    /\ vaults'[v].windowDeadline = vaults[v].windowDeadline
    /\ vaults'[v].lastCheckIn = vaults[v].lastCheckIn
    /\ vaults'[v].timing = vaults[v].timing

\* A sign of life, or a guardian's halt.
Wakes(v) ==
    /\ vaults'[v].state = "ACTIVE"
    /\ vaults'[v].lastCheckIn = now
    /\ vaults'[v].timing = vaults[v].timing
    /\ vaults'[v].windowDeadline = now + vaults[v].timing.checkInInterval
    /\ vaults[v].state \notin Terminal
    /\ now' = now

Closes(v) ==
    /\ vaults'[v].state = "CLOSED"
    /\ vaults'[v].timing = vaults[v].timing
    /\ now' = now

\* On to the next state, at or after the deadline.
Passes(v) ==
    /\ vaults[v].state \in Timed \cup {"QUORUM_PENDING"}
    /\ vaults'[v].state \in VaultState \ {"ACTIVE", "CLOSED"}
    /\ Rank[vaults'[v].state] = Rank[vaults[v].state] + 1
    /\ vaults'[v].lastCheckIn = vaults[v].lastCheckIn
    /\ vaults'[v].timing = vaults[v].timing
    /\ vaults'[v].state \in Timed =>
          vaults'[v].windowDeadline = now + WindowOf(v, vaults'[v].state)
    /\ now' = now

\* The states in the order of the lifecycle.
LEMMA RankOrder ==
    /\ Rank["ACTIVE"] = 0 /\ Rank["WARNING"] = 1 /\ Rank["QUORUM_PENDING"] = 2
    /\ Rank["DISPUTE_WINDOW"] = 3 /\ Rank["FINAL_WINDOW"] = 4
    /\ Rank["FULLY_RELEASED"] = 5
BY DEF Rank

\* A call that moves a vault on.
LEMMA CallPasses ==
    ASSUME TypeOK, NEW caller, NEW v \in VaultId,
           \/ MarkWarning(v) \/ RequestAttestation(v)
           \/ SubmitQuorumResult(caller, v, TRUE)
           \/ FinalizeDisputeWindow(v) \/ FinalizeFinalWindow(v)
    PROVE  Passes(v) /\ OthersKept(v) /\ nextVaultId' = nextVaultId
<1>1. /\ {"WARNING", "QUORUM_PENDING", "DISPUTE_WINDOW"} \subseteq VaultState
      /\ now + vaults[v].timing.graceWindow \in Nat
      /\ now + vaults[v].timing.disputeWindow \in Nat
      /\ vaults[v].windowDeadline \in Nat
  BY TimingNat DEF VaultState
<1>2. CASE MarkWarning(v)
  <2> DEFINE d == now + vaults[v].timing.graceWindow
  <2>1. /\ vaults' = Entered(v, "WARNING", d) /\ vaults[v].state = "ACTIVE"
        /\ UNCHANGED <<now, nextVaultId>>
    BY <1>2 DEF MarkWarning
  <2>2. /\ OthersKept(v) /\ IdentityKept(v)
        /\ vaults'[v].state = "WARNING" /\ vaults'[v].windowDeadline = d
        /\ vaults'[v].lastCheckIn = vaults[v].lastCheckIn
    BY <1>1, <2>1, EnterEffect
  <2>3. QED
    BY <2>1, <2>2, RankOrder DEF Passes, IdentityKept, Timed, WindowOf, VaultState
<1>3. CASE RequestAttestation(v)
  BY <1>1, <1>3, EnterEffect, RankOrder
  DEF RequestAttestation, Passes, IdentityKept, Timed, VaultState
<1>4. CASE SubmitQuorumResult(caller, v, TRUE)
  <2> DEFINE d == now + vaults[v].timing.disputeWindow
  <2>1. /\ vaults' = Entered(v, "DISPUTE_WINDOW", d) /\ vaults[v].state = "QUORUM_PENDING"
        /\ UNCHANGED <<now, nextVaultId>>
    BY <1>4 DEF SubmitQuorumResult
  <2>2. /\ OthersKept(v) /\ IdentityKept(v)
        /\ vaults'[v].state = "DISPUTE_WINDOW" /\ vaults'[v].windowDeadline = d
        /\ vaults'[v].lastCheckIn = vaults[v].lastCheckIn
    BY <1>1, <2>1, EnterEffect
  <2>3. QED
    BY <2>1, <2>2, RankOrder DEF Passes, IdentityKept, Timed, WindowOf, VaultState
<1>5. CASE FinalizeDisputeWindow(v)
  <2>1. UNCHANGED <<now, nextVaultId>> /\ vaults[v].state = "DISPUTE_WINDOW"
    BY <1>5 DEF FinalizeDisputeWindow
  <2>2. QED
    BY <1>5, <2>1, FinalizeDisputeEffect, RankOrder
    DEF Passes, IdentityKept, Timed, WindowOf, VaultState
<1>6. CASE FinalizeFinalWindow(v)
  <2>1. UNCHANGED <<now, nextVaultId>> /\ vaults[v].state = "FINAL_WINDOW"
    BY <1>6 DEF FinalizeFinalWindow
  <2>2. QED
    BY <1>6, <2>1, FinalizeFinalEffect, RankOrder
    DEF Passes, IdentityKept, ClockKept, Timed, VaultState
<1>7. QED
  BY <1>2, <1>3, <1>4, <1>5, <1>6

\* What owner and guardian can do to the vault of a given owner.
LEMMA OwnerMoves ==
    ASSUME IInv, OwnerStep \/ GuardianStep, NEW v \in VaultId, v < nextVaultId
    PROVE  /\ Stays(v) \/ Wakes(v) \/ Closes(v)
           /\ now' = now /\ v < nextVaultId'
<1>1. TypeOK /\ v \in Nat /\ nextVaultId \in Nat
  BY RegistryAssumption DEF IInv, TypeOK, VaultId
<1>2. ASSUME NEW caller \in Account, NEW plan \in PlanHash, NEW asset \in Asset,
             NEW timing \in Timing, NEW guardian \in GuardianKey,
             CreateVault(caller, plan, asset, timing, guardian)
      PROVE  Stays(v) /\ now' = now /\ v < nextVaultId'
  <2>1. OthersKept(nextVaultId) /\ v # nextVaultId
    BY <1>1, <1>2, CreateEffect
  <2>2. now' = now /\ nextVaultId' = nextVaultId + 1
    BY <1>2 DEF CreateVault
  <2>3. QED
    BY <1>1, <2>1, <2>2 DEF OthersKept, Stays
<1>3. ASSUME NEW w \in VaultId, OthersKept(w), w # v PROVE Stays(v)
  BY <1>3 DEF OthersKept, Stays
<1>4. ASSUME NEW caller \in Account, NEW w \in VaultId,
             CheckIn(caller, w) \/ OwnerOverride(caller, w) \/ GuardianHalt(caller, w)
      PROVE  (Stays(v) \/ Wakes(v)) /\ now' = now /\ v < nextVaultId'
  <2>1. /\ vaults' = Restarted(w) /\ UNCHANGED <<now, nextVaultId>>
        /\ vaults[w].state \notin Terminal
    BY <1>4 DEF CheckIn, OwnerOverride, GuardianHalt, Terminal
  <2>2. CASE w = v
    BY <1>1, <2>1, <2>2, RestartEffect DEF Wakes, IdentityKept
  <2>3. CASE w # v
    BY <1>1, <1>3, <2>1, <2>3, RestartEffect
  <2>4. QED
    BY <2>2, <2>3
<1>5. ASSUME NEW caller \in Account, NEW w \in VaultId,
             \/ \E amount \in Amount : FundVault(caller, w, amount)
             \/ \E hash \in LegalDoc : AnchorLegalDoc(caller, w, hash)
             \/ CancelVault(caller, w)
      PROVE  (Stays(v) \/ Closes(v)) /\ now' = now /\ v < nextVaultId'
  <2>1. IdentityOf(w) /\ UNCHANGED <<now, nextVaultId>>
    BY <1>5 DEF IInv, Sound, FundVault, AnchorLegalDoc, CancelVault
  <2>2. /\ OthersKept(w) /\ IdentityKept(w) /\ ClockKept(w)
        /\ vaults'[w].state \in {vaults[w].state, "CLOSED"}
    BY <1>1, <1>5, <2>1, FundEffect, AnchorEffect, CancelEffect
  <2>3. CASE w = v
    BY <2>1, <2>2, <2>3 DEF Stays, Closes, IdentityKept, ClockKept
  <2>4. CASE w # v
    BY <1>3, <2>1, <2>2, <2>4
  <2>5. QED
    BY <2>3, <2>4
<1>6. QED
  BY <1>2, <1>4, <1>5 DEF OwnerStep, GuardianStep

\* What everybody else can do to it.
LEMMA KeeperMoves ==
    ASSUME TypeOK, KeeperStep, NEW v \in VaultId
    PROVE  /\ Stays(v) \/ Passes(v)
           /\ now' = now /\ nextVaultId' = nextVaultId
<1>1. PICK w \in VaultId : \/ MarkWarning(w) \/ RequestAttestation(w)
                           \/ FinalizeDisputeWindow(w) \/ FinalizeFinalWindow(w)
  BY DEF KeeperStep
<1>2. Passes(w) /\ OthersKept(w) /\ nextVaultId' = nextVaultId
  BY <1>1, CallPasses
<1>3. QED
  BY <1>2 DEF OthersKept, Stays, Passes

\* Only the steps around the relayer touch the contract.
LEMMA ChainSteps ==
    ASSUME [RelayNext]_relayVars
    PROVE  \/ UNCHANGED vars
           \/ Mine
           \/ OtherTransaction
           \/ ClockTick
BY DEF RelayNext, relayVars, Boot, SweepStart, Syncing, SyncState, SyncTiming, LoopsStart,
       SyncFails, SweepWork, SweepRows, RemindOwner, AnnounceDispute, RecordDispute,
       SendDue, Advance, SweepEnd, SendDueFails, PollFails, EnclaveAttests, PollStart,
       PollWork, PollStatus, SubmitResult, RecordRelay, FinishRelay, PollEnd, Crash

\* A transaction that is mined moves its vault from the state it is for, or nothing.
LEMMA MineMoves ==
    ASSUME TypeOK, mempool \in Seq(Tx), Mine
    PROVE  /\ Head(mempool) \in Tx
           /\ now' = now /\ nextVaultId' = nextVaultId
           /\ \A v \in VaultId : v # Head(mempool).vault => Stays(v)
           /\ Succeeds(Head(mempool)) => Passes(Head(mempool).vault)
           /\ ~Succeeds(Head(mempool)) => Stays(Head(mempool).vault)
<1>1. PICK tx \in Tx : tx = Head(mempool)
  BY DEF Mine
<1>2. PICK v \in VaultId : v = tx.vault
  BY DEF Tx
<1>3. CASE Succeeds(tx)
  <2>1. Execute(tx)
    BY <1>1, <1>3 DEF Mine
  <2>2. \/ MarkWarning(v) \/ RequestAttestation(v)
        \/ SubmitQuorumResult(RelayerKey, v, TRUE)
        \/ FinalizeDisputeWindow(v) \/ FinalizeFinalWindow(v)
    BY <1>2, <2>1 DEF Execute
  <2>3. Passes(v) /\ OthersKept(v) /\ nextVaultId' = nextVaultId
    BY <2>2, CallPasses
  <2>4. \A w \in VaultId : w # v => Stays(w)
    BY <2>3 DEF OthersKept, Stays
  <2>5. now' = now
    BY <2>3 DEF Passes
  <2>6. QED
    BY <1>1, <1>2, <1>3, <2>3, <2>4, <2>5
<1>4. CASE ~Succeeds(tx)
  <2>1. UNCHANGED vars
    BY <1>1, <1>4 DEF Mine
  <2>2. \A w : Stays(w)
    BY <2>1 DEF vars, Stays
  <2>3. now' = now /\ nextVaultId' = nextVaultId
    BY <2>1 DEF vars
  <2>4. QED
    BY <1>1, <1>2, <1>4, <2>2, <2>3
<1>5. QED
  BY <1>3, <1>4

\* Whatever happens, a vault that exists stays, wakes, closes or passes on.
LEMMA ChainMoves ==
    ASSUME IInv, mempool \in Seq(Tx), [RelayNext]_relayVars, NEW v \in VaultId,
           v < nextVaultId
    PROVE  /\ Stays(v) \/ Wakes(v) \/ Closes(v) \/ Passes(v)
           /\ now' \in Nat /\ now' >= now /\ v < nextVaultId'
<1>1. TypeOK /\ now \in Nat
  BY DEF IInv, TypeOK
<1>2. CASE UNCHANGED vars
  BY <1>1, <1>2 DEF vars, Stays
<1>3. CASE Mine
  <2>1. (Stays(v) \/ Passes(v)) /\ now' = now /\ nextVaultId' = nextVaultId
    BY <1>1, <1>3, MineMoves
  <2>2. QED
    BY <1>1, <2>1
<1>4. CASE OtherTransaction
  <2>1. OwnerStep \/ GuardianStep \/ KeeperStep
    BY <1>4 DEF OtherTransaction
  <2>2. /\ Stays(v) \/ Wakes(v) \/ Closes(v) \/ Passes(v)
        /\ now' = now /\ v < nextVaultId'
    BY <1>1, <2>1, OwnerMoves, KeeperMoves
  <2>3. QED
    BY <1>1, <2>2
<1>5. CASE ClockTick
  BY <1>1, <1>5 DEF ClockTick, Tick, registryVars, Stays
<1>6. QED
  BY <1>2, <1>3, <1>4, <1>5, ChainSteps

\* A vault that did not exist before was created with windows of its owner's.
LEMMA ChainBirth ==
    ASSUME IInv, mempool \in Seq(Tx), [RelayNext]_relayVars, NEW v \in VaultId,
           ~(v < nextVaultId), v < nextVaultId'
    PROVE  /\ vaults'[v].timing \in Timing
           /\ vaults'[v].state = "ACTIVE"
           /\ vaults'[v].lastCheckIn = now
           /\ vaults'[v].windowDeadline = now + vaults'[v].timing.checkInInterval
<1>1. TypeOK /\ now \in Nat /\ nextVaultId \in Nat /\ v \in Nat
  BY RegistryAssumption DEF IInv, TypeOK, VaultId
<1>2. OtherTransaction
  <2>1. ~(UNCHANGED vars)
    BY <1>1 DEF vars
  <2>2. ~Mine
    BY <1>1, MineMoves
  <2>3. ~ClockTick
    BY <1>1 DEF ClockTick, Tick, registryVars
  <2>4. QED
    BY <2>1, <2>2, <2>3, ChainSteps
<1>3. OwnerStep
  <2>1. ~GuardianStep
    BY <1>1 DEF GuardianStep, GuardianHalt
  <2>2. ~KeeperStep
    BY <1>1, KeeperMoves
  <2>3. QED
    BY <1>2, <2>1, <2>2 DEF OtherTransaction
<1>4. PICK caller \in Account, plan \in PlanHash, asset \in Asset,
            timing \in Timing, guardian \in GuardianKey :
            CreateVault(caller, plan, asset, timing, guardian)
  BY <1>1, <1>3 DEF OwnerStep, CheckIn, FundVault, AnchorLegalDoc, OwnerOverride, CancelVault
<1>5. v = nextVaultId
  BY <1>1, <1>4 DEF CreateVault
<1>6. QED
  BY <1>1, <1>4, <1>5, CreateEffect

\* An id that nobody created yet keeps being one unless it is created.
LEMMA IdsGrow ==
    ASSUME IInv, mempool \in Seq(Tx), [RelayNext]_relayVars
    PROVE  /\ \A v \in VaultId : v < nextVaultId => v < nextVaultId'
           /\ 1..(nextVaultId - 1) \subseteq VaultId
           /\ now \in Nat /\ now' \in Nat /\ now' >= now
<1>1. now \in Nat /\ nextVaultId \in 1..(MaxVaultId + 1) /\ TypeOK
  BY DEF IInv, TypeOK
<1>2. 1..(nextVaultId - 1) \subseteq VaultId
  BY <1>1, RegistryAssumption DEF VaultId
<1>3. now' \in Nat /\ now' >= now
  <2>1. now' = now \/ now' = now + 1
    <3>1. CASE OtherTransaction
      BY <3>1 DEF OtherTransaction, OwnerStep, CreateVault, CheckIn, FundVault,
                  AnchorLegalDoc, OwnerOverride, CancelVault, GuardianStep, GuardianHalt,
                  KeeperStep, MarkWarning, RequestAttestation, FinalizeDisputeWindow,
                  FinalizeFinalWindow
    <3>2. QED
      BY <1>1, <3>1, ChainSteps, MineMoves DEF ClockTick, Tick, vars
  <2>2. QED
    BY <1>1, <2>1
<1>4. QED
  BY <1>1, <1>2, <1>3, ChainMoves

\* The timers stay as they should.
LEMMA SteadyHolds ==
    ASSUME IInv, Steady, mempool \in Seq(Tx), [RelayNext]_relayVars
    PROVE  Steady'
<1> SUFFICES ASSUME NEW v \in VaultId, v < nextVaultId'
             PROVE  /\ vaults'[v].timing \in Timing
                    /\ vaults'[v].state = "ACTIVE" =>
                          vaults'[v].windowDeadline =
                              vaults'[v].lastCheckIn + vaults'[v].timing.checkInInterval
                    /\ vaults'[v].state \in Timed \ {"ACTIVE"} =>
                          vaults'[v].windowDeadline <= now' + WindowOf(v, vaults[v].state)'
  BY DEF Steady, SteadyOf, ToWarning, WindowOf
<1>1. now \in Nat /\ now' \in Nat /\ now' >= now /\ TypeOK
  BY IdsGrow DEF IInv
<1>2. /\ vaults[v].windowDeadline \in Nat /\ vaults[v].lastCheckIn \in Nat
      /\ vaults[v].timing.graceWindow \in Nat
      /\ vaults[v].timing.disputeWindow \in Nat
      /\ vaults[v].timing.finalWindow \in Nat
  BY <1>1, TimingNat
<1>3. CASE ~(v < nextVaultId)
  BY <1>1, <1>3, ChainBirth DEF Timed
<1>4. CASE v < nextVaultId
  <2>1. SteadyOf(v)
    BY DEF Steady
  <2>2. CASE Stays(v)
    <3>1. WindowOf(v, vaults[v].state)' = WindowOf(v, vaults[v].state)
      BY <2>2 DEF WindowOf, Stays
    <3>2. WindowOf(v, vaults[v].state) \in Nat
      BY <1>2 DEF WindowOf
    <3>3. QED
      BY <1>1, <1>2, <1>4, <2>1, <2>2, <3>1, <3>2 DEF Stays, SteadyOf, ToWarning
  <2>3. CASE Wakes(v)
    BY <1>1, <1>2, <1>4, <2>1, <2>3 DEF Wakes, SteadyOf, Timed
  <2>4. CASE Closes(v)
    BY <1>1, <1>4, <2>1, <2>4 DEF Closes, SteadyOf, Timed
  <2>5. CASE Passes(v)
    <3>1. WindowOf(v, vaults[v].state)' = WindowOf(v, vaults'[v].state)
      BY <2>5 DEF WindowOf, Passes
    <3>2. WindowOf(v, vaults'[v].state) \in Nat
      BY <1>2 DEF WindowOf
    <3>3. QED
      BY <1>1, <1>2, <1>4, <2>1, <2>5, <3>1, <3>2 DEF Passes, SteadyOf
  <2>6. QED
    BY <1>4, <2>2, <2>3, <2>4, <2>5, ChainMoves
<1>5. QED
  BY <1>3, <1>4

-----------------------------------------------------------------------------
(* What the two goroutines have in hand agrees with the table.             *)

\* A row is of a vault that exists, and says of no notice that was not sent.
RowsSound ==
    \A v \in VaultId :
        /\ tracked[v].state = "UNTRACKED" => tracked[v] = NoRow
        /\ tracked[v].state # "UNTRACKED" => v < nextVaultId
        /\ tracked[v].disputeSent => v \in told

\* The row the sweep has read says what the table says now: nobody else writes the
\* row of a vault whose deadline is due.
SameRow(v) ==
    /\ sweep.rows[v].state \in Timed
    /\ sweep.rows[v].state = tracked[v].state
    /\ sweep.rows[v].deadline = tracked[v].deadline
    /\ sweep.rows[v].disputeSent = tracked[v].disputeSent

SweepSound ==
    /\ \A v \in sweep.left : v < nextVaultId
    /\ sweep.vault # 0 => sweep.vault \in sweep.left
    /\ sweep.step = "read" => sweep.seen # "UNTRACKED"
    /\ sweep.step \in {"sync", "read"} /\ poll.step # "down" =>
          \A v \in sweep.left : tracked[v].state = "UNTRACKED"
    /\ sweep.step \in {"work", "announced", "sent"} => \A v \in sweep.left : SameRow(v)
    /\ sweep.step = "announced" => /\ sweep.rows[sweep.vault].state = "DISPUTE_WINDOW"
                                   /\ sweep.vault \in told
    /\ sweep.step = "sent" => IsDue(sweep.rows[sweep.vault], sweep.at)

\* The polled vaults wait for their quorum until the result is recorded.
PollSound ==
    /\ poll.step \in {"down", "idle"} => poll.left = {}
    /\ poll.step \in {"met", "sent", "recorded"} => poll.vault \in poll.left
    /\ \A v \in poll.left :
          \/ tracked[v].state = "QUORUM_PENDING"
          \/ poll.step = "recorded" /\ v = poll.vault /\ tracked[v].state # "UNTRACKED"

LoopsInv == RelayerTypeOK /\ RowsSound /\ SweepSound /\ PollSound

\* A fresh row.
LEMMA FreshRowTyped ==
    ASSUME NEW s \in VaultState \cup {"UNTRACKED"}, NEW d \in Nat
    PROVE  /\ FreshRow(s, d) \in Row
           /\ FreshRow(s, d).state = s
           /\ FreshRow(s, d).deadline = d
           /\ FreshRow(s, d).disputeSent = FALSE
BY DEF FreshRow, Row

\* No row at all.
LEMMA NoRowTyped ==
    /\ NoRow \in Row /\ NoRow.state = "UNTRACKED" /\ NoRow.disputeSent = FALSE
    /\ NoRows \in [VaultId -> Row]
BY FreshRowTyped DEF NoRow, NoRows

\* Setting a flag of a row changes nothing else in it.
LEMMA FlagTyped ==
    ASSUME NEW row \in Row
    PROVE  /\ [row EXCEPT !.reminderSent = TRUE] \in Row
           /\ [row EXCEPT !.reminderSent = TRUE].state = row.state
           /\ [row EXCEPT !.reminderSent = TRUE].deadline = row.deadline
           /\ [row EXCEPT !.reminderSent = TRUE].disputeSent = row.disputeSent
           /\ [row EXCEPT !.disputeSent = TRUE] \in Row
           /\ [row EXCEPT !.disputeSent = TRUE].state = row.state
           /\ [row EXCEPT !.disputeSent = TRUE].deadline = row.deadline
           /\ [row EXCEPT !.disputeSent = TRUE].disputeSent = TRUE
           /\ [row EXCEPT !.quorumRelayed = TRUE] \in Row
           /\ [row EXCEPT !.quorumRelayed = TRUE].state = row.state
           /\ [row EXCEPT !.quorumRelayed = TRUE].deadline = row.deadline
           /\ [row EXCEPT !.quorumRelayed = TRUE].disputeSent = row.disputeSent
BY DEF Row

\* Writing one row leaves the others.
LEMMA RowWritten ==
    ASSUME tracked \in [VaultId -> Row], NEW v \in VaultId, NEW r \in Row,
           tracked' = [tracked EXCEPT ![v] = r]
    PROVE  /\ tracked' \in [VaultId -> Row]
           /\ tracked'[v] = r
           /\ \A w \in VaultId \ {v} : tracked'[w] = tracked[w]
OBVIOUS

\* At the start there are no rows and nothing is in hand.
LEMMA LoopsInitHolds == RelayInit => LoopsInv
<1> SUFFICES ASSUME RelayInit PROVE LoopsInv
  OBVIOUS
<1>1. RelayerTypeOK
  BY NoRowTyped, RelayerAssumption
  DEF RelayInit, RelayerTypeOK, SweepType, PollType, Sweeping, Polling
<1>2. RowsSound
  BY NoRowTyped DEF RelayInit, RowsSound, NoRows
<1>3. SweepSound /\ PollSound
  BY DEF RelayInit, SweepSound, PollSound, Sweeping, Polling
<1>4. QED
  BY <1>1, <1>2, <1>3 DEF LoopsInv

\* The two loops' records.
LEMMA SweepingTyped ==
    ASSUME NEW step \in {"down", "sync", "read", "idle", "work", "announced", "sent"},
           NEW left \in SUBSET VaultId, NEW vault \in VaultId \cup {0},
           NEW seen \in (VaultState \ Terminal) \cup {"UNTRACKED"},
           NEW rows \in [VaultId -> Row], NEW at \in Nat
    PROVE  /\ Sweeping(step, left, vault, seen, rows, at) \in SweepType
           /\ Sweeping(step, left, vault, seen, rows, at).step = step
           /\ Sweeping(step, left, vault, seen, rows, at).left = left
           /\ Sweeping(step, left, vault, seen, rows, at).vault = vault
           /\ Sweeping(step, left, vault, seen, rows, at).seen = seen
           /\ Sweeping(step, left, vault, seen, rows, at).rows = rows
           /\ Sweeping(step, left, vault, seen, rows, at).at = at
BY DEF Sweeping, SweepType

LEMMA PollingTyped ==
    ASSUME NEW step \in {"down", "idle", "ask", "met", "sent", "recorded"},
           NEW left \in SUBSET VaultId, NEW vault \in VaultId \cup {0}, NEW at \in Nat
    PROVE  /\ Polling(step, left, vault, at) \in PollType
           /\ Polling(step, left, vault, at).step = step
           /\ Polling(step, left, vault, at).left = left
           /\ Polling(step, left, vault, at).vault = vault
           /\ Polling(step, left, vault, at).at = at
BY DEF Polling, PollType

\* The ids the service walks through when it starts.
LEMMA BornIds ==
    ASSUME IInv
    PROVE  /\ 1..(nextVaultId - 1) \subseteq VaultId
           /\ \A v \in 1..(nextVaultId - 1) : v < nextVaultId
           /\ VaultId \subseteq Nat /\ 0 \notin VaultId
           /\ now \in Nat
BY RegistryAssumption DEF IInv, TypeOK, VaultId

\* The service starts: every vault is to be synced.
LEMMA BootHolds ==
    ASSUME IInv, LoopsInv, Boot
    PROVE  LoopsInv'
<1>1. UNCHANGED <<vars, tracked, poll, mempool, quorumMet, crashes, told, revivals, disruptions>>
  BY DEF Boot
<1>2. /\ sweep' \in SweepType /\ sweep'.step = "sync" /\ sweep'.vault = 0
      /\ sweep'.left = 1..(nextVaultId - 1)
  <2> DEFINE ids == 1..(nextVaultId - 1)
  <2>1. sweep' = Sweeping("sync", ids, 0, "UNTRACKED", NoRows, 0)
    BY DEF Boot
  <2>2. ids \in SUBSET VaultId
    BY BornIds
  <2> HIDE DEF ids
  <2>3. /\ sweep' \in SweepType /\ sweep'.step = "sync" /\ sweep'.vault = 0
        /\ sweep'.left = ids
    BY <2>1, <2>2, SweepingTyped, NoRowTyped
  <2>4. QED
    BY <2>3 DEF ids
<1>3. poll.step = "down"
  BY DEF Boot, LoopsInv, RelayerTypeOK
<1>4. RelayerTypeOK'
  BY <1>1, <1>2, <1>3 DEF LoopsInv, RelayerTypeOK
<1>5. RowsSound' /\ PollSound'
  BY <1>1 DEF LoopsInv, RowsSound, PollSound, vars
<1>6. SweepSound'
  BY <1>1, <1>2, <1>3, BornIds DEF SweepSound, vars
<1>7. QED
  BY <1>4, <1>5, <1>6 DEF LoopsInv

\* Where only the sweep moves, only what it has in hand needs to be looked at.
LEMMA SweepMoves ==
    ASSUME LoopsInv, SweepSound', sweep' \in SweepType,
           sweep'.step = "down" => poll.step = "down",
           (sweep'.step \in {"read", "announced", "sent"}) <=> (sweep'.vault # 0),
           UNCHANGED <<vars, tracked, poll, quorumMet, crashes, revivals>>,
           mempool' \in Seq(Tx), told' \subseteq VaultId, told \subseteq told',
           {disruptions', crashes + disruptions'} \subseteq 0..MaxTroubles
    PROVE  LoopsInv'
<1>1. RelayerTypeOK'
  BY DEF LoopsInv, RelayerTypeOK
<1>2. RowsSound' /\ PollSound'
  BY DEF LoopsInv, RowsSound, PollSound, vars
<1>3. QED
  BY <1>1, <1>2 DEF LoopsInv

\* A failed call is counted within the bound.
LEMMA DisruptTyped ==
    ASSUME RelayerTypeOK, Disrupt
    PROVE  {disruptions', crashes + disruptions'} \subseteq 0..MaxTroubles
BY RelayerAssumption DEF RelayerTypeOK, Disrupt

\* The state of one vault is read.
LEMMA SyncStateHolds ==
    ASSUME IInv, LoopsInv, NEW v \in VaultId, SyncState(v)
    PROVE  LoopsInv'
<1>1. /\ UNCHANGED <<vars, tracked, poll, mempool, quorumMet, crashes, told, revivals,
                     disruptions>>
      /\ sweep.step = "sync" /\ v \in sweep.left
  BY DEF SyncState
<1>2. /\ sweep \in SweepType /\ sweep.vault = 0 /\ vaults[v].state \in VaultState
      /\ 0 \notin VaultId
  BY <1>1, BornIds, TimingNat DEF LoopsInv, RelayerTypeOK, IInv
<1>3. CASE vaults[v].state \in Terminal
  <2>1. sweep' = [sweep EXCEPT !.left = sweep.left \ {v}]
    BY <1>3 DEF SyncState
  <2>2. /\ sweep' \in SweepType /\ sweep'.step = "sync" /\ sweep'.vault = 0
        /\ sweep'.left \subseteq sweep.left
    BY <1>1, <1>2, <2>1 DEF SweepType
  <2>3. SweepSound'
    BY <1>1, <2>2 DEF LoopsInv, SweepSound, vars
  <2>4. QED
    BY <1>1, <2>2, <2>3, SweepMoves DEF LoopsInv, RelayerTypeOK
<1>4. CASE vaults[v].state \notin Terminal
  <2>1. sweep' = [sweep EXCEPT !.step = "read", !.vault = v, !.seen = vaults[v].state]
    BY <1>4 DEF SyncState
  <2>2. /\ sweep' \in SweepType /\ sweep'.step = "read" /\ sweep'.vault = v
        /\ sweep'.left = sweep.left /\ sweep'.seen = vaults[v].state
    BY <1>2, <1>4, <2>1 DEF SweepType
  <2>3. vaults[v].state # "UNTRACKED"
    BY <1>2 DEF VaultState
  <2>4. SweepSound'
    BY <1>1, <2>2, <2>3 DEF LoopsInv, SweepSound, vars
  <2>5. QED
    BY <1>1, <1>2, <2>2, <2>4, SweepMoves DEF LoopsInv, RelayerTypeOK
<1>5. QED
  BY <1>3, <1>4

\* The row is written, and no notice was sent for it.
LEMMA SyncTimingHolds ==
    ASSUME IInv, LoopsInv, SyncTiming
    PROVE  LoopsInv'
<1>1. /\ UNCHANGED <<vars, poll, mempool, quorumMet, crashes, revivals, disruptions>>
      /\ sweep.step = "read" /\ sweep \in SweepType /\ poll \in PollType
      /\ tracked \in [VaultId -> Row]
  BY DEF SyncTiming, LoopsInv, RelayerTypeOK
<1>2. PICK v \in VaultId : v = sweep.vault /\ v \in sweep.left
  BY <1>1, BornIds DEF LoopsInv, RelayerTypeOK, SweepSound, SweepType
<1> DEFINE r == FreshRow(sweep.seen, vaults[v].windowDeadline)
<1>3. /\ r \in Row /\ r.state = sweep.seen /\ r.disputeSent = FALSE
      /\ r.state # "UNTRACKED"
  <2>1. sweep.seen \in VaultState \ Terminal
    <3>1. sweep.seen \in (VaultState \ Terminal) \cup {"UNTRACKED"}
      BY <1>1 DEF SweepType
    <3>2. sweep.seen # "UNTRACKED"
      BY <1>1 DEF LoopsInv, SweepSound
    <3>3. QED
      BY <3>1, <3>2
  <2>2. vaults[v].windowDeadline \in Nat
    BY TimingNat DEF IInv
  <2>3. r \in Row /\ r.state = sweep.seen /\ r.disputeSent = FALSE
    BY <2>1, <2>2, FreshRowTyped
  <2>4. QED
    BY <1>1, <2>3 DEF LoopsInv, SweepSound
<1>4. /\ tracked' = [tracked EXCEPT ![v] = r]
      /\ told' = told \ {v}
      /\ sweep' = Sweeping("sync", sweep.left \ {v}, 0, "UNTRACKED", NoRows, sweep.at)
  BY <1>2 DEF SyncTiming
<1> HIDE DEF r
<1>5. /\ tracked' \in [VaultId -> Row] /\ tracked'[v] = r
      /\ \A w \in VaultId \ {v} : tracked'[w] = tracked[w]
  BY <1>1, <1>3, <1>4, RowWritten
<1>6. sweep.left \ {v} \in SUBSET VaultId /\ sweep.at \in Nat
  BY <1>1 DEF SweepType
<1>7. /\ sweep' \in SweepType /\ sweep'.step = "sync" /\ sweep'.vault = 0
      /\ sweep'.left = sweep.left \ {v}
  BY <1>4, <1>6, SweepingTyped, NoRowTyped
<1>8. RelayerTypeOK'
  BY <1>1, <1>4, <1>5, <1>7 DEF LoopsInv, RelayerTypeOK
<1>9. v < nextVaultId
  BY <1>2 DEF LoopsInv, SweepSound
<1>10. RowsSound'
  BY <1>1, <1>3, <1>4, <1>5, <1>9 DEF LoopsInv, RowsSound, vars
<1>11. SweepSound'
  BY <1>1, <1>5, <1>6, <1>7 DEF LoopsInv, SweepSound, vars
<1>12. PollSound'
  <2>1. v \notin poll.left
    BY <1>1, <1>2 DEF LoopsInv, SweepSound, PollSound
  <2>2. poll.left \in SUBSET VaultId
    BY <1>1 DEF PollType
  <2>3. QED
    BY <1>1, <1>5, <2>1, <2>2 DEF LoopsInv, PollSound
<1>13. QED
  BY <1>8, <1>10, <1>11, <1>12 DEF LoopsInv

\* A sync that fails leaves its vault out.
LEMMA SyncFailsHolds ==
    ASSUME IInv, LoopsInv, SyncFails
    PROVE  LoopsInv'
<1>1. /\ UNCHANGED <<vars, tracked, poll, mempool, quorumMet, crashes, told, revivals>>
      /\ sweep \in SweepType /\ sweep.step \in {"sync", "read"}
      /\ {disruptions', crashes + disruptions'} \subseteq 0..MaxTroubles
  BY DisruptTyped DEF SyncFails, LoopsInv, RelayerTypeOK
<1>2. PICK v \in sweep.left :
          \/ sweep.step = "sync" /\ sweep' = [sweep EXCEPT !.left = sweep.left \ {v}]
          \/ sweep' = Sweeping("sync", sweep.left \ {v}, 0, "UNTRACKED", NoRows, sweep.at)
  BY DEF SyncFails
<1>3. sweep.left \ {v} \in SUBSET VaultId /\ sweep.at \in Nat
  BY <1>1 DEF SweepType
<1>4. CASE sweep' = Sweeping("sync", sweep.left \ {v}, 0, "UNTRACKED", NoRows, sweep.at)
  <2>1. /\ sweep' \in SweepType /\ sweep'.step = "sync" /\ sweep'.vault = 0
        /\ sweep'.left \subseteq sweep.left
    BY <1>3, <1>4, SweepingTyped, NoRowTyped
  <2>2. SweepSound'
    BY <1>1, <2>1 DEF LoopsInv, SweepSound, vars
  <2>3. QED
    BY <1>1, <2>1, <2>2, SweepMoves DEF LoopsInv, RelayerTypeOK
<1>5. CASE /\ sweep.step = "sync"
           /\ sweep' = [sweep EXCEPT !.left = sweep.left \ {v}]
  <2>1. sweep.vault = 0
    BY <1>5 DEF LoopsInv, RelayerTypeOK
  <2>2. /\ sweep' \in SweepType /\ sweep'.step = "sync" /\ sweep'.vault = 0
        /\ sweep'.left \subseteq sweep.left
    BY <1>1, <1>5, <2>1 DEF SweepType
  <2>3. SweepSound'
    BY <1>1, <2>2 DEF LoopsInv, SweepSound, vars
  <2>4. QED
    BY <1>1, <2>2, <2>3, SweepMoves DEF LoopsInv, RelayerTypeOK
<1>6. QED
  BY <1>2, <1>4, <1>5

\* The loops start with nothing in hand.
LEMMA LoopsStartHolds ==
    ASSUME LoopsInv, LoopsStart
    PROVE  LoopsInv'
<1>1. UNCHANGED <<vars, tracked, mempool, quorumMet, crashes, told, revivals, disruptions>>
  BY DEF LoopsStart
<1>2. /\ sweep' \in SweepType /\ sweep'.step = "idle" /\ sweep'.vault = 0
      /\ sweep'.left = {}
  BY SweepingTyped, NoRowTyped DEF LoopsStart, Idle
<1>3. /\ poll' \in PollType /\ poll'.step = "idle" /\ poll'.left = {}
  BY PollingTyped DEF LoopsStart
<1>4. RelayerTypeOK' /\ RowsSound'
  BY <1>1, <1>2, <1>3 DEF LoopsInv, RelayerTypeOK, RowsSound, vars
<1>5. SweepSound' /\ PollSound'
  BY <1>2, <1>3 DEF SweepSound, PollSound
<1>6. QED
  BY <1>4, <1>5 DEF LoopsInv

\* What a sweep has read is what the table says.
LEMMA RowsReadSound ==
    ASSUME IInv, LoopsInv, sweep' = RowsRead,
           UNCHANGED <<vars, tracked, poll, mempool, quorumMet, crashes, told, revivals,
                       disruptions>>
    PROVE  LoopsInv'
<1>1. now \in Nat /\ tracked \in [VaultId -> Row]
  BY BornIds DEF LoopsInv, RelayerTypeOK
<1>2. CASE Concerning(now) = {}
  <2>1. /\ sweep' \in SweepType /\ sweep'.step = "idle" /\ sweep'.vault = 0
        /\ sweep'.left = {}
    BY <1>1, <1>2, SweepingTyped, NoRowTyped DEF RowsRead, Idle
  <2>2. SweepSound'
    BY <2>1 DEF SweepSound
  <2>3. QED
    BY <2>1, <2>2, SweepMoves DEF LoopsInv, RelayerTypeOK
<1>3. CASE Concerning(now) # {}
  <2> DEFINE left == Concerning(now)
             rows == [v \in VaultId |-> IF v \in left THEN tracked[v] ELSE NoRow]
  <2>1. sweep' = Sweeping("work", left, 0, "UNTRACKED", rows, now)
    BY <1>3 DEF RowsRead
  <2>2. left \in SUBSET VaultId /\ rows \in [VaultId -> Row]
    BY <1>1, NoRowTyped DEF Concerning, ActiveRows
  <2>3. \A v \in left : tracked[v].state \in Timed
    BY DEF Concerning, NeedsReminder, NeedsNotice, IsDue, Timed
  <2>4. \A v \in left : rows[v] = tracked[v]
    BY <2>2
  <2> HIDE DEF left, rows
  <2>5. /\ sweep' \in SweepType /\ sweep'.step = "work" /\ sweep'.vault = 0
        /\ sweep'.left = left /\ sweep'.rows = rows
    BY <1>1, <2>1, <2>2, SweepingTyped
  <2>6. SweepSound'
    <3>1. \A v \in left : v < nextVaultId
      BY <2>2, <2>3 DEF LoopsInv, RowsSound, Timed
    <3>2. \A v \in left : SameRow(v)'
      BY <2>3, <2>4, <2>5 DEF SameRow
    <3>3. QED
      BY <2>5, <3>1, <3>2 DEF SweepSound, vars
  <2>7. QED
    BY <2>5, <2>6, SweepMoves DEF LoopsInv, RelayerTypeOK
<1>4. QED
  BY <1>2, <1>3

\* A sweep starts, with the vaults that have no row yet.
LEMMA SweepStartHolds ==
    ASSUME IInv, LoopsInv, SweepStart \/ SweepRows
    PROVE  LoopsInv'
<1>1. UNCHANGED <<vars, tracked, poll, mempool, quorumMet, crashes, told, revivals, disruptions>>
  BY DEF SweepStart, SweepRows
<1>2. CASE sweep' = RowsRead
  BY <1>1, <1>2, RowsReadSound
<1>3. CASE sweep' # RowsRead
  <2> DEFINE left == {v \in 1..(nextVaultId - 1) : tracked[v] = NoRow}
  <2>1. sweep' = Sweeping("sync", left, 0, "UNTRACKED", NoRows, sweep.at)
    BY <1>3 DEF SweepStart, SweepRows
  <2>2. left \in SUBSET VaultId /\ \A v \in left : v < nextVaultId
    BY BornIds
  <2>3. \A v \in left : tracked[v].state = "UNTRACKED"
    BY NoRowTyped
  <2>4. sweep.at \in Nat
    BY DEF LoopsInv, RelayerTypeOK, SweepType
  <2> HIDE DEF left
  <2>5. /\ sweep' \in SweepType /\ sweep'.step = "sync" /\ sweep'.vault = 0
        /\ sweep'.left = left
    BY <2>1, <2>2, <2>4, SweepingTyped, NoRowTyped
  <2>6. SweepSound'
    BY <1>1, <2>2, <2>3, <2>5 DEF SweepSound, vars
  <2>7. QED
    BY <1>1, <2>5, <2>6, SweepMoves DEF LoopsInv, RelayerTypeOK
<1>4. QED
  BY <1>2, <1>3

\* A written row that keeps its state disturbs nothing the other loop relies on.
LEMMA RowKept ==
    ASSUME LoopsInv, UNCHANGED <<vars, poll>>, NEW v \in VaultId,
           tracked[v].state # "UNTRACKED",
           tracked'[v].state = tracked[v].state,
           tracked'[v].disputeSent => v \in told',
           \A w \in VaultId \ {v} : tracked'[w] = tracked[w],
           told \subseteq told'
    PROVE  RowsSound' /\ PollSound'
<1>1. RowsSound'
  BY DEF LoopsInv, RowsSound, vars
<1>2. PollSound'
  <2>1. \A w \in VaultId : tracked'[w].state = tracked[w].state
    OBVIOUS
  <2>2. poll.left \in SUBSET VaultId
    BY DEF LoopsInv, RelayerTypeOK, PollType
  <2>3. QED
    BY <2>1, <2>2 DEF LoopsInv, PollSound
<1>3. QED
  BY <1>1, <1>2

\* A reminder marks one row and takes it off the list.
LEMMA RemindOwnerHolds ==
    ASSUME IInv, LoopsInv, NEW v \in VaultId, RemindOwner(v)
    PROVE  LoopsInv'
<1>1. /\ UNCHANGED <<vars, poll, mempool, quorumMet, crashes, told, revivals, disruptions>>
      /\ sweep.step = "work" /\ v \in sweep.left /\ sweep \in SweepType
      /\ tracked \in [VaultId -> Row]
  BY DEF RemindOwner, LoopsInv, RelayerTypeOK
<1> DEFINE r == [tracked[v] EXCEPT !.reminderSent = TRUE]
<1>2. /\ r \in Row /\ r.state = tracked[v].state /\ r.disputeSent = tracked[v].disputeSent
  BY <1>1, FlagTyped
<1>3. /\ tracked' = [tracked EXCEPT ![v] = r]
      /\ sweep' = [sweep EXCEPT !.left = sweep.left \ {v}]
  BY DEF RemindOwner
<1> HIDE DEF r
<1>4. /\ tracked' \in [VaultId -> Row] /\ tracked'[v] = r
      /\ \A w \in VaultId \ {v} : tracked'[w] = tracked[w]
  BY <1>1, <1>2, <1>3, RowWritten
<1>5. /\ sweep' \in SweepType /\ sweep'.step = "work" /\ sweep'.vault = sweep.vault
      /\ sweep'.left = sweep.left \ {v} /\ sweep'.rows = sweep.rows
  BY <1>1, <1>3 DEF SweepType
<1>6. tracked[v].state # "UNTRACKED" /\ (tracked[v].disputeSent => v \in told)
  BY <1>1 DEF LoopsInv, SweepSound, SameRow, RowsSound, Timed
<1>7. RowsSound' /\ PollSound'
  BY <1>1, <1>2, <1>4, <1>6, RowKept
<1>8. SweepSound'
  <2>1. \A w \in sweep.left \ {v} : SameRow(w)'
    BY <1>1, <1>4, <1>5 DEF LoopsInv, SweepSound, SameRow, SweepType
  <2>2. sweep.vault = 0
    BY <1>1 DEF LoopsInv, RelayerTypeOK
  <2>3. QED
    BY <1>1, <1>5, <2>1, <2>2 DEF LoopsInv, SweepSound, vars
<1>9. RelayerTypeOK'
  BY <1>1, <1>4, <1>5 DEF LoopsInv, RelayerTypeOK
<1>10. QED
  BY <1>7, <1>8, <1>9 DEF LoopsInv

\* A notice is sent for a row in its dispute window.
LEMMA AnnounceHolds ==
    ASSUME IInv, LoopsInv, NEW v \in VaultId, AnnounceDispute(v)
    PROVE  LoopsInv'
<1>1. /\ UNCHANGED <<vars, tracked, poll, mempool, quorumMet, crashes, revivals, disruptions>>
      /\ sweep.step = "work" /\ v \in sweep.left /\ sweep \in SweepType
      /\ sweep.rows[v].state = "DISPUTE_WINDOW"
      /\ told' = told \cup {v} /\ told \subseteq VaultId
      /\ sweep' = [sweep EXCEPT !.step = "announced", !.vault = v]
  BY DEF AnnounceDispute, LoopsInv, RelayerTypeOK, NeedsNotice
<1>2. /\ sweep' \in SweepType /\ sweep'.step = "announced" /\ sweep'.vault = v
      /\ sweep'.left = sweep.left /\ sweep'.rows = sweep.rows
  BY <1>1 DEF SweepType
<1>3. SweepSound'
  BY <1>1, <1>2 DEF LoopsInv, SweepSound, SameRow, vars
<1>4. v # 0
  BY BornIds
<1>5. QED
  BY <1>1, <1>2, <1>3, <1>4, SweepMoves DEF LoopsInv, RelayerTypeOK

\* The notice is recorded in the table and in the sweep's own row.
LEMMA RecordDisputeHolds ==
    ASSUME IInv, LoopsInv, RecordDispute
    PROVE  LoopsInv'
<1>1. /\ UNCHANGED <<vars, poll, mempool, quorumMet, crashes, told, revivals, disruptions>>
      /\ sweep.step = "announced" /\ sweep \in SweepType
      /\ tracked \in [VaultId -> Row]
  BY DEF RecordDispute, LoopsInv, RelayerTypeOK
<1>2. PICK v \in VaultId : v = sweep.vault /\ v \in sweep.left /\ v \in told
  BY <1>1 DEF LoopsInv, RelayerTypeOK, SweepSound, SweepType
<1> DEFINE r == [tracked[v] EXCEPT !.disputeSent = TRUE]
           q == [sweep.rows[v] EXCEPT !.disputeSent = TRUE]
<1>3. /\ r \in Row /\ r.state = tracked[v].state /\ r.deadline = tracked[v].deadline
      /\ r.disputeSent = TRUE
  BY <1>1, FlagTyped
<1>4. /\ q \in Row /\ q.state = sweep.rows[v].state
      /\ q.deadline = sweep.rows[v].deadline /\ q.disputeSent = TRUE
  <2>1. sweep.rows[v] \in Row
    BY <1>1 DEF SweepType
  <2>2. QED
    BY <2>1, FlagTyped
<1>5. PICK rows : rows = [sweep.rows EXCEPT ![v] = q]
  OBVIOUS
<1>6. PICK left \in {sweep.left, sweep.left \ {v}} :
          sweep' = Sweeping("work", left, 0, "UNTRACKED", rows, sweep.at)
  BY <1>2, <1>5 DEF RecordDispute
<1>7. tracked' = [tracked EXCEPT ![v] = r]
  BY <1>2 DEF RecordDispute
<1> HIDE DEF r, q
<1>8. /\ tracked' \in [VaultId -> Row] /\ tracked'[v] = r
      /\ \A w \in VaultId \ {v} : tracked'[w] = tracked[w]
  BY <1>1, <1>3, <1>7, RowWritten
<1>9. /\ rows \in [VaultId -> Row] /\ rows[v] = q
      /\ \A w \in VaultId \ {v} : rows[w] = sweep.rows[w]
  BY <1>1, <1>4, <1>5 DEF SweepType
<1>10. left \in SUBSET VaultId /\ left \subseteq sweep.left /\ sweep.at \in Nat
  BY <1>1, <1>6 DEF SweepType
<1>11. /\ sweep' \in SweepType /\ sweep'.step = "work" /\ sweep'.vault = 0
       /\ sweep'.left = left /\ sweep'.rows = rows
  BY <1>6, <1>9, <1>10, SweepingTyped
<1>12. SameRow(v)
  BY <1>1, <1>2 DEF LoopsInv, SweepSound
<1>13. RowsSound' /\ PollSound'
  BY <1>1, <1>2, <1>3, <1>8, <1>12, RowKept DEF SameRow, Timed
<1>14. SweepSound'
  <2>1. ASSUME NEW w \in left PROVE SameRow(w)'
    <3>1. w \in VaultId /\ SameRow(w)
      BY <1>1, <1>10 DEF LoopsInv, SweepSound
    <3>2. QED
      BY <1>3, <1>4, <1>8, <1>9, <1>11, <3>1 DEF SameRow
  <2>2. QED
    BY <1>1, <1>10, <1>11, <2>1 DEF LoopsInv, SweepSound, vars
<1>15. RelayerTypeOK'
  BY <1>1, <1>8, <1>11 DEF LoopsInv, RelayerTypeOK
<1>16. QED
  BY <1>13, <1>14, <1>15 DEF LoopsInv

\* What is sent is one of the five calls, for a row that is due.
LEMMA SendDueHolds ==
    ASSUME IInv, LoopsInv, NEW v \in VaultId, SendDue(v)
    PROVE  LoopsInv'
<1>1. /\ UNCHANGED <<vars, tracked, poll, quorumMet, crashes, told, revivals, disruptions>>
      /\ sweep.step = "work" /\ v \in sweep.left /\ sweep \in SweepType
      /\ IsDue(sweep.rows[v], sweep.at)
      /\ sweep' = [sweep EXCEPT !.step = "sent", !.vault = v]
      /\ mempool' = Append(mempool, [kind |-> TxFor[sweep.rows[v].state], vault |-> v])
      /\ mempool \in Seq(Tx)
  BY DEF SendDue, Send, LoopsInv, RelayerTypeOK
<1>2. /\ sweep' \in SweepType /\ sweep'.step = "sent" /\ sweep'.vault = v
      /\ sweep'.left = sweep.left /\ sweep'.rows = sweep.rows /\ sweep'.at = sweep.at
  BY <1>1 DEF SweepType
<1>3. SweepSound'
  BY <1>1, <1>2 DEF LoopsInv, SweepSound, SameRow, IsDue, vars
<1>4. v # 0
  BY BornIds
<1>5. mempool' \in Seq(Tx)
  <2>1. TxFor[sweep.rows[v].state] \in {"markWarning", "requestAttestation",
              "submitQuorumResult", "finalizeDisputeWindow", "finalizeFinalWindow"}
    BY <1>1 DEF IsDue, TxFor
  <2>2. [kind |-> TxFor[sweep.rows[v].state], vault |-> v] \in Tx
    BY <2>1 DEF Tx
  <2>3. QED
    BY <1>1, <2>2, AppendProperties
<1>6. QED
  BY <1>1, <1>2, <1>3, <1>4, <1>5, SweepMoves DEF LoopsInv, RelayerTypeOK

\* A call that fails, or a pass that is over, takes vaults off the list.
LEMMA SendFailsHolds ==
    ASSUME IInv, LoopsInv, NEW v \in VaultId, SendDueFails(v)
    PROVE  LoopsInv'
<1>1. /\ UNCHANGED <<vars, tracked, poll, mempool, quorumMet, crashes, told, revivals>>
      /\ sweep.step = "work" /\ sweep \in SweepType
      /\ sweep' = [sweep EXCEPT !.left = sweep.left \ {v}]
      /\ {disruptions', crashes + disruptions'} \subseteq 0..MaxTroubles
  BY DisruptTyped DEF SendDueFails, LoopsInv, RelayerTypeOK
<1>2. /\ sweep' \in SweepType /\ sweep'.step = "work" /\ sweep'.vault = sweep.vault
      /\ sweep'.left \subseteq sweep.left /\ sweep'.rows = sweep.rows
  BY <1>1 DEF SweepType
<1>3. sweep.vault = 0
  BY <1>1 DEF LoopsInv, RelayerTypeOK
<1>4. SweepSound'
  BY <1>1, <1>2, <1>3 DEF LoopsInv, SweepSound, SameRow, vars
<1>5. QED
  BY <1>1, <1>2, <1>3, <1>4, SweepMoves DEF LoopsInv, RelayerTypeOK

LEMMA SweepEndHolds ==
    ASSUME IInv, LoopsInv, SweepEnd
    PROVE  LoopsInv'
<1>1. UNCHANGED <<vars, tracked, poll, mempool, quorumMet, crashes, told, revivals,
                  disruptions>>
  BY DEF SweepEnd
<1>2. sweep.at \in Nat
  BY DEF LoopsInv, RelayerTypeOK, SweepType
<1>3. /\ sweep' \in SweepType /\ sweep'.step = "idle" /\ sweep'.vault = 0
      /\ sweep'.left = {}
  BY <1>2, SweepingTyped, NoRowTyped DEF SweepEnd, Idle
<1>4. SweepSound'
  BY <1>3 DEF SweepSound
<1>5. QED
  BY <1>1, <1>3, <1>4, SweepMoves DEF LoopsInv, RelayerTypeOK

\* The row a sent transaction leaves: the next state, with no notice sent for it.
LEMMA RowAfterTyped ==
    ASSUME IInv, NEW row \in Row, row.state \in Timed, NEW v \in VaultId, NEW at \in Nat
    PROVE  /\ RowAfter(row, vaults[v].timing, at) \in Row
           /\ RowAfter(row, vaults[v].timing, at).state = StateAfter[row.state]
           /\ RowAfter(row, vaults[v].timing, at).disputeSent = FALSE
           /\ StateAfter[row.state] \in VaultState
           /\ StateAfter[row.state] # "UNTRACKED"
           /\ Rank[StateAfter[row.state]] = Rank[row.state] + 1
<1>1. /\ at + vaults[v].timing.graceWindow \in Nat
      /\ at + vaults[v].timing.finalWindow \in Nat
      /\ 0 \in Nat
  BY TimingNat DEF IInv
<1>2. /\ StateAfter[row.state] \in VaultState /\ StateAfter[row.state] # "UNTRACKED"
      /\ Rank[StateAfter[row.state]] = Rank[row.state] + 1
  BY RankOrder DEF Timed, StateAfter, VaultState
<1>3. \E d \in Nat :
          RowAfter(row, vaults[v].timing, at) = FreshRow(StateAfter[row.state], d)
  <2>1. CASE row.state = "ACTIVE"
    BY <1>1, <2>1 DEF RowAfter
  <2>2. CASE row.state = "DISPUTE_WINDOW"
    BY <1>1, <2>2 DEF RowAfter
  <2>3. CASE row.state \notin {"ACTIVE", "DISPUTE_WINDOW"}
    BY <1>1, <2>3 DEF RowAfter
  <2>4. QED
    BY <2>1, <2>2, <2>3
<1>4. PICK d \in Nat :
          RowAfter(row, vaults[v].timing, at) = FreshRow(StateAfter[row.state], d)
  BY <1>3
<1>5. PICK s \in VaultState : s = StateAfter[row.state]
  BY <1>2
<1>6. /\ FreshRow(s, d) \in Row /\ FreshRow(s, d).state = s
      /\ FreshRow(s, d).disputeSent = FALSE
  BY FreshRowTyped
<1>7. QED
  BY <1>2, <1>4, <1>5, <1>6

\* The row advances, and only the sweep had it in hand.
LEMMA AdvanceHolds ==
    ASSUME IInv, LoopsInv, Advance
    PROVE  LoopsInv'
<1>1. /\ UNCHANGED <<vars, poll, mempool, quorumMet, crashes, revivals, disruptions>>
      /\ sweep.step = "sent" /\ sweep \in SweepType
      /\ tracked \in [VaultId -> Row] /\ told \subseteq VaultId
  BY DEF Advance, LoopsInv, RelayerTypeOK
<1>2. PICK v \in VaultId : v = sweep.vault /\ v \in sweep.left
  BY <1>1 DEF LoopsInv, RelayerTypeOK, SweepSound, SweepType
<1>3. SameRow(v) /\ v < nextVaultId
  BY <1>1, <1>2 DEF LoopsInv, SweepSound
<1>4. sweep.left \ {v} \in SUBSET VaultId /\ sweep.at \in Nat
      /\ sweep.rows \in [VaultId -> Row] /\ sweep.rows[v] \in Row
  BY <1>1 DEF SweepType
<1> DEFINE r == RowAfter(sweep.rows[v], vaults[v].timing, sweep.at)
<1>5. /\ r \in Row /\ r.state # "UNTRACKED" /\ r.disputeSent = FALSE
  BY <1>3, <1>4, RowAfterTyped DEF SameRow
<1>6. /\ tracked' = [tracked EXCEPT ![v] = r]
      /\ told' = told \ {v}
      /\ sweep' = Sweeping("work", sweep.left \ {v}, 0, "UNTRACKED", sweep.rows, sweep.at)
  BY <1>2 DEF Advance
<1> HIDE DEF r
<1>7. /\ tracked' \in [VaultId -> Row] /\ tracked'[v] = r
      /\ \A w \in VaultId \ {v} : tracked'[w] = tracked[w]
  BY <1>1, <1>5, <1>6, RowWritten
<1>8. /\ sweep' \in SweepType /\ sweep'.step = "work" /\ sweep'.vault = 0
      /\ sweep'.left = sweep.left \ {v} /\ sweep'.rows = sweep.rows
  BY <1>4, <1>6, SweepingTyped
<1>9. RelayerTypeOK'
  BY <1>1, <1>6, <1>7, <1>8 DEF LoopsInv, RelayerTypeOK
<1>10. RowsSound'
  BY <1>1, <1>3, <1>5, <1>6, <1>7 DEF LoopsInv, RowsSound, vars
<1>11. SweepSound'
  BY <1>1, <1>4, <1>7, <1>8 DEF LoopsInv, SweepSound, SameRow, vars
<1>12. PollSound'
  <2>1. v \in poll.left => poll.step = "recorded" /\ v = poll.vault
    BY <1>3 DEF LoopsInv, PollSound, SameRow, Timed
  <2>2. poll.left \in SUBSET VaultId
    BY DEF LoopsInv, RelayerTypeOK, PollType
  <2>3. QED
    BY <1>1, <1>5, <1>7, <2>1, <2>2 DEF LoopsInv, PollSound
<1>13. QED
  BY <1>9, <1>10, <1>11, <1>12 DEF LoopsInv

\* Where only the poll moves, only what it has in hand needs to be looked at.
LEMMA PollMoves ==
    ASSUME LoopsInv, PollSound', poll' \in PollType, poll.step # "down",
           poll'.step # "down",
           UNCHANGED <<vars, tracked, sweep, quorumMet, crashes, told, revivals>>,
           mempool' \in Seq(Tx),
           {disruptions', crashes + disruptions'} \subseteq 0..MaxTroubles
    PROVE  LoopsInv'
<1>1. RelayerTypeOK'
  BY DEF LoopsInv, RelayerTypeOK
<1>2. RowsSound' /\ SweepSound'
  BY DEF LoopsInv, RowsSound, SweepSound, SameRow, vars
<1>3. QED
  BY <1>1, <1>2 DEF LoopsInv

\* The vaults that wait for a quorum are read.
LEMMA PollStartHolds ==
    ASSUME IInv, LoopsInv, PollStart
    PROVE  LoopsInv'
<1>1. /\ UNCHANGED <<vars, tracked, sweep, mempool, quorumMet, crashes, told, revivals,
                     disruptions>>
      /\ poll.step = "idle"
  BY DEF PollStart
<1>2. PICK step \in {"idle", "ask"} :
          /\ step = "idle" => Waiting = {}
          /\ poll' = Polling(step, Waiting, 0, now)
  BY DEF PollStart
<1>3. /\ Waiting \in SUBSET VaultId
      /\ \A v \in Waiting : tracked[v].state = "QUORUM_PENDING"
  BY DEF Waiting, ActiveRows
<1>4. /\ poll' \in PollType /\ poll'.step = step /\ poll'.left = Waiting
  <2> HIDE DEF Waiting
  <2>1. QED
    BY <1>2, <1>3, BornIds, PollingTyped
<1>5. PollSound'
  BY <1>1, <1>2, <1>3, <1>4 DEF PollSound
<1>6. QED
  BY <1>1, <1>4, <1>5, PollMoves DEF LoopsInv, RelayerTypeOK

\* The enclave is asked, and answers.
LEMMA PollStatusHolds ==
    ASSUME IInv, LoopsInv, NEW v \in VaultId, PollStatus(v)
    PROVE  LoopsInv'
<1>1. /\ UNCHANGED <<vars, tracked, sweep, mempool, quorumMet, crashes, told, revivals,
                     disruptions>>
      /\ poll.step = "ask" /\ v \in poll.left /\ poll \in PollType
  BY DEF PollStatus, LoopsInv, RelayerTypeOK
<1>2. CASE v \in quorumMet
  <2>1. poll' = [poll EXCEPT !.step = "met", !.vault = v]
    BY <1>2 DEF PollStatus
  <2>2. /\ poll' \in PollType /\ poll'.step = "met" /\ poll'.left = poll.left
        /\ poll'.vault = v
    BY <1>1, <2>1 DEF PollType
  <2>3. PollSound'
    BY <1>1, <2>2 DEF LoopsInv, PollSound
  <2>4. QED
    BY <1>1, <2>2, <2>3, PollMoves DEF LoopsInv, RelayerTypeOK
<1>3. CASE v \notin quorumMet
  <2>1. poll' = [poll EXCEPT !.left = poll.left \ {v}]
    BY <1>3 DEF PollStatus
  <2>2. /\ poll' \in PollType /\ poll'.step = "ask" /\ poll'.left \subseteq poll.left
    BY <1>1, <2>1 DEF PollType
  <2>3. PollSound'
    BY <1>1, <2>2 DEF LoopsInv, PollSound
  <2>4. QED
    BY <1>1, <2>2, <2>3, PollMoves DEF LoopsInv, RelayerTypeOK
<1>4. QED
  BY <1>2, <1>3

\* A vault is given up for this pass.
LEMMA PollFailsHolds ==
    ASSUME IInv, LoopsInv, NEW v \in VaultId, PollFails(v)
    PROVE  LoopsInv'
<1>1. /\ UNCHANGED <<vars, tracked, sweep, mempool, quorumMet, crashes, told, revivals>>
      /\ poll.step \in {"ask", "met"} /\ v \in poll.left /\ poll \in PollType
      /\ poll' = Polling("ask", poll.left \ {v}, 0, poll.at)
      /\ {disruptions', crashes + disruptions'} \subseteq 0..MaxTroubles
  BY DisruptTyped DEF PollFails, LoopsInv, RelayerTypeOK
<1>2. poll.left \ {v} \in SUBSET VaultId /\ poll.at \in Nat
  BY <1>1 DEF PollType
<1>3. /\ poll' \in PollType /\ poll'.step = "ask" /\ poll'.left \subseteq poll.left
  BY <1>1, <1>2, PollingTyped
<1>4. PollSound'
  BY <1>1, <1>3 DEF LoopsInv, PollSound
<1>5. QED
  BY <1>1, <1>3, <1>4, PollMoves DEF LoopsInv, RelayerTypeOK

\* A result is submitted, or a pass is over.
LEMMA SubmitOrEndHolds ==
    ASSUME IInv, LoopsInv, SubmitResult \/ PollEnd
    PROVE  LoopsInv'
<1>1. /\ UNCHANGED <<vars, tracked, sweep, quorumMet, crashes, told, revivals, disruptions>>
      /\ poll.step \in {"ask", "met"} /\ poll \in PollType
  BY DEF SubmitResult, PollEnd, LoopsInv, RelayerTypeOK
<1>2. CASE SubmitResult
  <2>1. poll.vault \in VaultId
    BY <1>1, <1>2 DEF LoopsInv, PollSound, PollType, SubmitResult
  <2>2. mempool' \in Seq(Tx)
    <3>1. [kind |-> "submitQuorumResult", vault |-> poll.vault] \in Tx
      BY <2>1 DEF Tx
    <3>2. QED
      BY <1>2, <3>1, AppendProperties DEF SubmitResult, Send, LoopsInv, RelayerTypeOK
  <2>3. /\ poll' \in PollType /\ poll'.step = "sent" /\ poll'.left = poll.left
        /\ poll'.vault = poll.vault /\ poll.step = "met"
    BY <1>1, <1>2 DEF SubmitResult, PollType
  <2>4. PollSound'
    BY <1>1, <2>3 DEF LoopsInv, PollSound
  <2>5. QED
    BY <1>1, <2>2, <2>3, <2>4, PollMoves DEF LoopsInv, RelayerTypeOK
<1>3. CASE PollEnd
  <2>1. poll.at \in Nat
    BY <1>1 DEF PollType
  <2>2. /\ poll' \in PollType /\ poll'.step = "idle" /\ poll'.left = {}
    BY <1>3, <2>1, PollingTyped DEF PollEnd
  <2>3. PollSound'
    BY <2>2 DEF PollSound
  <2>4. mempool' = mempool
    BY <1>3 DEF PollEnd
  <2>5. QED
    BY <1>1, <2>2, <2>3, <2>4, PollMoves DEF LoopsInv, RelayerTypeOK
<1>4. QED
  BY <1>2, <1>3

\* The result is recorded in a row no sweep had in hand, since it had no deadline.
LEMMA RecordRelayHolds ==
    ASSUME IInv, LoopsInv, RecordRelay
    PROVE  LoopsInv'
<1>1. /\ UNCHANGED <<vars, sweep, mempool, quorumMet, crashes, revivals, disruptions>>
      /\ poll.step = "sent" /\ poll \in PollType /\ sweep \in SweepType
      /\ tracked \in [VaultId -> Row] /\ told \subseteq VaultId
      /\ sweep.step # "down"
  BY DEF RecordRelay, LoopsInv, RelayerTypeOK
<1>2. PICK v \in VaultId : v = poll.vault /\ v \in poll.left
  BY <1>1 DEF LoopsInv, PollSound, PollType
<1>3. tracked[v].state = "QUORUM_PENDING" /\ v < nextVaultId
  BY <1>1, <1>2 DEF LoopsInv, PollSound, RowsSound
<1>4. sweep.step \in {"sync", "read", "work", "announced", "sent"} => v \notin sweep.left
  BY <1>1, <1>3 DEF LoopsInv, SweepSound, SameRow, Timed
<1> DEFINE r == FreshRow("DISPUTE_WINDOW", now + vaults[v].timing.disputeWindow)
<1>5. /\ r \in Row /\ r.state = "DISPUTE_WINDOW" /\ r.disputeSent = FALSE
  <2>1. PICK d \in Nat : d = now + vaults[v].timing.disputeWindow
    BY TimingNat DEF IInv
  <2>2. "DISPUTE_WINDOW" \in VaultState \cup {"UNTRACKED"}
    BY DEF VaultState
  <2>3. /\ FreshRow("DISPUTE_WINDOW", d) \in Row
        /\ FreshRow("DISPUTE_WINDOW", d).state = "DISPUTE_WINDOW"
        /\ FreshRow("DISPUTE_WINDOW", d).disputeSent = FALSE
    BY <2>2, FreshRowTyped
  <2>4. QED
    BY <2>1, <2>3
<1>6. /\ tracked' = [tracked EXCEPT ![v] = r]
      /\ told' = told \ {v}
      /\ poll' = [poll EXCEPT !.step = "recorded"]
  BY <1>2 DEF RecordRelay
<1> HIDE DEF r
<1>7. /\ tracked' \in [VaultId -> Row] /\ tracked'[v] = r
      /\ \A w \in VaultId \ {v} : tracked'[w] = tracked[w]
  BY <1>1, <1>5, <1>6, RowWritten
<1>8. /\ poll' \in PollType /\ poll'.step = "recorded" /\ poll'.left = poll.left
      /\ poll'.vault = v
  BY <1>1, <1>2, <1>6 DEF PollType
<1>9. RelayerTypeOK'
  BY <1>1, <1>6, <1>7, <1>8 DEF LoopsInv, RelayerTypeOK
<1>10. RowsSound'
  BY <1>1, <1>3, <1>5, <1>6, <1>7 DEF LoopsInv, RowsSound, vars
<1>11. PollSound'
  <2>1. poll.left \in SUBSET VaultId
    BY <1>1 DEF PollType
  <2>2. QED
    BY <1>1, <1>2, <1>5, <1>7, <1>8, <2>1 DEF LoopsInv, PollSound
<1>12. SweepSound'
  <2>1. sweep.left \in SUBSET VaultId
    BY <1>1 DEF SweepType
  <2>2. sweep.step \in {"work", "announced", "sent"} =>
            \A w \in sweep.left : SameRow(w)'
    BY <1>1, <1>4, <1>7, <2>1 DEF LoopsInv, SweepSound, SameRow
  <2>3. sweep.step \in {"sync", "read"} =>
            \A w \in sweep.left : tracked'[w].state = "UNTRACKED"
    BY <1>1, <1>4, <1>7, <2>1 DEF LoopsInv, SweepSound
  <2>4. sweep.step = "announced" => sweep.vault \in told'
    <3>1. sweep.step = "announced" => sweep.vault \in sweep.left /\ sweep.vault \in told
      BY DEF LoopsInv, SweepSound, RelayerTypeOK
    <3>2. QED
      BY <1>4, <1>6, <3>1
  <2>5. QED
    BY <1>1, <2>2, <2>3, <2>4 DEF LoopsInv, SweepSound, vars
<1>13. QED
  BY <1>9, <1>10, <1>11, <1>12 DEF LoopsInv

\* The poll lets go of the vault; its row keeps what the sweep may have read of it.
LEMMA FinishRelayHolds ==
    ASSUME IInv, LoopsInv, FinishRelay
    PROVE  LoopsInv'
<1>1. /\ UNCHANGED <<vars, sweep, mempool, quorumMet, crashes, revivals, disruptions>>
      /\ poll.step = "recorded" /\ poll \in PollType /\ sweep \in SweepType
      /\ tracked \in [VaultId -> Row] /\ told \subseteq VaultId
  BY DEF FinishRelay, LoopsInv, RelayerTypeOK
<1>2. PICK v \in VaultId : v = poll.vault /\ v \in poll.left
  BY <1>1 DEF LoopsInv, PollSound, PollType
<1>3. tracked[v].state # "UNTRACKED"
  BY <1>1, <1>2 DEF LoopsInv, PollSound
<1> DEFINE r == [tracked[v] EXCEPT !.quorumRelayed = TRUE]
<1>4. /\ r \in Row /\ r.state = tracked[v].state /\ r.deadline = tracked[v].deadline
      /\ r.disputeSent = tracked[v].disputeSent
  BY <1>1, FlagTyped
<1>5. /\ tracked' = [tracked EXCEPT ![v] = r]
      /\ told' = told \cup {v}
      /\ poll' = Polling("ask", poll.left \ {v}, 0, poll.at)
  BY <1>2 DEF FinishRelay
<1> HIDE DEF r
<1>6. /\ tracked' \in [VaultId -> Row] /\ tracked'[v] = r
      /\ \A w \in VaultId \ {v} : tracked'[w] = tracked[w]
  BY <1>1, <1>4, <1>5, RowWritten
<1>7. poll.left \ {v} \in SUBSET VaultId /\ poll.at \in Nat
  BY <1>1 DEF PollType
<1>8. /\ poll' \in PollType /\ poll'.step = "ask" /\ poll'.left = poll.left \ {v}
  BY <1>5, <1>7, PollingTyped
<1>9. RelayerTypeOK'
  BY <1>1, <1>5, <1>6, <1>8 DEF LoopsInv, RelayerTypeOK
<1>10. RowsSound'
  BY <1>1, <1>3, <1>4, <1>5, <1>6 DEF LoopsInv, RowsSound, vars
<1>11. PollSound'
  BY <1>1, <1>2, <1>6, <1>7, <1>8 DEF LoopsInv, PollSound
<1>12. SweepSound'
  <2>1. \A w \in VaultId : /\ tracked'[w].state = tracked[w].state
                           /\ tracked'[w].deadline = tracked[w].deadline
                           /\ tracked'[w].disputeSent = tracked[w].disputeSent
    BY <1>4, <1>6
  <2>2. sweep.left \in SUBSET VaultId
    BY <1>1 DEF SweepType
  <2>3. sweep.step \in {"work", "announced", "sent"} =>
            \A w \in sweep.left : SameRow(w)'
    BY <1>1, <2>1, <2>2 DEF LoopsInv, SweepSound, SameRow
  <2>4. QED
    BY <1>1, <1>5, <2>1, <2>2, <2>3 DEF LoopsInv, SweepSound, vars
<1>13. QED
  BY <1>9, <1>10, <1>11, <1>12 DEF LoopsInv

\* A service that stops has nothing in hand any more.
LEMMA CrashHolds ==
    ASSUME LoopsInv, Crash
    PROVE  LoopsInv'
<1>1. UNCHANGED <<vars, tracked, mempool, quorumMet, told, revivals, disruptions>>
  BY DEF Crash
<1>2. /\ sweep' \in SweepType /\ sweep'.step = "down" /\ sweep'.vault = 0
      /\ sweep'.left = {}
  BY SweepingTyped, NoRowTyped DEF Crash
<1>3. /\ poll' \in PollType /\ poll'.step = "down" /\ poll'.left = {}
  BY PollingTyped DEF Crash
<1>4. {crashes', disruptions', crashes' + disruptions'} \subseteq 0..MaxTroubles
  BY <1>1, RelayerAssumption DEF Crash, LoopsInv, RelayerTypeOK
<1>5. RelayerTypeOK'
  BY <1>1, <1>2, <1>3, <1>4 DEF LoopsInv, RelayerTypeOK
<1>6. RowsSound'
  BY <1>1 DEF LoopsInv, RowsSound, vars
<1>7. SweepSound' /\ PollSound'
  BY <1>2, <1>3 DEF SweepSound, PollSound
<1>8. QED
  BY <1>5, <1>6, <1>7 DEF LoopsInv

\* What happens around the relayer leaves its rows and loops alone.
LEMMA AroundHolds ==
    ASSUME IInv, LoopsInv, [RelayNext]_relayVars, UNCHANGED <<tracked, sweep, poll, crashes, told>>,
           RelayerTypeOK'
    PROVE  LoopsInv'
<1>1. \A v \in VaultId : v < nextVaultId => v < nextVaultId'
  BY IdsGrow DEF LoopsInv, RelayerTypeOK
<1>2. RowsSound' /\ PollSound'
  BY <1>1 DEF LoopsInv, RowsSound, PollSound
<1>3. SweepSound'
  BY <1>1 DEF LoopsInv, SweepSound, SameRow, RelayerTypeOK, SweepType
<1>4. QED
  BY <1>2, <1>3 DEF LoopsInv

\* Every step keeps table and loops in agreement.
LEMMA LoopsNext ==
    ASSUME IInv, LoopsInv, [RelayNext]_relayVars
    PROVE  LoopsInv'
<1>1. CASE Boot
  BY <1>1, BootHolds
<1>2. CASE SweepStart
  BY <1>2, SweepStartHolds
<1>3. CASE Syncing
  BY <1>3, SyncStateHolds, SyncTimingHolds, LoopsStartHolds DEF Syncing
<1>4. CASE SyncFails
  BY <1>4, SyncFailsHolds
<1>5. CASE SweepWork
  BY <1>5, SweepStartHolds, RemindOwnerHolds, AnnounceHolds, SendDueHolds,
     RecordDisputeHolds, AdvanceHolds, SweepEndHolds DEF SweepWork
<1>6. CASE \E v \in VaultId : SendDueFails(v) \/ PollFails(v)
  BY <1>6, SendFailsHolds, PollFailsHolds
<1>7. CASE PollStart \/ PollWork
  BY <1>7, PollStartHolds, PollStatusHolds, SubmitOrEndHolds, RecordRelayHolds,
     FinishRelayHolds DEF PollWork
<1>8. CASE Crash
  BY <1>8, CrashHolds
<1>9. CASE \E v \in VaultId : EnclaveAttests(v)
  <2>1. RelayerTypeOK' /\ UNCHANGED <<tracked, sweep, poll, crashes, told>>
    BY <1>9 DEF EnclaveAttests, LoopsInv, RelayerTypeOK
  <2>2. QED
    BY <2>1, AroundHolds
<1>10. CASE Mine
  <2>1. mempool' \in Seq(Tx)
    <3>1. mempool \in Seq(Tx) /\ mempool # <<>> /\ mempool' = Tail(mempool)
      BY <1>10 DEF Mine, LoopsInv, RelayerTypeOK
    <3>2. QED
      BY <3>1, HeadTailProperties
  <2>2. RelayerTypeOK' /\ UNCHANGED <<tracked, sweep, poll, crashes, told>>
    BY <1>10, <2>1 DEF Mine, LoopsInv, RelayerTypeOK
  <2>3. QED
    BY <2>2, AroundHolds
<1>11. CASE OtherTransaction
  <2>1. revivals' \in [VaultId -> 0..MaxRevivals]
    <3>1. revivals \in [VaultId -> Nat]
      BY RelayerAssumption DEF LoopsInv, RelayerTypeOK
    <3>2. revivals' \in [VaultId -> Nat] /\ \A v \in VaultId : revivals'[v] <= MaxRevivals
      BY <1>11, <3>1 DEF OtherTransaction
    <3>3. QED
      BY <3>2, RelayerAssumption
  <2>2. RelayerTypeOK' /\ UNCHANGED <<tracked, sweep, poll, crashes, told>>
    BY <1>11, <2>1 DEF OtherTransaction, LoopsInv, RelayerTypeOK
  <2>3. QED
    BY <2>2, AroundHolds
<1>12. CASE ClockTick
  <2>1. {disruptions', crashes + disruptions'} \subseteq 0..MaxTroubles
    <3>1. CASE Quiet
      BY <1>12, <3>1 DEF ClockTick, LoopsInv, RelayerTypeOK
    <3>2. CASE ~Quiet
      BY <1>12, <3>2, DisruptTyped DEF ClockTick, LoopsInv
    <3>3. QED
      BY <3>1, <3>2
  <2>2. RelayerTypeOK' /\ UNCHANGED <<tracked, sweep, poll, crashes, told>>
    BY <1>12, <2>1 DEF ClockTick, LoopsInv, RelayerTypeOK
  <2>3. QED
    BY <2>2, AroundHolds
<1>13. CASE UNCHANGED relayVars
  BY <1>13 DEF relayVars, relayerVars, vars, registryVars, LoopsInv, RelayerTypeOK, RowsSound, SweepSound,
               SameRow, PollSound
<1>14. QED
  BY <1>1, <1>2, <1>3, <1>4, <1>5, <1>6, <1>7, <1>8, <1>9, <1>10, <1>11, <1>12, <1>13
  DEF RelayNext

-----------------------------------------------------------------------------
(* Theorems.                                                               *)

RelayInv == IInv /\ Steady /\ LoopsInv

LEMMA RelayInitHolds == RelayInit => RelayInv /\ Init
<1> SUFFICES ASSUME RelayInit PROVE RelayInv /\ Init
  OBVIOUS
<1>1. Init
  BY DEF RelayInit
<1>2. Steady
  <2>1. \A v \in VaultId : ~(v < nextVaultId)
    BY <1>1, RegistryAssumption DEF Init, VaultId
  <2>2. QED
    BY <2>1 DEF Steady, SteadyOf
<1>3. QED
  BY <1>1, <1>2, InitSound, LoopsInitHolds DEF RelayInv

LEMMA RelayNextHolds == RelayInv /\ [RelayNext]_relayVars => RelayInv' /\ [Next]_vars
<1> SUFFICES ASSUME RelayInv, [RelayNext]_relayVars PROVE RelayInv' /\ [Next]_vars
  OBVIOUS
<1>1. mempool \in Seq(Tx)
  BY DEF RelayInv, LoopsInv, RelayerTypeOK
<1>2. [Next]_vars
  BY <1>1, RelayStepIsRegistryStep
<1>3. IInv'
  BY <1>2, NextSound DEF RelayInv
<1>4. Steady'
  BY <1>1, SteadyHolds DEF RelayInv
<1>5. LoopsInv'
  BY LoopsNext DEF RelayInv
<1>6. QED
  BY <1>2, <1>3, <1>4, <1>5 DEF RelayInv

\* The relayer's table, loops and transactions agree with each other in every
\* reachable state.
THEOREM RelayInvariantHolds == RelaySpec => []RelayInv
<1>1. QED
  BY RelayInitHolds, RelayNextHolds, PTL DEF RelaySpec

\* The service beside the registry is one of the registry's callers: everything
\* proved of the registry holds while the relayer runs, crashes and restarts.
THEOREM RelayerRefinesRegistry == RelaySpec => Spec
<1>1. QED
  BY RelayInitHolds, RelayNextHolds, PTL DEF RelaySpec, Spec

\* Rows, loops and transactions keep their types.
THEOREM RelayerTypeCorrect == RelaySpec => []RelayerTypeOK
<1>1. RelayInv => RelayerTypeOK
  BY DEF RelayInv, LoopsInv
<1>2. QED
  BY <1>1, RelayInvariantHolds, PTL

\* A transaction is added by one of the two loops and taken off by being mined.
LEMMA MempoolMoves ==
    ASSUME [RelayNext]_relayVars
    PROVE  \/ mempool' = mempool
           \/ \E v \in VaultId : SendDue(v)
           \/ SubmitResult
           \/ Mine
BY DEF RelayNext, relayVars, relayerVars, Boot, SweepStart, Syncing, SyncState, SyncTiming,
       LoopsStart, SyncFails, SweepWork, SweepRows, RemindOwner, AnnounceDispute,
       RecordDispute, Advance, SweepEnd, SendDueFails, PollFails, EnclaveAttests, PollStart,
       PollWork, PollStatus, RecordRelay, FinishRelay, PollEnd, Crash, OtherTransaction,
       ClockTick

\* A sequence does not have two different last elements.
LEMMA AppendGrows ==
    ASSUME NEW S, NEW s \in Seq(S), NEW x \in S, NEW y \in S, Append(s, x) = Append(s, y)
    PROVE  x = y
<1>1. /\ Len(Append(s, x)) = Len(s) + 1
      /\ Append(s, x)[Len(s) + 1] = x /\ Append(s, y)[Len(s) + 1] = y
  BY AppendProperties
<1>2. QED
  BY <1>1

\* The table's rows of one state follow from the sweep's; the flag that says that
\* the owner was told is only set when he was.
LEMMA NoticeStep ==
    ASSUME RelayInv, [RelayNext]_relayVars, NEW v \in VaultId,
           mempool' = Append(mempool, [kind |-> "finalizeDisputeWindow", vault |-> v])
    PROVE  v \in told
<1> DEFINE tx == [kind |-> "finalizeDisputeWindow", vault |-> v]
<1>1. mempool \in Seq(Tx) /\ tx \in Tx
  BY DEF RelayInv, LoopsInv, RelayerTypeOK, Tx
<1>2. Len(mempool') = Len(mempool) + 1 /\ Len(mempool) \in Nat
  BY <1>1, AppendProperties, LenProperties
<1>3. mempool' # mempool
  BY <1>2
<1>4. ~Mine
  <2>1. Mine => Len(mempool') = Len(mempool) - 1
    BY <1>1, HeadTailProperties DEF Mine
  <2>2. QED
    BY <1>2, <2>1
<1>5. ASSUME SubmitResult PROVE FALSE
  <2>1. poll.vault \in VaultId
    BY <1>5 DEF RelayInv, LoopsInv, PollSound, RelayerTypeOK, PollType, SubmitResult
  <2>2. [kind |-> "submitQuorumResult", vault |-> poll.vault] \in Tx
    BY <2>1 DEF Tx
  <2>3. tx = [kind |-> "submitQuorumResult", vault |-> poll.vault]
    <3> HIDE DEF tx
    <3>1. QED
      BY <1>1, <1>5, <2>2, AppendGrows DEF SubmitResult, Send, tx
  <2>4. tx.kind = "submitQuorumResult"
    BY <2>3
  <2>5. QED
    BY <2>4
<1>6. PICK w \in VaultId : SendDue(w)
  BY <1>3, <1>4, <1>5, MempoolMoves
<1>7. /\ w \in sweep.left /\ sweep.step = "work" /\ ~NeedsNotice(sweep.rows[w])
      /\ sweep.rows[w].state \in Timed
      /\ mempool' = Append(mempool, [kind |-> TxFor[sweep.rows[w].state], vault |-> w])
  BY <1>6 DEF SendDue, Send, IsDue, Timed
<1>8. TxFor[sweep.rows[w].state] \in {"markWarning", "requestAttestation",
           "finalizeDisputeWindow", "finalizeFinalWindow"}
      /\ (TxFor[sweep.rows[w].state] = "finalizeDisputeWindow" =>
             sweep.rows[w].state = "DISPUTE_WINDOW")
  BY <1>7 DEF TxFor, Timed
<1>9. tx = [kind |-> TxFor[sweep.rows[w].state], vault |-> w]
  <2>1. [kind |-> TxFor[sweep.rows[w].state], vault |-> w] \in Tx
    BY <1>8 DEF Tx
  <2> HIDE DEF tx
  <2>2. QED
    BY <1>1, <1>7, <2>1, AppendGrows DEF tx
<1>10. w = v /\ sweep.rows[w].state = "DISPUTE_WINDOW"
  <2>1. tx.kind = TxFor[sweep.rows[w].state] /\ tx.vault = w
    <3> HIDE DEF tx
    <3>1. QED
      BY <1>9
  <2>2. QED
    BY <1>8, <2>1
<1>11. SameRow(v)
  BY <1>7, <1>10 DEF RelayInv, LoopsInv, SweepSound
<1>12. tracked[v].disputeSent
  <2>1. sweep.rows[v] \in Row /\ tracked[v] \in Row
    BY DEF RelayInv, LoopsInv, RelayerTypeOK, SweepType
  <2>2. QED
    BY <1>7, <1>10, <1>11, <2>1 DEF NeedsNotice, SameRow, Row
<1>13. QED
  BY <1>12 DEF RelayInv, LoopsInv, RowsSound

\* An owner is told of a dispute before the call that ends it is sent.
THEOREM NoticeComesFirst == RelaySpec => NoticeBeforeTranche
<1> DEFINE Told ==
        \A v \in VaultId :
          mempool' = Append(mempool, [kind |-> "finalizeDisputeWindow", vault |-> v])
              => v \in told
<1>1. ASSUME RelayInv, [RelayNext]_relayVars PROVE Told
  BY <1>1, NoticeStep
<1>2. RelayInv /\ [RelayNext]_relayVars => [Told]_relayVars
  BY <1>1
<1> HIDE DEF Told
<1>3. NoticeBeforeTranche <=> [][Told]_relayVars
  BY PTL DEF NoticeBeforeTranche, Told
<1>4. QED
  BY <1>2, <1>3, RelayInvariantHolds, PTL DEF RelaySpec

\* The state of a row is written by the sync, by the sweep for a row that was due,
\* and by the poll for a row that waited for its quorum.
LEMMA CopyStep ==
    ASSUME RelayInv, [RelayNext]_relayVars, NEW v \in VaultId,
           sweep.step # "read", tracked'[v].state # tracked[v].state
    PROVE  Rank[tracked'[v].state] = Rank[tracked[v].state] + 1
<1>1. tracked \in [VaultId -> Row]
  BY DEF RelayInv, LoopsInv, RelayerTypeOK
<1>2. ASSUME NEW w \in VaultId, RemindOwner(w) PROVE FALSE
  <2>1. tracked' = [tracked EXCEPT ![w] = [tracked[w] EXCEPT !.reminderSent = TRUE]]
    BY <1>2 DEF RemindOwner
  <2>2. QED
    BY <1>1, <2>1, FlagTyped
<1>3. ASSUME RecordDispute PROVE FALSE
  <2>1. PICK w : w = sweep.vault /\
            tracked' = [tracked EXCEPT ![w] = [tracked[w] EXCEPT !.disputeSent = TRUE]]
    BY <1>3 DEF RecordDispute
  <2>2. QED
    BY <1>1, <2>1, FlagTyped
<1>4. ASSUME FinishRelay PROVE FALSE
  <2>1. PICK w : w = poll.vault /\
            tracked' = [tracked EXCEPT ![w] = [tracked[w] EXCEPT !.quorumRelayed = TRUE]]
    BY <1>4 DEF FinishRelay
  <2>2. QED
    BY <1>1, <2>1, FlagTyped
<1>5. Advance \/ RecordRelay
  BY <1>2, <1>3, <1>4
  DEF RelayNext, relayVars, relayerVars, Boot, SweepStart, Syncing, SyncState, SyncTiming,
      LoopsStart, SyncFails, SweepWork, SweepRows, AnnounceDispute, SendDue, SweepEnd,
      SendDueFails, PollFails, EnclaveAttests, PollStart, PollWork, PollStatus,
      SubmitResult, PollEnd, Crash, Mine, OtherTransaction, ClockTick
<1>6. CASE Advance
  <2>1. sweep.step = "sent" /\ sweep \in SweepType
    BY <1>6 DEF Advance, RelayInv, LoopsInv, RelayerTypeOK
  <2>2. PICK w \in VaultId : w = sweep.vault /\ w \in sweep.left
    BY <2>1 DEF RelayInv, LoopsInv, RelayerTypeOK, SweepSound, SweepType
  <2> DEFINE r == RowAfter(sweep.rows[w], vaults[w].timing, sweep.at)
  <2>3. SameRow(w) /\ sweep.rows[w] \in Row /\ sweep.at \in Nat
    BY <2>1, <2>2 DEF RelayInv, LoopsInv, SweepSound, SweepType
  <2>4. r \in Row /\ Rank[r.state] = Rank[sweep.rows[w].state] + 1
    BY <2>3, RowAfterTyped DEF RelayInv, SameRow
  <2>5. tracked' = [tracked EXCEPT ![w] = r]
    BY <1>6, <2>2 DEF Advance
  <2> HIDE DEF r
  <2>6. w = v /\ tracked'[v] = r
    BY <1>1, <2>4, <2>5
  <2>7. QED
    BY <2>3, <2>4, <2>6 DEF SameRow
<1>7. CASE RecordRelay
  <2>1. PICK w \in VaultId : w = poll.vault /\ w \in poll.left
    BY <1>7 DEF RecordRelay, RelayInv, LoopsInv, RelayerTypeOK, PollSound, PollType
  <2>2. tracked[w].state = "QUORUM_PENDING"
    BY <1>7, <2>1 DEF RecordRelay, RelayInv, LoopsInv, PollSound
  <2>3. PICK r : /\ r = FreshRow("DISPUTE_WINDOW", now + vaults[w].timing.disputeWindow)
                 /\ tracked' = [tracked EXCEPT ![w] = r]
    BY <1>7, <2>1 DEF RecordRelay
  <2>4. r.state = "DISPUTE_WINDOW"
    BY <2>3 DEF FreshRow
  <2>5. w = v /\ tracked'[v] = r
    BY <1>1, <2>3
  <2>6. QED
    BY <2>2, <2>4, <2>5, RankOrder
<1>8. QED
  BY <1>5, <1>6, <1>7

\* Between syncs a copy moves on one state at a time and never back.
THEOREM CopyMovesForward == RelaySpec => CopyFollowsLifecycle
<1> DEFINE Forward ==
        \A v \in VaultId :
          sweep.step # "read" /\ tracked'[v].state # tracked[v].state =>
              Rank[tracked'[v].state] = Rank[tracked[v].state] + 1
<1>1. ASSUME RelayInv, [RelayNext]_relayVars PROVE Forward
  BY <1>1, CopyStep
<1>2. RelayInv /\ [RelayNext]_relayVars => [Forward]_relayVars
  BY <1>1
<1> HIDE DEF Forward
<1>3. CopyFollowsLifecycle <=> [][Forward]_relayVars
  BY PTL DEF CopyFollowsLifecycle, Forward
<1>4. QED
  BY <1>2, <1>3, RelayInvariantHolds, PTL DEF RelaySpec

-----------------------------------------------------------------------------
(* How far ahead the copy runs while everything works in time and the      *)
(* owner is silent.                                                        *)

\* The relayer keeps up with this vault, whose owner has been silent since its
\* creation.
Calm(v) == Smooth /\ revivals[v] = 0 /\ v < nextVaultId /\ vaults[v].state # "CLOSED"

Expired(v) == now > vaults[v].windowDeadline

\* The i-th transaction in flight takes the vault out of state s.
Sent(v, s, i) == mempool[i].vault = v /\ StateFor[mempool[i].kind] = s

\* The registry is in state s, past it, or will be once what is in flight is mined:
\* one call that it will accept, or requestAttestation and the oracle's result
\* behind it.
Backed(v, s) ==
    /\ s \in DOMAIN Rank
    /\ \/ Rank[s] <= Rank[vaults[v].state]
       \/ /\ Rank[s] = Rank[vaults[v].state] + 1
          /\ vaults[v].state # "QUORUM_PENDING" => Expired(v)
          /\ \E i \in 1..Len(mempool) : Sent(v, vaults[v].state, i)
       \/ /\ s = "DISPUTE_WINDOW" /\ vaults[v].state = "WARNING" /\ Expired(v)
          /\ \E i, j \in 1..Len(mempool) :
                i < j /\ Sent(v, "WARNING", i) /\ Sent(v, "QUORUM_PENDING", j)

\* A copied deadline is not earlier than the registry's, nor than the one the
\* registry will set.
Late(v, s, d) ==
    /\ s = vaults[v].state /\ s \in Timed => d >= vaults[v].windowDeadline
    /\ Rank[s] > Rank[vaults[v].state] /\ s \in Timed => d >= now + WindowOf(v, s)

RowCalm(v) ==
    tracked[v].state # "UNTRACKED" =>
        Backed(v, tracked[v].state) /\ Late(v, tracked[v].state, tracked[v].deadline)

SweepCalm(v) ==
    sweep.vault = v =>
        /\ sweep.step = "read" =>
              sweep.seen \in DOMAIN Rank /\ Rank[sweep.seen] <= Rank[vaults[v].state]
        /\ sweep.step = "sent" => Backed(v, StateAfter[sweep.rows[v].state])

PollCalm(v) ==
    poll.step = "sent" /\ poll.vault = v => Backed(v, "DISPUTE_WINDOW")

\* A pass is over before the clock ticks.
InTime == Smooth /\ sweep.step \in {"work", "announced", "sent"} => sweep.at = now

CalmInv == InTime /\ \A v \in VaultId : Calm(v) => RowCalm(v) /\ SweepCalm(v) /\ PollCalm(v)

LEMMA RankDomain ==
    /\ DOMAIN Rank = VaultState \ {"CLOSED"}
    /\ \A s \in DOMAIN Rank : Rank[s] \in Nat
    /\ \A s, t \in DOMAIN Rank : Rank[s] = Rank[t] => s = t
BY DEF Rank, VaultState

\* Time only passes by the clock.
LEMMA TimeStands ==
    ASSUME IInv, mempool \in Seq(Tx), [RelayNext]_relayVars
    PROVE  now' = now \/ ClockTick
<1>1. TypeOK
  BY DEF IInv
<1>2. CASE OtherTransaction
  BY <1>2 DEF OtherTransaction, OwnerStep, CreateVault, CheckIn, FundVault,
              AnchorLegalDoc, OwnerOverride, CancelVault, GuardianStep, GuardianHalt,
              KeeperStep, MarkWarning, RequestAttestation, FinalizeDisputeWindow,
              FinalizeFinalWindow
<1>3. QED
  BY <1>1, <1>2, ChainSteps, MineMoves DEF vars

\* Troubles and restarts are only counted up.
LEMMA TroublesGrow ==
    ASSUME RelayerTypeOK, [RelayNext]_relayVars
    PROVE  /\ Smooth' => Smooth /\ (ClockTick => Quiet)
           /\ ~OtherTransaction => revivals' = revivals
<1>1. disruptions \in Nat
  BY RelayerAssumption DEF RelayerTypeOK
<1>2. Disrupt => disruptions' = disruptions + 1
  BY DEF Disrupt
<1>3. disruptions' = disruptions \/ Disrupt
  BY DEF RelayNext, relayVars, relayerVars, Boot, SweepStart, Syncing, SyncState,
         SyncTiming, LoopsStart, SyncFails, SweepWork, SweepRows, RemindOwner,
         AnnounceDispute, RecordDispute, SendDue, Advance, SweepEnd, SendDueFails,
         PollFails, EnclaveAttests, PollStart, PollWork, PollStatus, SubmitResult,
         RecordRelay, FinishRelay, PollEnd, Crash, Mine, OtherTransaction, ClockTick
<1>4. ClockTick => Quiet \/ Disrupt
  BY DEF ClockTick
<1>5. ~OtherTransaction => revivals' = revivals
  BY DEF RelayNext, relayVars, relayerVars, Boot, SweepStart, Syncing, SyncState,
         SyncTiming, LoopsStart, SyncFails, SweepWork, SweepRows, RemindOwner,
         AnnounceDispute, RecordDispute, SendDue, Advance, SweepEnd, SendDueFails,
         PollFails, EnclaveAttests, PollStart, PollWork, PollStatus, SubmitResult,
         RecordRelay, FinishRelay, PollEnd, Crash, Mine, ClockTick
<1>6. QED
  BY <1>1, <1>2, <1>3, <1>4, <1>5 DEF Smooth

\* In a calm vault's life nothing happens but the passage to the next state: a sign
\* of life that is not counted comes at the time of the last one.
LEMMA CalmMoves ==
    ASSUME RelayInv, [RelayNext]_relayVars, NEW v \in VaultId, v < nextVaultId, Calm(v)'
    PROVE  Calm(v) /\ (Stays(v) \/ Passes(v))
<1>1. /\ IInv /\ mempool \in Seq(Tx) /\ RelayerTypeOK /\ SteadyOf(v) /\ TypeOK
      /\ revivals \in [VaultId -> Nat]
  BY RelayerAssumption DEF RelayInv, LoopsInv, RelayerTypeOK, Steady, IInv
<1>2. Stays(v) \/ Wakes(v) \/ Passes(v)
  BY <1>1, ChainMoves DEF Closes, Calm
<1>3. revivals[v] = 0
  <2>1. CASE OtherTransaction
    BY <1>1, <2>1 DEF OtherTransaction, Calm
  <2>2. CASE ~OtherTransaction
    BY <1>1, <2>2, TroublesGrow DEF Calm
  <2>3. QED
    BY <2>1, <2>2
<1>4. Smooth
  BY <1>1, TroublesGrow DEF Calm
<1>5. vaults[v].state # "CLOSED"
  BY <1>2 DEF Stays, Wakes, Passes, Terminal, Timed, Calm
<1>6. CASE Wakes(v)
  <2>1. vaults'[v].lastCheckIn = vaults[v].lastCheckIn
    <3>1. CASE OtherTransaction
      BY <1>1, <1>3, <3>1 DEF OtherTransaction, Calm
    <3>2. CASE ~OtherTransaction
      <4>1. ~Passes(v)
        BY <1>6 DEF Wakes, Passes
      <4>2. Mine => Stays(v)
        BY <1>1, <4>1, MineMoves
      <4>3. QED
        BY <3>2, <4>2, ChainSteps DEF vars, ClockTick, Tick, registryVars, Stays
    <3>3. QED
      BY <3>1, <3>2
  <2>2. vaults[v].lastCheckIn = now /\ now \in Nat
    BY <1>1, <1>6, <2>1, TimingNat DEF Wakes
  <2>3. vaults[v].timing \in Timing
    BY <1>1 DEF SteadyOf
  <2>4. /\ vaults[v].timing.checkInInterval \in Nat \ {0}
        /\ vaults[v].timing.graceWindow \in Nat
        /\ vaults[v].timing.disputeWindow \in Nat
        /\ vaults[v].timing.finalWindow \in Nat
    BY <2>3, RegistryAssumption DEF Window
  <2>5. TimersOf(v)
    BY DEF RelayInv, IInv, Sound
  <2>6. vaults[v].state = "ACTIVE"
    <3>1. vaults[v].state \in VaultState \ Terminal
      BY <1>1, <1>6, TimingNat DEF Wakes
    <3>2. /\ vaults[v].state = "WARNING" => now >= now + ToWarning(v)
          /\ vaults[v].state \in {"QUORUM_PENDING", "DISPUTE_WINDOW"} =>
                now >= now + ToQuorum(v)
          /\ vaults[v].state = "FINAL_WINDOW" => now >= now + ToHalf(v)
      BY <2>2, <2>5 DEF TimersOf
    <3>3. {ToWarning(v), ToQuorum(v), ToHalf(v)} \subseteq Nat \ {0}
      BY <2>4 DEF ToWarning, ToQuorum, ToHalf
    <3>4. vaults[v].state \notin {"WARNING", "QUORUM_PENDING", "DISPUTE_WINDOW",
                                  "FINAL_WINDOW"}
      BY <2>2, <3>2, <3>3
    <3>5. QED
      BY <3>1, <3>4 DEF Terminal, VaultState
  <2>7. Stays(v)
    BY <1>1, <1>6, <2>1, <2>2, <2>6 DEF Wakes, Stays, SteadyOf, ToWarning
  <2>8. QED
    BY <1>3, <1>4, <1>5, <2>7 DEF Calm
<1>7. QED
  BY <1>2, <1>3, <1>4, <1>5, <1>6 DEF Calm

\* What is added to what is in flight leaves the rest where it is.
LEMMA SentStays ==
    ASSUME RelayInv, [RelayNext]_relayVars, ~Mine
    PROVE  /\ Len(mempool) \in Nat /\ Len(mempool') \in Nat /\ Len(mempool') >= Len(mempool)
           /\ \A i \in 1..Len(mempool) : mempool'[i] = mempool[i]
<1> mempool \in Seq(Tx)
  BY DEF RelayInv, LoopsInv, RelayerTypeOK
<1>1. ASSUME NEW tx \in Tx, mempool' = Append(mempool, tx)
      PROVE  /\ Len(mempool) \in Nat /\ Len(mempool') \in Nat
             /\ Len(mempool') >= Len(mempool)
             /\ \A i \in 1..Len(mempool) : mempool'[i] = mempool[i]
  BY <1>1, AppendProperties, LenProperties
<1>2. CASE mempool' = mempool
  BY <1>2, LenProperties
<1>3. ASSUME NEW w \in VaultId, SendDue(w)
      PROVE  \E tx \in Tx : mempool' = Append(mempool, tx)
  <2>1. sweep.rows[w].state \in Timed
    BY <1>3 DEF SendDue, IsDue, Timed
  <2>2. TxFor[sweep.rows[w].state] \in {"markWarning", "requestAttestation",
             "submitQuorumResult", "finalizeDisputeWindow", "finalizeFinalWindow"}
    BY <2>1 DEF Timed, TxFor
  <2>3. [kind |-> TxFor[sweep.rows[w].state], vault |-> w] \in Tx
    BY <2>2 DEF Tx
  <2>4. QED
    BY <1>3, <2>3 DEF SendDue, Send
<1>4. ASSUME SubmitResult
      PROVE  \E tx \in Tx : mempool' = Append(mempool, tx)
  <2>1. [kind |-> "submitQuorumResult", vault |-> poll.vault] \in Tx
    BY <1>4 DEF RelayInv, LoopsInv, PollSound, RelayerTypeOK, PollType, SubmitResult, Tx
  <2>2. QED
    BY <1>4, <2>1 DEF SubmitResult, Send
<1>5. QED
  BY <1>1, <1>2, <1>3, <1>4, MempoolMoves

\* The first in flight is accepted if it is what the vault waits for.
LEMMA HeadSucceeds ==
    ASSUME RelayInv, Mine, RelayerKey = EnclaveOracle, NEW v \in VaultId,
           Sent(v, vaults[v].state, 1),
           vaults[v].state # "QUORUM_PENDING" => Expired(v)
    PROVE  Passes(v)
<1>1. /\ TypeOK /\ mempool \in Seq(Tx) /\ mempool # <<>>
      /\ vaults[v].windowDeadline \in Nat /\ now \in Nat
  BY TimingNat DEF RelayInv, LoopsInv, RelayerTypeOK, IInv, Mine
<1>2. PICK tx \in Tx : tx = Head(mempool) /\ tx = mempool[1]
  <2>1. Head(mempool) \in Tx /\ Head(mempool) = mempool[1]
    BY <1>1
  <2>2. QED
    BY <2>1
<1>3. tx.vault = v /\ StateFor[tx.kind] = vaults[v].state
  BY <1>2 DEF Sent
<1>4. Succeeds(tx)
  <2>1. tx.kind \in DOMAIN StateFor
    BY DEF Tx, StateFor
  <2>2. tx.kind # "submitQuorumResult" => vaults[v].state # "QUORUM_PENDING"
    BY <1>3, <2>1 DEF StateFor
  <2>3. tx.kind # "submitQuorumResult" => now > vaults[v].windowDeadline
    BY <2>2 DEF Expired
  <2>4. QED
    BY <1>1, <1>3, <2>3 DEF Succeeds
<1>5. QED
  BY <1>1, <1>2, <1>3, <1>4, MineMoves

\* A calm vault stays backed: the registry only moves on, in time or by what is in
\* flight, and what is mined is accepted if the vault waits for it.
LEMMA BackedStays ==
    ASSUME RelayInv, [RelayNext]_relayVars, RelayerKey = EnclaveOracle,
           NEW v \in VaultId, v < nextVaultId, Calm(v)',
           NEW s, Backed(v, s)
    PROVE  Backed(v, s)'
<1>1. /\ IInv /\ TypeOK /\ mempool \in Seq(Tx)
      /\ vaults[v].windowDeadline \in Nat /\ now \in Nat /\ now' \in Nat /\ now' >= now
      /\ s \in DOMAIN Rank /\ Rank[s] \in Nat
  BY TimingNat, IdsGrow, RankDomain DEF RelayInv, LoopsInv, RelayerTypeOK, IInv, Backed
<1>2. Stays(v) \/ Passes(v)
  BY CalmMoves
<1>3. PICK c \in DOMAIN Rank : c = vaults[v].state /\ Rank[c] \in Nat
  <2>1. vaults[v].state \in VaultState \ {"CLOSED"}
    BY <1>1, CalmMoves, TimingNat DEF Calm
  <2>2. QED
    BY <2>1, RankDomain
<1>4. PICK e \in DOMAIN Rank : e = vaults'[v].state /\ Rank[e] \in Nat
  <2>1. vaults'[v].state \in DOMAIN Rank
    BY <1>2, <1>3, RankDomain DEF Stays, Passes
  <2>2. QED
    BY <2>1, RankDomain
<1>5. SUFFICES
         \/ Rank[s] <= Rank[e]
         \/ /\ Rank[s] = Rank[e] + 1
            /\ e # "QUORUM_PENDING" => now' > vaults'[v].windowDeadline
            /\ \E i \in 1..Len(mempool') :
                  mempool'[i].vault = v /\ StateFor[mempool'[i].kind] = e
         \/ /\ s = "DISPUTE_WINDOW" /\ e = "WARNING" /\ now' > vaults'[v].windowDeadline
            /\ \E i, j \in 1..Len(mempool') :
                  /\ i < j
                  /\ mempool'[i].vault = v /\ StateFor[mempool'[i].kind] = "WARNING"
                  /\ mempool'[j].vault = v /\ StateFor[mempool'[j].kind] = "QUORUM_PENDING"
  BY <1>1, <1>4 DEF Backed, Expired, Sent
<1>6. Mine => /\ Len(mempool') = Len(mempool) - 1 /\ Len(mempool) \in Nat
              /\ \A i \in 1..Len(mempool') : mempool'[i] = mempool[i + 1]
  BY <1>1, HeadTailProperties, LenProperties DEF Mine
<1>7. ~Mine => /\ Len(mempool) \in Nat /\ Len(mempool') \in Nat
               /\ Len(mempool') >= Len(mempool)
               /\ \A i \in 1..Len(mempool) : mempool'[i] = mempool[i]
  BY SentStays
<1>8. CASE Rank[s] <= Rank[c]
  <2>1. Rank[c] <= Rank[e]
    BY <1>2, <1>3, <1>4 DEF Stays, Passes
  <2>2. QED
    BY <1>1, <1>3, <1>4, <1>8, <2>1
<1>9. ASSUME Rank[s] = Rank[c] + 1, c # "QUORUM_PENDING" => Expired(v),
             NEW i \in 1..Len(mempool), Sent(v, c, i)
      PROVE  Rank[s] <= Rank[e] \/
             /\ Rank[s] = Rank[e] + 1
             /\ e # "QUORUM_PENDING" => now' > vaults'[v].windowDeadline
             /\ \E k \in 1..Len(mempool') :
                   mempool'[k].vault = v /\ StateFor[mempool'[k].kind] = e
  <2>1. CASE Passes(v)
    BY <1>1, <1>3, <1>4, <1>9, <2>1 DEF Passes
  <2>2. CASE ~Passes(v)
    <3>1. /\ e = c /\ vaults'[v].windowDeadline = vaults[v].windowDeadline
      BY <1>2, <1>3, <1>4, <2>2 DEF Stays
    <3>2. c # "QUORUM_PENDING" => now' > vaults'[v].windowDeadline
      BY <1>1, <1>9, <3>1 DEF Expired
    <3>3. \E k \in 1..Len(mempool') :
             mempool'[k].vault = v /\ StateFor[mempool'[k].kind] = c
      <4>1. CASE ~Mine
        BY <1>7, <1>9, <4>1 DEF Sent
      <4>2. CASE Mine
        <5>1. i # 1
          BY <1>3, <1>9, <2>2, <4>2, HeadSucceeds
        <5>2. i - 1 \in 1..Len(mempool') /\ mempool'[i - 1] = mempool[i]
          BY <1>6, <4>2, <5>1
        <5>3. QED
          BY <1>9, <5>2 DEF Sent
      <4>3. QED
        BY <4>1, <4>2
    <3>4. QED
      BY <1>9, <3>1, <3>2, <3>3
  <2>3. QED
    BY <2>1, <2>2
<1>10. ASSUME s = "DISPUTE_WINDOW", c = "WARNING", Expired(v),
              NEW i \in 1..Len(mempool), NEW j \in 1..Len(mempool), i < j,
              Sent(v, "WARNING", i), Sent(v, "QUORUM_PENDING", j)
       PROVE  \/ /\ Rank[s] = Rank[e] + 1
                 /\ e = "QUORUM_PENDING"
                 /\ \E k \in 1..Len(mempool') :
                       mempool'[k].vault = v /\ StateFor[mempool'[k].kind] = e
              \/ /\ e = "WARNING" /\ now' > vaults'[v].windowDeadline
                 /\ \E k, l \in 1..Len(mempool') :
                       /\ k < l
                       /\ mempool'[k].vault = v /\ StateFor[mempool'[k].kind] = "WARNING"
                       /\ mempool'[l].vault = v
                       /\ StateFor[mempool'[l].kind] = "QUORUM_PENDING"
  <2>1. \E l \in 1..Len(mempool') : mempool'[l] = mempool[j] /\ (Mine => l = j - 1)
                                    /\ (~Mine => l = j)
    <3>1. CASE Mine
      <4>1. j - 1 \in 1..Len(mempool') /\ mempool'[j - 1] = mempool[j]
        BY <1>6, <1>10, <3>1
      <4>2. QED
        BY <3>1, <4>1
    <3>2. CASE ~Mine
      BY <1>7, <3>2
    <3>3. QED
      BY <3>1, <3>2
  <2>2. CASE Passes(v)
    <3>1. e = "QUORUM_PENDING"
      BY <1>3, <1>4, <1>10, <2>2, RankOrder, RankDomain DEF Passes, VaultState
    <3>2. Rank[s] = Rank[e] + 1
      BY <1>10, <3>1, RankOrder
    <3>3. QED
      BY <1>10, <2>1, <3>1, <3>2 DEF Sent
  <2>3. CASE ~Passes(v)
    <3>1. /\ e = "WARNING" /\ vaults'[v].windowDeadline = vaults[v].windowDeadline
      BY <1>2, <1>3, <1>4, <1>10, <2>3 DEF Stays
    <3>2. now' > vaults'[v].windowDeadline
      BY <1>1, <1>10, <3>1 DEF Expired
    <3>3. \E k \in 1..Len(mempool') : mempool'[k] = mempool[i] /\ (Mine => k = i - 1)
                                      /\ (~Mine => k = i)
      <4>1. CASE ~Mine
        BY <1>7, <4>1
      <4>2. CASE Mine
        <5>1. i # 1
          BY <1>3, <1>10, <2>3, <4>2, HeadSucceeds
        <5>2. i - 1 \in 1..Len(mempool') /\ mempool'[i - 1] = mempool[i]
          BY <1>6, <4>2, <5>1
        <5>3. QED
          BY <4>2, <5>2
      <4>3. QED
        BY <4>1, <4>2
    <3>4. PICK k \in 1..Len(mempool'), l \in 1..Len(mempool') :
             k < l /\ mempool'[k] = mempool[i] /\ mempool'[l] = mempool[j]
      BY <1>10, <2>1, <3>3
    <3>5. QED
      BY <1>10, <3>1, <3>2, <3>4 DEF Sent
  <2>4. QED
    BY <2>2, <2>3
<1>11. QED
  BY <1>3, <1>8, <1>9, <1>10 DEF Backed

\* A deadline that was late enough stays so: the clock stands while anything is in
\* flight, and the registry counts its windows from when it moves.
LEMMA LateStays ==
    ASSUME RelayInv, [RelayNext]_relayVars, NEW v \in VaultId, v < nextVaultId, Calm(v)',
           NEW s, NEW d \in Nat, Backed(v, s), Late(v, s, d)
    PROVE  Late(v, s, d)'
<1>1. /\ IInv /\ TypeOK /\ mempool \in Seq(Tx) /\ RelayerTypeOK
      /\ vaults[v].windowDeadline \in Nat /\ now \in Nat
      /\ s \in DOMAIN Rank /\ Rank[s] \in Nat
  BY TimingNat, RankDomain DEF RelayInv, LoopsInv, RelayerTypeOK, IInv, Backed
<1>2. Calm(v) /\ (Stays(v) \/ Passes(v))
  BY CalmMoves
<1>3. PICK c \in DOMAIN Rank : c = vaults[v].state /\ Rank[c] \in Nat
  <2>1. vaults[v].state \in VaultState \ {"CLOSED"}
    BY <1>1, <1>2, TimingNat DEF Calm
  <2>2. QED
    BY <2>1, RankDomain
<1>4. CASE Passes(v)
  <2>1. PICK e \in DOMAIN Rank : e = vaults'[v].state /\ Rank[e] = Rank[c] + 1
    <3>1. vaults'[v].state \in DOMAIN Rank
      BY <1>4, RankDomain DEF Passes
    <3>2. QED
      BY <1>3, <1>4, <3>1 DEF Passes
  <2>2. /\ now' = now
        /\ e \in Timed => vaults'[v].windowDeadline = now + WindowOf(v, e)
        /\ WindowOf(v, s)' = WindowOf(v, s)
    BY <1>4, <2>1 DEF Passes, WindowOf
  <2>3. Rank[s] > Rank[c] /\ s \in Timed => d >= now + WindowOf(v, s)
    BY <1>3 DEF Late
  <2>4. s = e /\ s \in Timed => d >= vaults'[v].windowDeadline
    BY <1>3, <2>1, <2>2, <2>3
  <2>5. Rank[s] > Rank[e] /\ s \in Timed => d >= now' + WindowOf(v, s)'
    BY <1>1, <1>3, <2>1, <2>2, <2>3
  <2>6. QED
    BY <2>1, <2>4, <2>5 DEF Late
<1>5. CASE Stays(v)
  <2>1. /\ vaults'[v].state = c /\ vaults'[v].windowDeadline = vaults[v].windowDeadline
        /\ WindowOf(v, s)' = WindowOf(v, s)
    BY <1>3, <1>5 DEF Stays, WindowOf
  <2>2. CASE now' = now
    BY <1>3, <2>1, <2>2 DEF Late
  <2>3. CASE ClockTick
    <3>1. Quiet
      BY <1>1, <2>3, TroublesGrow DEF Calm
    <3>2. mempool = <<>>
      BY <3>1 DEF Quiet
    <3>3. 1..Len(mempool) = {}
      BY <3>2
    <3>4. Rank[s] <= Rank[c]
      BY <1>3, <3>3 DEF Backed
    <3>5. QED
      BY <1>1, <1>3, <2>1, <3>4 DEF Late
  <2>4. QED
    BY <1>1, <2>2, <2>3, TimeStands
<1>6. QED
  BY <1>2, <1>4, <1>5

\* Who writes the state and the deadline of a row.
LEMMA RowWrites ==
    ASSUME LoopsInv, [RelayNext]_relayVars, NEW v \in VaultId
    PROVE  \/ /\ tracked'[v].state = tracked[v].state
              /\ tracked'[v].deadline = tracked[v].deadline
           \/ SyncTiming /\ v = sweep.vault
           \/ Advance /\ v = sweep.vault
           \/ RecordRelay /\ v = poll.vault
<1> DEFINE Same == /\ tracked'[v].state = tracked[v].state
                   /\ tracked'[v].deadline = tracked[v].deadline
<1>1. tracked \in [VaultId -> Row]
  BY DEF LoopsInv, RelayerTypeOK
<1>2. ASSUME NEW w \in VaultId, RemindOwner(w) PROVE Same
  <2>1. tracked' = [tracked EXCEPT ![w] = [tracked[w] EXCEPT !.reminderSent = TRUE]]
    BY <1>2 DEF RemindOwner
  <2>2. QED
    BY <1>1, <2>1, FlagTyped
<1>3. ASSUME RecordDispute PROVE Same
  <2>1. PICK w : w = sweep.vault /\
            tracked' = [tracked EXCEPT ![w] = [tracked[w] EXCEPT !.disputeSent = TRUE]]
    BY <1>3 DEF RecordDispute
  <2>2. QED
    BY <1>1, <2>1, FlagTyped
<1>4. ASSUME FinishRelay PROVE Same
  <2>1. PICK w : w = poll.vault /\
            tracked' = [tracked EXCEPT ![w] = [tracked[w] EXCEPT !.quorumRelayed = TRUE]]
    BY <1>4 DEF FinishRelay
  <2>2. QED
    BY <1>1, <2>1, FlagTyped
<1>5. ASSUME NEW w, NEW r, tracked' = [tracked EXCEPT ![w] = r], v # w PROVE Same
  BY <1>1, <1>5
<1>6. CASE SyncTiming \/ Advance \/ RecordRelay
  <2> HIDE DEF Same
  <2>1. CASE SyncTiming
    <3>1. \E r : tracked' = [tracked EXCEPT ![sweep.vault] = r]
      BY <2>1 DEF SyncTiming
    <3>2. QED
      BY <1>5, <2>1, <3>1 DEF Same
  <2>2. CASE Advance
    <3>1. \E r : tracked' = [tracked EXCEPT ![sweep.vault] = r]
      BY <2>2 DEF Advance
    <3>2. QED
      BY <1>5, <2>2, <3>1 DEF Same
  <2>3. CASE RecordRelay
    <3>1. \E r : tracked' = [tracked EXCEPT ![poll.vault] = r]
      BY <2>3 DEF RecordRelay
    <3>2. QED
      BY <1>5, <2>3, <3>1 DEF Same
  <2>4. QED
    BY <1>6, <2>1, <2>2, <2>3
<1>7. CASE tracked' = tracked
  BY <1>7
<1>8. \/ tracked' = tracked \/ SyncTiming \/ Advance \/ RecordRelay
      \/ RecordDispute \/ FinishRelay \/ \E w \in VaultId : RemindOwner(w)
  BY DEF RelayNext, relayVars, relayerVars, Boot, SweepStart, Syncing, SyncState,
      LoopsStart, SyncFails, SweepWork, SweepRows, AnnounceDispute, SendDue, SweepEnd,
      SendDueFails, PollFails, EnclaveAttests, PollStart, PollWork, PollStatus,
      SubmitResult, PollEnd, Crash, Mine, OtherTransaction, ClockTick
<1>9. QED
  BY <1>2, <1>3, <1>4, <1>6, <1>7, <1>8

\* Where the loops' own steps come from.
LEMMA LoopWrites ==
    ASSUME LoopsInv, [RelayNext]_relayVars
    PROVE  /\ sweep'.step = "read" => sweep' = sweep \/ \E v \in VaultId : SyncState(v)
           /\ sweep'.step = "sent" => sweep' = sweep \/ \E v \in VaultId : SendDue(v)
           /\ sweep'.step \in {"work", "announced", "sent"} =>
                 \/ sweep' = sweep
                 \/ /\ sweep.step \in {"work", "announced", "sent"}
                    /\ sweep'.at = sweep.at /\ UNCHANGED vars
                 \/ sweep' = RowsRead /\ UNCHANGED vars
           /\ poll'.step = "sent" => poll' = poll \/ SubmitResult
<1>1. sweep \in SweepType /\ poll \in PollType
  BY DEF LoopsInv, RelayerTypeOK
<1>2. poll'.step = "sent" => poll' = poll \/ SubmitResult
  <2>1. \/ poll' = poll \/ LoopsStart \/ PollStart \/ SubmitResult \/ RecordRelay
        \/ FinishRelay \/ PollEnd \/ Crash
        \/ \E v \in VaultId : PollStatus(v) \/ PollFails(v)
    BY DEF RelayNext, relayVars, relayerVars, Boot, SweepStart, Syncing, SyncState,
       SyncTiming, SyncFails, SweepWork, SweepRows, RemindOwner, AnnounceDispute,
       RecordDispute, SendDue, Advance, SweepEnd, SendDueFails, EnclaveAttests, PollWork,
       Mine, OtherTransaction, ClockTick
  <2>2. ASSUME NEW v \in VaultId, PollStatus(v) PROVE poll'.step # "sent"
    BY <1>1, <2>2 DEF PollStatus, PollType
  <2>3. LoopsStart \/ PollStart \/ FinishRelay \/ PollEnd \/ Crash => poll'.step # "sent"
    BY DEF LoopsStart, PollStart, FinishRelay, PollEnd, Crash, Polling
  <2>4. RecordRelay => poll'.step # "sent"
    BY <1>1 DEF RecordRelay, PollType
  <2>5. ASSUME NEW v \in VaultId, PollFails(v) PROVE poll'.step # "sent"
    BY <2>5 DEF PollFails, Polling
  <2>6. QED
    BY <2>1, <2>2, <2>3, <2>4, <2>5
<1>3. ASSUME NEW v \in VaultId,
             RemindOwner(v) \/ AnnounceDispute(v) \/ SendDue(v) \/ SendDueFails(v)
      PROVE  /\ UNCHANGED vars
             /\ sweep.step \in {"work", "announced", "sent"} /\ sweep'.at = sweep.at
             /\ sweep'.step # "read" /\ (sweep'.step = "sent" => SendDue(v))
  BY <1>1, <1>3 DEF RemindOwner, AnnounceDispute, SendDue, SendDueFails, SweepType
<1>4. RecordDispute \/ Advance =>
          /\ sweep.step \in {"announced", "sent"} /\ sweep'.step = "work"
          /\ sweep'.at = sweep.at /\ UNCHANGED vars
  BY DEF RecordDispute, Advance, Sweeping
<1>5. SweepEnd \/ Boot \/ LoopsStart \/ Crash \/ SyncTiming =>
          sweep'.step \in {"idle", "sync", "down"}
  BY DEF SweepEnd, Boot, LoopsStart, Crash, SyncTiming, Idle, Sweeping
<1>6. SweepStart \/ SweepRows =>
          /\ UNCHANGED vars /\ sweep'.step \in {"sync", "idle", "work"}
          /\ sweep' = RowsRead \/ sweep'.step = "sync"
  BY DEF SweepStart, SweepRows, RowsRead, Idle, Sweeping
<1>7. ASSUME NEW v \in VaultId, SyncState(v) PROVE sweep'.step \in {"sync", "read"}
  BY <1>1, <1>7 DEF SyncState, SweepType
<1>8. SyncFails => sweep'.step = "sync"
  BY <1>1 DEF SyncFails, SweepType, Sweeping
<1>9. \/ sweep' = sweep \/ RecordDispute \/ Advance \/ SweepEnd \/ Boot \/ LoopsStart
      \/ Crash \/ SyncTiming \/ SweepStart \/ SweepRows \/ SyncFails
      \/ \E v \in VaultId : \/ RemindOwner(v) \/ AnnounceDispute(v) \/ SendDue(v)
                            \/ SendDueFails(v) \/ SyncState(v)
  BY DEF RelayNext, relayVars, relayerVars, Syncing, SweepWork, PollFails, EnclaveAttests,
      PollStart, PollWork, PollStatus, SubmitResult, RecordRelay, FinishRelay, PollEnd,
      Mine, OtherTransaction, ClockTick
<1>10. QED
  BY <1>2, <1>3, <1>4, <1>5, <1>6, <1>7, <1>8, <1>9

\* The clock does not tick during a pass.
LEMMA InTimeHolds ==
    ASSUME RelayInv, InTime, [RelayNext]_relayVars
    PROVE  InTime'
<1> SUFFICES ASSUME Smooth', sweep'.step \in {"work", "announced", "sent"}
             PROVE  sweep'.at = now'
  BY DEF InTime
<1>1. LoopsInv /\ RelayerTypeOK /\ IInv /\ mempool \in Seq(Tx)
  BY DEF RelayInv, LoopsInv, RelayerTypeOK
<1>2. Smooth
  BY <1>1, TroublesGrow
<1>3. CASE sweep' = RowsRead /\ UNCHANGED vars
  BY <1>3 DEF RowsRead, Idle, Sweeping, vars
<1>4. CASE /\ sweep.step \in {"work", "announced", "sent"}
           /\ sweep'.at = sweep.at /\ UNCHANGED vars
  BY <1>2, <1>4 DEF InTime, vars
<1>5. CASE sweep' = sweep
  <2>1. ~ClockTick
    BY <1>1, <1>5, TroublesGrow DEF Quiet
  <2>2. now' = now
    BY <1>1, <2>1, TimeStands
  <2>3. QED
    BY <1>2, <1>5, <2>2 DEF InTime
<1>6. QED
  BY <1>1, <1>3, <1>4, <1>5, LoopWrites

\* The next state of a due row is backed once its call is sent.
LEMMA SendDueBacked ==
    ASSUME RelayInv, InTime, NEW v \in VaultId, SendDue(v), Calm(v), RowCalm(v)
    PROVE  \A s : s = StateAfter[sweep.rows[v].state] => Backed(v, s)'
<1>1. /\ UNCHANGED <<vars, tracked>> /\ SameRow(v) /\ sweep.step = "work"
      /\ IsDue(sweep.rows[v], sweep.at)
      /\ mempool' = Append(mempool, [kind |-> TxFor[sweep.rows[v].state], vault |-> v])
  BY DEF SendDue, Send, RelayInv, LoopsInv, SweepSound
<1>2. PICK r \in Timed : r = tracked[v].state /\ r = sweep.rows[v].state
  BY <1>1 DEF SameRow
<1>3. r # "UNTRACKED" /\ r \in DOMAIN Rank
  BY <1>2, RankDomain DEF Timed, VaultState
<1>4. Backed(v, r) /\ Late(v, r, tracked[v].deadline)
  BY <1>2, <1>3 DEF RowCalm
<1>5. now > tracked[v].deadline
  BY <1>1 DEF IsDue, SameRow, InTime, Calm
<1>6. /\ TypeOK /\ vaults[v].state \in VaultState \ {"CLOSED"} /\ mempool \in Seq(Tx)
      /\ tracked[v].deadline \in Nat /\ now \in Nat /\ vaults[v].windowDeadline \in Nat
      /\ WindowOf(v, r) \in Nat
  BY TimingNat DEF RelayInv, IInv, LoopsInv, RelayerTypeOK, Row, Calm, WindowOf
<1>7. PICK c \in DOMAIN Rank : c = vaults[v].state /\ Rank[c] \in Nat
  BY <1>6, RankDomain
<1>8. PICK s \in DOMAIN Rank : s = StateAfter[r] /\ Rank[s] = Rank[r] + 1
                               /\ Rank[s] \in Nat /\ Rank[r] \in Nat
  <2>1. StateAfter[r] \in DOMAIN Rank /\ Rank[StateAfter[r]] = Rank[r] + 1
    BY RankOrder, RankDomain DEF Timed, StateAfter, VaultState
  <2>2. QED
    BY <1>3, <2>1, RankDomain
<1>9. ~(Rank[r] > Rank[c])
  BY <1>4, <1>5, <1>6, <1>7 DEF Late
<1>10. UNCHANGED <<vaults, now>>
  BY <1>1 DEF vars
<1>11. CASE Rank[r] < Rank[c]
  BY <1>2, <1>7, <1>8, <1>10, <1>11 DEF Backed
<1>12. CASE Rank[r] = Rank[c]
  <2>1. r = c
    BY <1>3, <1>7, <1>12, RankDomain
  <2>2. Expired(v)
    BY <1>4, <1>5, <1>6, <1>7, <2>1 DEF Late, Expired
  <2>3. PICK tx \in Tx : /\ tx.vault = v /\ StateFor[tx.kind] = c
                         /\ mempool' = Append(mempool, tx)
    <3>1. TxFor[r] \in {"markWarning", "requestAttestation", "submitQuorumResult",
              "finalizeDisputeWindow", "finalizeFinalWindow"} /\ StateFor[TxFor[r]] = r
      BY DEF Timed, TxFor, StateFor
    <3>2. [kind |-> TxFor[r], vault |-> v] \in Tx
      BY <3>1 DEF Tx
    <3>3. QED
      BY <1>1, <1>2, <2>1, <3>1, <3>2
  <2>4. /\ Len(mempool) + 1 \in 1..Len(mempool') /\ mempool'[Len(mempool) + 1] = tx
    BY <1>6, <2>3, AppendProperties, LenProperties
  <2>5. \E i \in 1..Len(mempool') : mempool'[i].vault = v /\ StateFor[mempool'[i].kind] = c
    BY <2>3, <2>4
  <2>6. QED
    BY <1>2, <1>7, <1>8, <1>10, <2>1, <2>2, <2>5 DEF Backed, Expired, Sent
<1>13. QED
  BY <1>3, <1>7, <1>8, <1>9, <1>11, <1>12

\* The dispute is backed once the result is sent.
LEMMA SubmitBacked ==
    ASSUME RelayInv, SubmitResult, NEW v \in VaultId, v = poll.vault, Calm(v), RowCalm(v)
    PROVE  Backed(v, "DISPUTE_WINDOW")'
<1>1. /\ UNCHANGED <<vars, tracked>> /\ tracked[v].state = "QUORUM_PENDING"
      /\ mempool' = Append(mempool, [kind |-> "submitQuorumResult", vault |-> v])
  BY DEF SubmitResult, Send, RelayInv, LoopsInv, PollSound
<1>2. Backed(v, "QUORUM_PENDING")
  BY <1>1 DEF RowCalm
<1>3. /\ vaults[v].state \in VaultState \ {"CLOSED"} /\ mempool \in Seq(Tx)
  BY TimingNat DEF RelayInv, IInv, LoopsInv, RelayerTypeOK, Calm
<1>4. PICK c \in DOMAIN Rank : c = vaults[v].state /\ Rank[c] \in Nat
  BY <1>3, RankDomain
<1>5. UNCHANGED <<vaults, now>> /\ "DISPUTE_WINDOW" \in DOMAIN Rank
  BY <1>1, RankDomain DEF vars, VaultState
<1>6. PICK tx \in Tx : /\ tx.vault = v /\ StateFor[tx.kind] = "QUORUM_PENDING"
                       /\ mempool' = Append(mempool, tx)
  <2>1. [kind |-> "submitQuorumResult", vault |-> v] \in Tx
    BY DEF Tx
  <2>2. QED
    BY <1>1, <2>1 DEF StateFor
<1>7. /\ Len(mempool) \in Nat /\ Len(mempool) + 1 \in 1..Len(mempool')
      /\ mempool'[Len(mempool) + 1] = tx
      /\ \A i \in 1..Len(mempool) : i \in 1..Len(mempool') /\ mempool'[i] = mempool[i]
  BY <1>3, <1>6, AppendProperties, LenProperties
<1>8. CASE Rank[c] >= 3
  BY <1>4, <1>5, <1>8, RankOrder DEF Backed
<1>9. CASE Rank[c] = 2
  <2>1. c = "QUORUM_PENDING"
    BY <1>4, <1>9, RankOrder, RankDomain DEF VaultState
  <2>2. \E i \in 1..Len(mempool') :
           mempool'[i].vault = v /\ StateFor[mempool'[i].kind] = "QUORUM_PENDING"
    BY <1>6, <1>7
  <2>3. QED
    BY <1>4, <1>5, <2>1, <2>2, RankOrder DEF Backed, Sent
<1>10. CASE Rank[c] < 2
  <2>1. /\ Rank[c] = 1 /\ Expired(v)
        /\ \E i \in 1..Len(mempool) : Sent(v, c, i)
    BY <1>2, <1>4, <1>10, RankOrder DEF Backed
  <2>2. c = "WARNING"
    BY <1>4, <2>1, RankOrder, RankDomain DEF VaultState
  <2>3. PICK i \in 1..Len(mempool) : Sent(v, "WARNING", i)
    BY <2>1, <2>2
  <2>4. /\ mempool'[i].vault = v /\ StateFor[mempool'[i].kind] = "WARNING"
        /\ i \in 1..Len(mempool') /\ i < Len(mempool) + 1
    BY <1>7, <2>3 DEF Sent
  <2>5. \E k, l \in 1..Len(mempool') :
           /\ k < l
           /\ mempool'[k].vault = v /\ StateFor[mempool'[k].kind] = "WARNING"
           /\ mempool'[l].vault = v /\ StateFor[mempool'[l].kind] = "QUORUM_PENDING"
    BY <1>6, <1>7, <2>4
  <2>6. QED
    BY <1>4, <1>5, <2>1, <2>2, <2>5 DEF Backed, Sent, Expired
<1>11. QED
  BY <1>4, <1>8, <1>9, <1>10

\* The row of a calm vault is backed whichever step wrote it last.
LEMMA RowCalmHolds ==
    ASSUME RelayInv, CalmInv, RelayerKey = EnclaveOracle, [RelayNext]_relayVars,
           NEW v \in VaultId, v < nextVaultId, Calm(v)', tracked'[v].state # "UNTRACKED"
    PROVE  RowCalm(v)'
<1>1. /\ Calm(v) /\ RowCalm(v) /\ SweepCalm(v) /\ PollCalm(v)
      /\ Stays(v) \/ Passes(v)
  BY CalmMoves DEF CalmInv
<1>2. /\ LoopsInv /\ IInv /\ TypeOK /\ tracked \in [VaultId -> Row] /\ v # 0
      /\ sweep \in SweepType /\ poll \in PollType /\ now \in Nat
      /\ vaults[v].windowDeadline \in Nat
      /\ vaults[v].timing.graceWindow \in Nat /\ vaults[v].timing.disputeWindow \in Nat
      /\ vaults[v].timing.finalWindow \in Nat
  BY TimingNat, BornIds DEF RelayInv, LoopsInv, RelayerTypeOK, IInv
<1>3. ASSUME NEW s, NEW d \in Nat, Backed(v, s)', Late(v, s, d)',
             tracked'[v].state = s, tracked'[v].deadline = d
      PROVE  RowCalm(v)'
  BY <1>3 DEF RowCalm, Backed, Late, Expired, Sent, WindowOf
<1>4. CASE /\ tracked'[v].state = tracked[v].state
           /\ tracked'[v].deadline = tracked[v].deadline
  <2>1. PICK s \in {tracked[v].state}, d \in Nat : d = tracked[v].deadline
    BY <1>2 DEF Row
  <2>2. Backed(v, s) /\ Late(v, s, d)
    BY <1>1, <1>4, <2>1 DEF RowCalm
  <2>3. Backed(v, s)' /\ Late(v, s, d)'
    BY <2>2, BackedStays, LateStays
  <2>4. QED
    BY <1>3, <1>4, <2>1, <2>3
<1>5. CASE SyncTiming /\ v = sweep.vault
  <2>1. /\ sweep.step = "read" /\ UNCHANGED <<vars, mempool>>
        /\ tracked' = [tracked EXCEPT ![v] = FreshRow(sweep.seen, vaults[v].windowDeadline)]
    BY <1>5 DEF SyncTiming
  <2>2. PICK s \in {sweep.seen}, d \in Nat : d = vaults[v].windowDeadline
    BY <1>2
  <2>3. tracked'[v].state = s /\ tracked'[v].deadline = d
    BY <1>2, <2>1, <2>2 DEF FreshRow
  <2>4. s \in DOMAIN Rank /\ Rank[s] <= Rank[vaults[v].state]
    BY <1>1, <1>5, <2>1, <2>2 DEF SweepCalm
  <2>5. Backed(v, s)'
    BY <2>1, <2>4 DEF Backed, vars
  <2>6. Late(v, s, d)'
    <3>1. ~(Rank[s] > Rank[vaults[v].state])
      <4>1. vaults[v].state \in DOMAIN Rank
        BY <1>1, <1>2, RankDomain, TimingNat DEF Calm
      <4>2. QED
        BY <2>4, <4>1, RankDomain
    <3>2. QED
      BY <1>2, <2>1, <2>2, <3>1 DEF Late, vars
  <2>7. QED
    BY <1>3, <2>3, <2>5, <2>6
<1>6. ASSUME NEW s \in DOMAIN Rank, UNCHANGED <<vars, mempool>>, Backed(v, s),
             tracked'[v].state = s, tracked'[v].deadline \in Nat,
             s \in Timed => s # "ACTIVE" /\ tracked'[v].deadline = now + WindowOf(v, s)
      PROVE  RowCalm(v)'
  <2>1. PICK d \in Nat : d = tracked'[v].deadline
    BY <1>6
  <2>2. UNCHANGED <<vaults, now, nextVaultId>>
    BY <1>6 DEF vars
  <2>3. SteadyOf(v)
    BY DEF RelayInv, Steady
  <2>4. s = vaults[v].state /\ s \in Timed => d >= vaults[v].windowDeadline
    <3>1. WindowOf(v, s) \in Nat
      BY <1>2 DEF WindowOf
    <3>2. QED
      BY <1>2, <1>6, <2>1, <2>3, <3>1 DEF SteadyOf
  <2>5. Late(v, s, d)'
    <3>1. s \in Timed => d >= now + WindowOf(v, s)
      <4>1. WindowOf(v, s) \in Nat
        BY <1>2 DEF WindowOf
      <4>2. QED
        BY <1>2, <1>6, <2>1, <4>1
    <3>2. QED
      BY <2>2, <2>4, <3>1 DEF Late, WindowOf
  <2>6. Backed(v, s)'
    BY BackedStays, <1>6
  <2>7. QED
    BY <1>3, <1>6, <2>1, <2>5, <2>6
<1>7. CASE Advance /\ v = sweep.vault
  <2>1. /\ sweep.step = "sent" /\ UNCHANGED <<vars, mempool>> /\ v \in sweep.left
        /\ tracked' = [tracked EXCEPT ![v] =
                          RowAfter(sweep.rows[v], vaults[v].timing, sweep.at)]
    BY <1>2, <1>7 DEF Advance, LoopsInv, SweepSound
  <2>2. SameRow(v) /\ sweep.rows[v] \in Row /\ sweep.at = now
    BY <1>1, <1>2, <2>1 DEF LoopsInv, SweepSound, CalmInv, InTime, Calm, SweepType
  <2>3. PICK q \in Timed : q = sweep.rows[v].state
    BY <2>2 DEF SameRow
  <2>4. PICK s \in DOMAIN Rank : s = StateAfter[q] /\ Backed(v, s)
    BY <1>1, <1>7, <2>1, <2>3 DEF SweepCalm, Backed
  <2>5. /\ tracked'[v].state = s
        /\ tracked'[v].deadline = IF q = "ACTIVE" THEN now + vaults[v].timing.graceWindow
                                  ELSE IF q = "DISPUTE_WINDOW"
                                  THEN now + vaults[v].timing.finalWindow
                                  ELSE 0
    BY <1>2, <2>1, <2>2, <2>3, <2>4 DEF RowAfter, FreshRow
  <2>6. tracked'[v].deadline \in Nat
    BY <1>2, <2>5
  <2>7. s \in Timed => s # "ACTIVE" /\ tracked'[v].deadline = now + WindowOf(v, s)
    BY <2>4, <2>5 DEF Timed, StateAfter, WindowOf
  <2>8. QED
    BY <1>6, <2>1, <2>4, <2>5, <2>6, <2>7
<1>8. CASE RecordRelay /\ v = poll.vault
  <2>1. /\ poll.step = "sent" /\ UNCHANGED <<vars, mempool>>
        /\ tracked' = [tracked EXCEPT ![v] =
                FreshRow("DISPUTE_WINDOW", now + vaults[v].timing.disputeWindow)]
    BY <1>8 DEF RecordRelay
  <2>2. /\ tracked'[v].state = "DISPUTE_WINDOW"
        /\ tracked'[v].deadline = now + vaults[v].timing.disputeWindow
    BY <1>2, <2>1 DEF FreshRow
  <2>3. Backed(v, "DISPUTE_WINDOW") /\ "DISPUTE_WINDOW" \in DOMAIN Rank
    BY <1>1, <1>8, <2>1, RankDomain DEF PollCalm, VaultState
  <2>4. tracked'[v].deadline = now + WindowOf(v, "DISPUTE_WINDOW")
    BY <2>2 DEF WindowOf
  <2>5. tracked'[v].deadline \in Nat
    BY <1>2, <2>2
  <2>6. QED
    BY <1>6, <2>1, <2>2, <2>3, <2>4, <2>5
<1>9. QED
  BY <1>2, <1>4, <1>5, <1>7, <1>8, RowWrites

\* What the sweep has in hand for a calm vault is no further than the registry, or
\* backed.
LEMMA SweepCalmHolds ==
    ASSUME RelayInv, CalmInv, RelayerKey = EnclaveOracle, [RelayNext]_relayVars,
           NEW v \in VaultId, v < nextVaultId, Calm(v)'
    PROVE  SweepCalm(v)'
<1>1. /\ Calm(v) /\ RowCalm(v) /\ SweepCalm(v) /\ InTime
      /\ Stays(v) \/ Passes(v)
  BY CalmMoves DEF CalmInv
<1>2. LoopsInv /\ sweep \in SweepType /\ TypeOK /\ v # 0
  BY BornIds DEF RelayInv, LoopsInv, RelayerTypeOK, IInv
<1>3. vaults[v].state \in DOMAIN Rank /\ Rank[vaults[v].state] \in Nat
  BY <1>1, <1>2, RankDomain, TimingNat DEF Calm
<1>4. ASSUME sweep'.vault = v, sweep'.step = "read"
      PROVE  sweep'.seen \in DOMAIN Rank /\ Rank[sweep'.seen] <= Rank[vaults'[v].state]
  <2>1. Rank[vaults[v].state] <= Rank[vaults'[v].state] /\ Rank[vaults'[v].state] \in Nat
    BY <1>1, <1>3 DEF Stays, Passes
  <2>2. CASE sweep' = sweep
    <3>1. sweep.seen \in DOMAIN Rank /\ Rank[sweep.seen] <= Rank[vaults[v].state]
      BY <1>1, <1>4, <2>2 DEF SweepCalm
    <3>2. Rank[sweep.seen] \in Nat
      BY <3>1, RankDomain
    <3>3. QED
      BY <1>3, <2>1, <2>2, <3>1, <3>2
  <2>3. CASE sweep' # sweep
    <3>1. PICK w \in VaultId : SyncState(w)
      BY <1>2, <1>4, <2>3, LoopWrites
    <3>2. sweep' = [sweep EXCEPT !.step = "read", !.vault = w, !.seen = vaults[w].state]
      BY <1>2, <1>4, <3>1 DEF SyncState, SweepType
    <3>3. w = v /\ sweep'.seen = vaults[v].state
      BY <1>2, <1>4, <3>2 DEF SweepType
    <3>4. QED
      BY <1>3, <2>1, <3>3
  <2>4. QED
    BY <2>2, <2>3
<1>5. ASSUME sweep'.vault = v, sweep'.step = "sent"
      PROVE  \E s : s = StateAfter[sweep'.rows[v].state] /\ Backed(v, s)'
  <2>1. CASE sweep' = sweep
    <3>1. PICK s : s = StateAfter[sweep.rows[v].state]
      OBVIOUS
    <3>2. Backed(v, s)
      BY <1>1, <1>5, <2>1, <3>1 DEF SweepCalm
    <3>3. Backed(v, s)'
      BY <3>2, BackedStays
    <3>4. QED
      BY <2>1, <3>1, <3>3
  <2>2. CASE sweep' # sweep
    <3>1. PICK w \in VaultId : SendDue(w)
      BY <1>2, <1>5, <2>2, LoopWrites
    <3>2. sweep' = [sweep EXCEPT !.step = "sent", !.vault = w]
      BY <3>1 DEF SendDue
    <3>3. w = v /\ sweep'.rows = sweep.rows
      BY <1>2, <1>5, <3>2 DEF SweepType
    <3>4. PICK s : s = StateAfter[sweep.rows[v].state]
      OBVIOUS
    <3>5. Backed(v, s)'
      BY <1>1, <3>1, <3>3, <3>4, SendDueBacked
    <3>6. QED
      BY <3>3, <3>4, <3>5
  <2>3. QED
    BY <2>1, <2>2
<1>6. ASSUME NEW s, Backed(v, s)', s = StateAfter[sweep'.rows[v].state]
      PROVE  Backed(v, StateAfter[sweep.rows[v].state])'
  BY <1>6 DEF Backed, Expired, Sent
<1>7. QED
  BY <1>4, <1>5, <1>6 DEF SweepCalm

\* And what the poll has in hand.
LEMMA PollCalmHolds ==
    ASSUME RelayInv, CalmInv, RelayerKey = EnclaveOracle, [RelayNext]_relayVars,
           NEW v \in VaultId, v < nextVaultId, Calm(v)'
    PROVE  PollCalm(v)'
<1>1. Calm(v) /\ RowCalm(v) /\ PollCalm(v)
  BY CalmMoves DEF CalmInv
<1>2. LoopsInv /\ poll \in PollType
  BY DEF RelayInv, LoopsInv, RelayerTypeOK
<1> SUFFICES ASSUME poll'.step = "sent", poll'.vault = v
             PROVE  Backed(v, "DISPUTE_WINDOW")'
  BY DEF PollCalm
<1>3. CASE poll' = poll
  BY <1>1, <1>3, BackedStays DEF PollCalm
<1>4. CASE SubmitResult
  <2>1. v = poll.vault
    BY <1>2, <1>4 DEF SubmitResult, PollType
  <2>2. QED
    BY <1>1, <1>4, <2>1, SubmitBacked
<1>5. QED
  BY <1>2, <1>3, <1>4, LoopWrites

LEMMA CalmNext ==
    ASSUME RelayInv, RelayInv', CalmInv, RelayerKey = EnclaveOracle, [RelayNext]_relayVars
    PROVE  CalmInv'
<1>1. InTime'
  BY InTimeHolds DEF CalmInv
<1>2. ASSUME NEW v \in VaultId, Calm(v)'
      PROVE  RowCalm(v)' /\ SweepCalm(v)' /\ PollCalm(v)'
  <2>1. CASE v < nextVaultId
    <3>1. RowCalm(v)'
      <4>1. CASE tracked'[v].state = "UNTRACKED"
        BY <4>1 DEF RowCalm
      <4>2. CASE tracked'[v].state # "UNTRACKED"
        BY <1>2, <2>1, <4>2, RowCalmHolds
      <4>3. QED
        BY <4>1, <4>2
    <3>2. QED
      BY <1>2, <2>1, <3>1, SweepCalmHolds, PollCalmHolds
  <2>2. CASE ~(v < nextVaultId)
    <3>1. UNCHANGED <<tracked, sweep, poll>>
      <4>1. ~(UNCHANGED vars)
        BY <1>2, <2>2 DEF vars, Calm
      <4>2. QED
        BY <4>1, ChainSteps DEF Mine, OtherTransaction, ClockTick
    <3>2. v # 0 /\ RowsSound /\ SweepSound /\ PollSound
      BY BornIds DEF RelayInv, LoopsInv
    <3>3. tracked[v].state = "UNTRACKED"
      BY <2>2, <3>2 DEF RowsSound
    <3>4. sweep.vault # v
      BY <2>2, <3>2 DEF SweepSound
    <3>5. poll.step = "sent" => poll.vault # v
      BY <3>2, <3>3 DEF PollSound
    <3>6. QED
      BY <3>1, <3>3, <3>4, <3>5 DEF RowCalm, SweepCalm, PollCalm
  <2>3. QED
    BY <2>1, <2>2
<1>3. QED
  BY <1>1, <1>2 DEF CalmInv

LEMMA CalmInit == RelayInit => CalmInv
<1> SUFFICES ASSUME RelayInit PROVE CalmInv
  OBVIOUS
<1>1. nextVaultId = 1 /\ VaultId \subseteq Nat \ {0}
  BY RegistryAssumption DEF RelayInit, Init, VaultId
<1>2. ~(\E v \in VaultId : Calm(v))
  BY <1>1 DEF Calm
<1>3. sweep.step = "down"
  BY DEF RelayInit, Sweeping
<1>4. QED
  BY <1>2, <1>3 DEF CalmInv, InTime

\* What backs the state of a row is in flight.
LEMMA BackedIsPending ==
    ASSUME mempool \in Seq(Tx), NEW v \in VaultId, vaults[v].state \in DOMAIN Rank,
           NEW s, Backed(v, s)
    PROVE  Rank[s] <= Rank[vaults[v].state] + PendingFor(v)
<1> DEFINE pending == {i \in DOMAIN mempool : mempool[i].vault = v}
<1>1. Len(mempool) \in Nat /\ DOMAIN mempool = 1..Len(mempool)
  BY LenProperties
<1>2. pending \in SUBSET (1..Len(mempool))
  BY <1>1
<1>3. IsFiniteSet(pending) /\ Cardinality(pending) \in Nat /\ PendingFor(v) = Cardinality(pending)
  <2> HIDE DEF pending
  <2>1. IsFiniteSet(1..Len(mempool))
    BY <1>1, FS_Interval
  <2>2. IsFiniteSet(pending)
    BY <1>2, <2>1, FS_Subset
  <2>3. QED
    BY <2>2, FS_CardinalityType DEF PendingFor, pending
<1>4. s \in DOMAIN Rank /\ Rank[s] \in Nat /\ Rank[vaults[v].state] \in Nat
  BY RankDomain DEF Backed
<1>5. ASSUME NEW i \in pending PROVE Cardinality(pending) >= 1
  <2> HIDE DEF pending
  <2>1. pending # {}
    BY <1>5
  <2>2. Cardinality(pending) # 0
    BY <1>3, <2>1, FS_EmptySet
  <2>3. QED
    BY <1>3, <2>2
<1>6. ASSUME NEW i \in pending, NEW j \in pending, i # j PROVE Cardinality(pending) >= 2
  <2> HIDE DEF pending
  <2>1. PICK one : one = {i} /\ IsFiniteSet(one) /\ Cardinality(one) = 1
    BY FS_Singleton
  <2>2. Cardinality(one \cup {j}) = 2
    <3>1. j \notin one
      BY <1>6, <2>1
    <3>2. IsFiniteSet(one)
      BY <2>1
    <3>3. Cardinality(one \cup {j}) =
              IF j \in one THEN Cardinality(one) ELSE Cardinality(one) + 1
      BY <3>2, FS_AddElement, Zenon
    <3>4. Cardinality(one \cup {j}) = Cardinality(one) + 1
      BY <3>1, <3>3, Zenon
    <3>5. Cardinality(one \cup {j}) = 1 + 1
      BY <2>1, <3>4, Zenon
    <3>6. QED
      BY <3>5
  <2>3. (one \cup {j}) \in SUBSET pending
    BY <1>6, <2>1
  <2>4. Cardinality(one \cup {j}) <= Cardinality(pending)
    BY <1>3, <2>3, FS_Subset
  <2>5. QED
    BY <1>3, <2>2, <2>4
<1>7. CASE Rank[s] <= Rank[vaults[v].state]
  BY <1>3, <1>4, <1>7
<1>8. CASE Rank[s] = Rank[vaults[v].state] + 1 /\ \E i \in pending : TRUE
  BY <1>3, <1>4, <1>5, <1>8
<1>9. CASE /\ s = "DISPUTE_WINDOW" /\ vaults[v].state = "WARNING"
           /\ \E i, j \in pending : i # j
  <2>1. Cardinality(pending) >= 2
    BY <1>6, <1>9
  <2>2. QED
    BY <1>3, <1>9, <2>1, RankOrder
<1>10. QED
  <2>1. \A t : \A i \in 1..Len(mempool) : Sent(v, t, i) => i \in pending
    BY <1>1 DEF Sent
  <2>2. \A i, j \in 1..Len(mempool) : i < j => i # j
    BY <1>1
  <2> HIDE DEF pending
  <2>3. QED
    BY <1>7, <1>8, <1>9, <2>1, <2>2 DEF Backed

\* As long as calls succeed in time and the owner stays silent, the copy of a vault
\* is ahead of the registry only by what is in flight, through crashes in the middle
\* of a pass and beside other keepers.  The relayer's key is the oracle's, as
\* relayer/.env.example says: without it the registry refuses every result.
THEOREM CopyStaysClose ==
    ASSUME RelayerKey = EnclaveOracle
    PROVE  RelaySpec => []CopyAheadByPending
<1>1. RelayInit => CalmInv
  BY CalmInit
<1>2. RelayInv /\ RelayInv' /\ CalmInv /\ [RelayNext]_relayVars => CalmInv'
  BY CalmNext
<1>3. RelayInv /\ CalmInv => CopyAheadByPending
  <2> SUFFICES ASSUME RelayInv, CalmInv, NEW v \in VaultId, Smooth, revivals[v] = 0,
                      tracked[v] # NoRow, vaults[v].state # "CLOSED"
               PROVE  Rank[tracked[v].state] <= Rank[vaults[v].state] + PendingFor(v)
    BY DEF CopyAheadByPending
  <2>1. tracked[v].state # "UNTRACKED" /\ Calm(v) /\ mempool \in Seq(Tx)
    BY DEF RelayInv, LoopsInv, RowsSound, RelayerTypeOK, Calm
  <2>2. Backed(v, tracked[v].state)
    BY <2>1 DEF CalmInv, RowCalm
  <2>3. vaults[v].state \in DOMAIN Rank
    BY RankDomain, TimingNat DEF RelayInv, IInv
  <2>4. QED
    BY <2>1, <2>2, <2>3, BackedIsPending
<1>4. QED
  BY <1>1, <1>2, <1>3, RelayInvariantHolds, PTL DEF RelaySpec

-----------------------------------------------------------------------------
(* One pass is enough.                                                     *)

Working == {"work", "announced", "sent"}

\* Nothing is due of what this pass is done with.
PassServes ==
    /\ sweep.step = "idle" /\ sweep.at = now =>
          \A v \in VaultId : ~IsDue(tracked[v], now)
    /\ sweep.step \in Working =>
          \A v \in VaultId \ sweep.left : ~IsDue(tracked[v], now)

\* A row that was just written is not due.
LEMMA NewRowUndue ==
    ASSUME RelayInv, NEW v \in VaultId, NEW at \in Nat
    PROVE  /\ ~IsDue(FreshRow("DISPUTE_WINDOW", at + vaults[v].timing.disputeWindow), at)
           /\ \A row \in Row : row.state \in Timed =>
                 ~IsDue(RowAfter(row, vaults[v].timing, at), at)
<1>1. PICK d \in Nat, g \in Nat, f \in Nat :
          /\ d = vaults[v].timing.disputeWindow
          /\ g = vaults[v].timing.graceWindow
          /\ f = vaults[v].timing.finalWindow
  BY TimingNat DEF RelayInv, IInv
<1>2. ~IsDue(FreshRow("DISPUTE_WINDOW", at + vaults[v].timing.disputeWindow), at)
  BY <1>1 DEF IsDue, FreshRow
<1>3. ASSUME NEW row \in Row, row.state \in Timed
      PROVE  ~IsDue(RowAfter(row, vaults[v].timing, at), at)
  <2>1. CASE row.state = "ACTIVE"
    BY <1>1, <2>1 DEF IsDue, RowAfter, FreshRow
  <2>2. CASE row.state = "DISPUTE_WINDOW"
    BY <1>1, <2>2 DEF IsDue, RowAfter, FreshRow
  <2>3. CASE row.state \in {"WARNING", "FINAL_WINDOW"}
    BY <2>3 DEF IsDue, RowAfter, FreshRow, StateAfter
  <2>4. QED
    BY <1>3, <2>1, <2>2, <2>3 DEF Timed
<1>4. QED
  BY <1>2, <1>3

\* A step that makes no row due, and of the sweep at most drops from the pass what is
\* not due.
LEMMA PassGoesOn ==
    ASSUME PassServes, now' = now,
           \A v \in VaultId : IsDue(tracked'[v], now) => IsDue(tracked[v], now),
           \/ sweep' = sweep
           \/ sweep'.step \in {"down", "sync", "read"}
           \/ /\ sweep.step \in Working /\ sweep'.step \in Working
              /\ \A v \in sweep.left \ sweep'.left : ~IsDue(tracked'[v], now)
    PROVE  PassServes'
<1>1. CASE sweep' = sweep
  BY <1>1 DEF PassServes
<1>2. CASE sweep'.step \in {"down", "sync", "read"}
  BY <1>2 DEF PassServes, Working
<1>3. CASE /\ sweep.step \in Working /\ sweep'.step \in Working
           /\ \A v \in sweep.left \ sweep'.left : ~IsDue(tracked'[v], now)
  BY <1>3 DEF PassServes, Working
<1>4. QED
  BY <1>1, <1>2, <1>3

\* Start and sync, and the reading of the rows.
LEMMA SyncServes ==
    ASSUME RelayInv, PassServes, now' = now,
           Boot \/ SweepStart \/ SweepRows \/ Syncing \/ SyncFails \/ Crash
    PROVE  PassServes'
<1>1. sweep \in SweepType /\ now \in Nat /\ tracked \in [VaultId -> Row]
  BY BornIds DEF RelayInv, LoopsInv, RelayerTypeOK
<1>2. CASE Boot \/ Crash \/ SyncFails
  <2>1. sweep'.step \in {"down", "sync", "read"} /\ tracked' = tracked
    BY <1>1, <1>2 DEF Boot, Crash, SyncFails, Sweeping, SweepType
  <2>2. QED
    BY <2>1, PassGoesOn
<1>3. CASE Syncing
  <2>1. CASE \E v \in VaultId : SyncState(v)
    <3>1. sweep'.step \in {"down", "sync", "read"} /\ tracked' = tracked
      BY <1>1, <2>1 DEF SyncState, SweepType
    <3>2. QED
      BY <3>1, PassGoesOn
  <2>2. CASE SyncTiming
    <3>1. sweep'.step = "sync"
      BY <2>2 DEF SyncTiming, Sweeping
    <3>2. QED
      BY <3>1 DEF PassServes, Working
  <2>3. CASE LoopsStart
    <3>1. sweep'.step = "idle" /\ sweep'.at = 0 /\ tracked' = tracked
      BY <2>3 DEF LoopsStart, Idle, Sweeping
    <3>2. \A v \in VaultId : tracked[v].deadline \in Nat
      BY <1>1 DEF Row
    <3>3. \A v \in VaultId : ~IsDue(tracked[v], 0)
      BY <3>2 DEF IsDue
    <3>4. QED
      BY <3>1, <3>3 DEF PassServes, Working
  <2>4. QED
    BY <1>3, <2>1, <2>2, <2>3 DEF Syncing
<1>4. CASE SweepStart \/ SweepRows
  <2>1. tracked' = tracked
    BY <1>4 DEF SweepStart, SweepRows
  <2>2. \A v \in VaultId : IsDue(tracked[v], now) => v \in Concerning(now)
    BY DEF IsDue, Concerning, ActiveRows, Terminal
  <2>3. CASE sweep' = RowsRead /\ Concerning(now) = {}
    <3>1. sweep'.step = "idle"
      BY <2>3 DEF RowsRead, Idle, Sweeping
    <3>2. QED
      BY <2>1, <2>2, <2>3, <3>1 DEF PassServes, Working
  <2>4. CASE sweep' = RowsRead /\ Concerning(now) # {}
    <3>1. sweep'.step = "work" /\ sweep'.left = Concerning(now)
      BY <2>4 DEF RowsRead, Sweeping
    <3>2. QED
      BY <2>1, <2>2, <3>1 DEF PassServes, Working
  <2>5. CASE sweep' # RowsRead
    <3>1. sweep'.step = "sync"
      BY <1>4, <2>5 DEF SweepStart, SweepRows, Sweeping
    <3>2. QED
      BY <3>1 DEF PassServes, Working
  <2>6. QED
    BY <2>3, <2>4, <2>5
<1>5. QED
  BY <1>2, <1>3, <1>4

\* The work on the rows: a row leaves the pass when it is not due, or when its call was
\* sent and it has the next deadline.
LEMMA WorkServes ==
    ASSUME RelayInv, InTime, Smooth, PassServes, now' = now, SweepWork, ~SweepRows
    PROVE  PassServes'
<1>1. /\ sweep \in SweepType /\ now \in Nat /\ tracked \in [VaultId -> Row]
      /\ sweep.rows \in [VaultId -> Row]
  BY BornIds DEF RelayInv, LoopsInv, RelayerTypeOK, SweepType
<1>2. sweep.step \in Working => sweep.at = now /\ \A v \in sweep.left : SameRow(v)
  BY DEF InTime, Working, RelayInv, LoopsInv, SweepSound
<1>3. sweep.vault # 0 => sweep.vault \in sweep.left
  BY DEF RelayInv, LoopsInv, SweepSound
<1>4. ASSUME NEW v \in VaultId, AnnounceDispute(v) \/ SendDue(v) PROVE PassServes'
  <2>1. /\ sweep.step \in Working /\ sweep'.step \in Working /\ sweep'.left = sweep.left
        /\ tracked' = tracked
    BY <1>1, <1>4 DEF AnnounceDispute, SendDue, Working, SweepType
  <2>2. QED
    BY <2>1, PassGoesOn
<1>5. ASSUME NEW v \in VaultId, RemindOwner(v) PROVE PassServes'
  <2> DEFINE r == [tracked[v] EXCEPT !.reminderSent = TRUE]
  <2>1. /\ r \in Row /\ r.state = tracked[v].state /\ r.deadline = tracked[v].deadline
    BY <1>1, FlagTyped
  <2>2. tracked' = [tracked EXCEPT ![v] = r]
    BY <1>5 DEF RemindOwner
  <2>3. /\ sweep.step = "work" /\ v \in sweep.left
        /\ sweep'.step = "work" /\ sweep'.left = sweep.left \ {v}
        /\ sweep.at < sweep.rows[v].deadline
    BY <1>1, <1>5 DEF RemindOwner, SweepType, NeedsReminder
  <2> HIDE DEF r
  <2>4. tracked'[v] = r /\ \A w \in VaultId \ {v} : tracked'[w] = tracked[w]
    BY <1>1, <2>1, <2>2, RowWritten
  <2>5. now < tracked[v].deadline /\ tracked[v].deadline \in Nat
    BY <1>1, <1>2, <2>3 DEF Working, SameRow, Row
  <2>6. ~IsDue(tracked'[v], now)
    BY <1>1, <2>1, <2>4, <2>5 DEF IsDue
  <2>7. QED
    BY <2>3, <2>4, <2>6, PassGoesOn DEF Working
<1>6. CASE RecordDispute
  <2>1. PICK v \in VaultId : v = sweep.vault /\ v \in sweep.left
    BY <1>1, <1>3, <1>6 DEF RecordDispute, RelayInv, LoopsInv, RelayerTypeOK, SweepType
  <2> DEFINE r == [tracked[v] EXCEPT !.disputeSent = TRUE]
  <2>2. /\ r \in Row /\ r.state = tracked[v].state /\ r.deadline = tracked[v].deadline
    BY <1>1, FlagTyped
  <2>3. tracked' = [tracked EXCEPT ![v] = r]
    BY <1>6, <2>1 DEF RecordDispute
  <2>4. /\ sweep.step = "announced" /\ sweep'.step = "work"
        /\ sweep'.left = IF IsDue(sweep.rows[v], sweep.at) THEN sweep.left
                         ELSE sweep.left \ {v}
    BY <1>6, <2>1 DEF RecordDispute, Sweeping
  <2> HIDE DEF r
  <2>5. tracked'[v] = r /\ \A w \in VaultId \ {v} : tracked'[w] = tracked[w]
    BY <1>1, <2>2, <2>3, RowWritten
  <2>6. IsDue(tracked'[v], now) <=> IsDue(sweep.rows[v], sweep.at)
    BY <1>2, <2>1, <2>2, <2>4, <2>5 DEF IsDue, SameRow, Working
  <2>7. IsDue(tracked'[v], now) <=> IsDue(tracked[v], now)
    BY <2>2, <2>5 DEF IsDue
  <2>8. \A w \in sweep.left \ sweep'.left : ~IsDue(tracked'[w], now)
    BY <2>4, <2>6
  <2>9. QED
    BY <2>4, <2>5, <2>7, <2>8, PassGoesOn DEF Working
<1>7. CASE Advance
  <2>1. PICK v \in VaultId : v = sweep.vault /\ v \in sweep.left
    BY <1>1, <1>3, <1>7 DEF Advance, RelayInv, LoopsInv, RelayerTypeOK, SweepType
  <2> DEFINE r == RowAfter(sweep.rows[v], vaults[v].timing, sweep.at)
  <2>2. /\ sweep.step = "sent" /\ sweep'.step = "work" /\ sweep'.left = sweep.left \ {v}
        /\ tracked' = [tracked EXCEPT ![v] = r]
    BY <1>7, <2>1 DEF Advance, Sweeping
  <2>3. sweep.at = now /\ sweep.rows[v] \in Row /\ sweep.rows[v].state \in Timed
    BY <1>1, <1>2, <2>1, <2>2 DEF Working, SameRow
  <2>4. r \in Row /\ ~IsDue(r, now)
    BY <1>1, <2>3, NewRowUndue, RowAfterTyped DEF RelayInv
  <2> HIDE DEF r
  <2>5. tracked'[v] = r /\ \A w \in VaultId \ {v} : tracked'[w] = tracked[w]
    BY <1>1, <2>2, <2>4, RowWritten
  <2>6. QED
    BY <2>2, <2>4, <2>5, PassGoesOn DEF Working
<1>8. CASE SweepEnd
  <2>1. sweep.step = "work" /\ sweep.left = {} /\ sweep'.step = "idle" /\ tracked' = tracked
    BY <1>8 DEF SweepEnd, Idle, Sweeping
  <2>2. QED
    BY <2>1 DEF PassServes, Working
<1>9. QED
  BY <1>4, <1>5, <1>6, <1>7, <1>8 DEF SweepWork

\* The other goroutine: the row it writes is not due either.
LEMMA PollServes ==
    ASSUME RelayInv, PassServes, now' = now, RecordRelay \/ FinishRelay
    PROVE  PassServes'
<1>1. now \in Nat /\ tracked \in [VaultId -> Row] /\ sweep' = sweep
  BY BornIds DEF RelayInv, LoopsInv, RelayerTypeOK, RecordRelay, FinishRelay
<1>2. PICK v \in VaultId : v = poll.vault
  BY DEF RelayInv, LoopsInv, RelayerTypeOK, PollType, PollSound, RecordRelay, FinishRelay
<1>3. CASE RecordRelay
  <2> DEFINE r == FreshRow("DISPUTE_WINDOW", now + vaults[v].timing.disputeWindow)
  <2>1. tracked' = [tracked EXCEPT ![v] = r]
    BY <1>2, <1>3 DEF RecordRelay
  <2>2. ~IsDue(r, now)
    BY <1>1, NewRowUndue
  <2> HIDE DEF r
  <2>3. tracked'[v] = r /\ \A w \in VaultId \ {v} : tracked'[w] = tracked[w]
    BY <1>1, <2>1
  <2>4. QED
    BY <1>1, <2>2, <2>3, PassGoesOn
<1>4. CASE FinishRelay
  <2> DEFINE r == [tracked[v] EXCEPT !.quorumRelayed = TRUE]
  <2>1. r.state = tracked[v].state /\ r.deadline = tracked[v].deadline
    BY <1>1, FlagTyped
  <2>2. tracked' = [tracked EXCEPT ![v] = r]
    BY <1>2, <1>4 DEF FinishRelay
  <2> HIDE DEF r
  <2>3. tracked'[v] = r /\ \A w \in VaultId \ {v} : tracked'[w] = tracked[w]
    BY <1>1, <2>2
  <2>4. IsDue(r, now) <=> IsDue(tracked[v], now)
    BY <2>1 DEF IsDue
  <2>5. QED
    BY <1>1, <2>3, <2>4, PassGoesOn
<1>5. QED
  BY <1>3, <1>4

\* Every step of a history without trouble keeps it.
LEMMA ServesNext ==
    ASSUME RelayInv, InTime, Smooth => PassServes, [RelayNext]_relayVars
    PROVE  /\ Smooth' => PassServes'
           /\ now' # now /\ Smooth' => \A v \in VaultId : ~IsDue(tracked[v], now)
<1> SUFFICES ASSUME Smooth'
             PROVE  /\ PassServes'
                    /\ now' # now => \A v \in VaultId : ~IsDue(tracked[v], now)
  OBVIOUS
<1>1. /\ RelayerTypeOK /\ IInv /\ mempool \in Seq(Tx) /\ now \in Nat
  BY BornIds DEF RelayInv, LoopsInv, RelayerTypeOK
<1>2. Smooth /\ PassServes /\ (ClockTick => Quiet)
  BY <1>1, TroublesGrow
<1>3. CASE ClockTick
  <2>1. sweep.step = "idle" /\ sweep.at = now /\ now' = now + 1 /\ sweep' = sweep
    BY <1>2, <1>3 DEF Quiet, ClockTick, Tick
  <2>2. PassServes'
    BY <1>1, <2>1 DEF PassServes, Working
  <2>3. QED
    BY <1>2, <2>1, <2>2 DEF PassServes
<1>4. CASE ~ClockTick
  <2>1. now' = now
    BY <1>1, <1>4, TimeStands
  <2>2. CASE Boot \/ SweepStart \/ SweepRows \/ Syncing \/ SyncFails \/ Crash
    BY <1>2, <2>1, <2>2, SyncServes
  <2>3. CASE SweepWork /\ ~SweepRows
    BY <1>2, <2>1, <2>3, WorkServes
  <2>4. CASE RecordRelay \/ FinishRelay
    BY <1>2, <2>1, <2>4, PollServes
  <2>5. CASE UNCHANGED <<tracked, sweep>>
    BY <1>2, <2>1, <2>5, PassGoesOn
  <2>6. ASSUME NEW v \in VaultId, SendDueFails(v) PROVE FALSE
    <3>1. disruptions \in Nat /\ disruptions' = disruptions + 1
      BY <1>1, <2>6, RelayerAssumption DEF RelayerTypeOK, SendDueFails, Disrupt
    <3>2. QED
      BY <3>1 DEF Smooth
  <2>7. \/ Boot \/ SweepStart \/ SweepRows \/ Syncing \/ SyncFails \/ Crash
        \/ SweepWork /\ ~SweepRows
        \/ RecordRelay \/ FinishRelay
        \/ UNCHANGED <<tracked, sweep>>
        \/ \E v \in VaultId : SendDueFails(v)
    BY <1>4 DEF RelayNext, relayVars, relayerVars, PollFails, EnclaveAttests, PollStart,
       PollWork, PollStatus, SubmitResult, PollEnd, Mine, OtherTransaction
  <2>8. QED
    BY <2>1, <2>2, <2>3, <2>4, <2>5, <2>6, <2>7
<1>5. QED
  BY <1>3, <1>4

\* While calls succeed in time one pass of the sweep is enough: for any windows, any
\* number of vaults and any bound on what is in flight, no row is due when the clock goes
\* on, whatever a sync, a restart or the polling goroutine has written during the pass.
THEOREM PassIsEnough == RelaySpec => DueIsServed
<1> DEFINE Act == now' # now /\ disruptions' = 0 => \A v \in VaultId : ~IsDue(tracked[v], now)
           Q == Smooth => PassServes
<1>1. RelayInit => InTime /\ Q
  <2> SUFFICES ASSUME RelayInit PROVE InTime /\ PassServes
    OBVIOUS
  <2>1. sweep.step = "down"
    BY DEF RelayInit, Sweeping
  <2>2. QED
    BY <2>1 DEF InTime, PassServes, Working
<1>2. ASSUME RelayInv, InTime, Q, [RelayNext]_relayVars PROVE InTime' /\ Q' /\ Act
  <2>1. InTime'
    BY <1>2, InTimeHolds
  <2>2. Q' /\ Act
    BY <1>2, ServesNext DEF Smooth
  <2>3. QED
    BY <2>1, <2>2
<1>3. RelayInv /\ InTime /\ Q /\ [RelayNext]_relayVars => InTime' /\ Q'
  BY <1>2
<1>4. RelayInv /\ InTime /\ Q /\ [RelayNext]_relayVars => [Act]_relayVars
  BY <1>2
<1> HIDE DEF Act, Q
<1>5. DueIsServed <=> [][Act]_relayVars
  BY PTL DEF DueIsServed, Act
<1>6. QED
  BY <1>1, <1>3, <1>4, <1>5, RelayInvariantHolds, PTL DEF RelaySpec
=============================================================================
