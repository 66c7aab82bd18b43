------------------------------- MODULE Relayer -------------------------------
(***************************************************************************)
(* relayer/internal/watcher, store and chain: the service that keeps a     *)
(* copy of every vault in its database, sends the transactions that are    *)
(* due by that copy, and submits the quorum the enclave reports.  Two      *)
(* goroutines, the deadline sweep and the enclave polling loop, share the  *)
(* database; each works on rows it read earlier.  A row advances when a    *)
(* transaction is sent; whether the transaction was mined or reverted is   *)
(* never looked at, and a tracked vault is read from the chain again only  *)
(* when the service restarts.                                              *)
(*                                                                         *)
(* One clock serves the host and the chain.  The windows a row copies from *)
(* the registry never change there, so they are read off the registry.     *)
(***************************************************************************)
EXTENDS VaultRegistry, Sequences, FiniteSets

CONSTANTS
    RelayerKey,        \* the address that signs the relayer's transactions
    ReminderLeadTime,
    MaxPending,        \* bound on the relayer's transactions in flight
    MaxTroubles,       \* bound on crashes, failed calls and ticks that outrun the loops
    MaxRevivals,       \* bound on the restarts of one vault's timers
    LastCreation       \* bound on the time at which vaults are created

ASSUME RelayerAssumption ==
    /\ RelayerKey \in Account
    /\ ReminderLeadTime \in Nat
    /\ {MaxPending, MaxTroubles, MaxRevivals, LastCreation} \subseteq Nat

VARIABLES
    tracked,    \* the tracked_vaults table: id -> row
    sweep,      \* the goroutine that syncs and checks deadlines
    poll,       \* the goroutine that polls the enclave
    mempool,    \* sent transactions that are not mined yet, in nonce order
    quorumMet,  \* vaults for which the enclave reports a quorum
    crashes,    \* how often the service has stopped
    told,       \* vaults whose owner was sent a dispute notice for this row
    revivals,   \* id -> how often its timers were restarted since its creation
    disruptions \* failed calls and ticks that outran the loops, so far

relayerVars == <<tracked, sweep, poll, mempool, quorumMet, crashes, told,
                 revivals, disruptions>>

relayVars == <<vars, relayerVars>>

\* warning_sent is never read and left out.
Row == [state : VaultState \cup {"UNTRACKED"}, deadline : Nat,
        reminderSent : BOOLEAN, disputeSent : BOOLEAN, quorumRelayed : BOOLEAN]

FreshRow(state, deadline) ==
    [state |-> state, deadline |-> deadline, reminderSent |-> FALSE,
     disputeSent |-> FALSE, quorumRelayed |-> FALSE]

NoRow == FreshRow("UNTRACKED", 0)

NoRows == [v \in VaultId |-> NoRow]

Tx == [kind : {"markWarning", "requestAttestation", "submitQuorumResult",
               "finalizeDisputeWindow", "finalizeFinalWindow"},
       vault : VaultId]

\* `left' are the vaults this pass still has to take, `vault' the one a step is
\* in the middle of (0 if none), `at' the time the pass took for now.
Sweeping(step, left, vault, seen, rows, at) ==
    [step |-> step, left |-> left, vault |-> vault, seen |-> seen,
     rows |-> rows, at |-> at]

Idle(at) == Sweeping("idle", {}, 0, "UNTRACKED", NoRows, at)

Polling(step, left, vault, at) ==
    [step |-> step, left |-> left, vault |-> vault, at |-> at]

RelayInit ==
    /\ Init
    /\ tracked = NoRows
    /\ sweep = Sweeping("down", {}, 0, "UNTRACKED", NoRows, 0)
    /\ poll = Polling("down", {}, 0, 0)
    /\ mempool = <<>>
    /\ quorumMet = {}
    /\ crashes = 0
    /\ told = {}
    /\ revivals = [v \in VaultId |-> 0]
    /\ disruptions = 0

-----------------------------------------------------------------------------
(* What a row says.                                                        *)

Terminal == {"FULLY_RELEASED", "CLOSED"}

\* Mutant: the rows of the final window are taken to be over.
ActiveRowsUntilHalf ==
    {v \in VaultId : tracked[v].state \notin Terminal \cup {"FINAL_WINDOW", "UNTRACKED"}}

\* GetActiveVaults.
ActiveRows == {v \in VaultId : tracked[v].state \notin Terminal \cup {"UNTRACKED"}}

NeedsReminder(row, at) ==
    /\ row.state = "ACTIVE"
    /\ ~row.reminderSent
    /\ at + ReminderLeadTime > row.deadline
    /\ at < row.deadline

NeedsNotice(row) == row.state = "DISPUTE_WINDOW" /\ ~row.disputeSent

\* Mutant: the deadline itself is late already.
IsDueAtDeadline(row, at) ==
    /\ row.state \in {"ACTIVE", "WARNING", "DISPUTE_WINDOW", "FINAL_WINDOW"}
    /\ at >= row.deadline

\* Strictly after the deadline, in every state with one.
IsDue(row, at) ==
    /\ row.state \in {"ACTIVE", "WARNING", "DISPUTE_WINDOW", "FINAL_WINDOW"}
    /\ at > row.deadline

TxFor == [ACTIVE |-> "markWarning", WARNING |-> "requestAttestation",
          DISPUTE_WINDOW |-> "finalizeDisputeWindow",
          FINAL_WINDOW |-> "finalizeFinalWindow"]

StateAfter == [ACTIVE |-> "WARNING", WARNING |-> "QUORUM_PENDING",
               DISPUTE_WINDOW |-> "FINAL_WINDOW", FINAL_WINDOW |-> "FULLY_RELEASED"]

\* The row UpdateState leaves once the transaction for `row' was sent: the next
\* state, its deadline counted from the sweep's time, and all flags cleared.
RowAfter(row, timing, at) ==
    FreshRow(StateAfter[row.state],
             IF row.state = "ACTIVE" THEN at + timing.graceWindow
             ELSE IF row.state = "DISPUTE_WINDOW" THEN at + timing.finalWindow
             ELSE 0)

Disrupt ==
    /\ crashes + disruptions < MaxTroubles
    /\ disruptions' = disruptions + 1

\* Everything worked in time so far.
Smooth == disruptions = 0

Send(kind, v) ==
    /\ Len(mempool) < MaxPending
    /\ mempool' = Append(mempool, [kind |-> kind, vault |-> v])

-----------------------------------------------------------------------------
(* Start and the sync from the chain.  A failed read of nextVaultId is the *)
(* failure of every single vault's sync.                                   *)

Boot ==
    /\ sweep.step = "down"
    /\ sweep' = Sweeping("sync", 1..(nextVaultId - 1), 0, "UNTRACKED", NoRows, 0)
    /\ UNCHANGED <<vars, tracked, poll, mempool, quorumMet, crashes, told, revivals, disruptions>>

\* Mutant: vaults that are over get a row as well.
SyncStateOfAny(v) ==
    /\ sweep.step = "sync"
    /\ v \in sweep.left
    /\ sweep' = [sweep EXCEPT !.step = "read", !.vault = v, !.seen = vaults[v].state]
    /\ UNCHANGED <<vars, tracked, poll, mempool, quorumMet, crashes, told, revivals, disruptions>>

\* The first of syncVault's calls to the chain.  A vault that is over keeps the
\* row it has.
SyncState(v) ==
    /\ sweep.step = "sync"
    /\ v \in sweep.left
    /\ sweep' = IF vaults[v].state \in Terminal
                THEN [sweep EXCEPT !.left = sweep.left \ {v}]
                ELSE [sweep EXCEPT !.step = "read", !.vault = v, !.seen = vaults[v].state]
    /\ UNCHANGED <<vars, tracked, poll, mempool, quorumMet, crashes, told, revivals, disruptions>>

\* The last of syncVault's calls, and the upsert with all flags cleared.
SyncTiming ==
    LET v == sweep.vault IN
    /\ sweep.step = "read"
    /\ tracked' = [tracked EXCEPT ![v] = FreshRow(sweep.seen, vaults[v].windowDeadline)]
    /\ told' = told \ {v}
    /\ sweep' = Sweeping("sync", sweep.left \ {v}, 0, "UNTRACKED", NoRows, sweep.at)
    /\ UNCHANGED <<vars, poll, mempool, quorumMet, crashes, revivals, disruptions>>

SyncFails ==
    /\ \E v \in sweep.left :
          \/ /\ sweep.step = "sync"
             /\ sweep' = [sweep EXCEPT !.left = sweep.left \ {v}]
          \/ /\ sweep.step = "read"
             /\ v = sweep.vault
             /\ sweep' = Sweeping("sync", sweep.left \ {v}, 0, "UNTRACKED", NoRows, sweep.at)
    /\ Disrupt
    /\ UNCHANGED <<vars, tracked, poll, mempool, quorumMet, crashes, told, revivals>>

\* After the first sync the loops start.
LoopsStart ==
    /\ sweep.step = "sync"
    /\ sweep.left = {}
    /\ poll.step = "down"
    /\ sweep' = Idle(0)
    /\ poll' = Polling("idle", {}, 0, 0)
    /\ UNCHANGED <<vars, tracked, mempool, quorumMet, crashes, told, revivals, disruptions>>

-----------------------------------------------------------------------------
(* The sweep: the rows are read once, and every decision of the pass is    *)
(* taken on them.                                                          *)

\* The vaults for which processVault has anything to do.
Concerning(at) ==
    {v \in ActiveRows : \/ NeedsReminder(tracked[v], at)
                        \/ NeedsNotice(tracked[v])
                        \/ IsDue(tracked[v], at)}

\* The rows are read and the time is taken.
RowsRead ==
    IF Concerning(now) = {} THEN Idle(now)
    ELSE Sweeping("work", Concerning(now), 0, "UNTRACKED",
                  [v \in VaultId |-> IF v \in Concerning(now) THEN tracked[v] ELSE NoRow],
                  now)

\* Only vaults without a row are synced.
SweepStart ==
    LET untracked == {v \in 1..(nextVaultId - 1) : tracked[v] = NoRow} IN
    /\ sweep.step = "idle"
    /\ sweep' = IF untracked = {} THEN RowsRead
                ELSE Sweeping("sync", untracked, 0, "UNTRACKED", NoRows, sweep.at)
    /\ UNCHANGED <<vars, tracked, poll, mempool, quorumMet, crashes, told, revivals, disruptions>>

SweepRows ==
    /\ sweep.step = "sync"
    /\ sweep.left = {}
    /\ poll.step # "down"
    /\ sweep' = RowsRead
    /\ UNCHANGED <<vars, tracked, poll, mempool, quorumMet, crashes, told, revivals, disruptions>>

\* A reminder is only due before the deadline, so it is all there is to do.  The
\* message and its flag are one step, since nothing is read in between.
RemindOwner(v) ==
    /\ sweep.step = "work"
    /\ v \in sweep.left
    /\ NeedsReminder(sweep.rows[v], sweep.at)
    /\ tracked' = [tracked EXCEPT ![v] = [@ EXCEPT !.reminderSent = TRUE]]
    /\ sweep' = [sweep EXCEPT !.left = sweep.left \ {v}]
    /\ UNCHANGED <<vars, poll, mempool, quorumMet, crashes, told, revivals, disruptions>>

AnnounceDispute(v) ==
    /\ sweep.step = "work"
    /\ v \in sweep.left
    /\ NeedsNotice(sweep.rows[v])
    /\ told' = told \cup {v}
    /\ sweep' = [sweep EXCEPT !.step = "announced", !.vault = v]
    /\ UNCHANGED <<vars, tracked, poll, mempool, quorumMet, crashes, revivals, disruptions>>

\* Mutant: a vault whose owner was told is done with for this pass.
RecordDisputeOnly ==
    LET v == sweep.vault IN
    /\ sweep.step = "announced"
    /\ tracked' = [tracked EXCEPT ![v] = [@ EXCEPT !.disputeSent = TRUE]]
    /\ sweep' = Sweeping("work", sweep.left \ {v}, 0, "UNTRACKED", sweep.rows, sweep.at)
    /\ UNCHANGED <<vars, poll, mempool, quorumMet, crashes, told, revivals, disruptions>>

\* SetDisputeSent, and on to the deadline of the same vault.
RecordDispute ==
    LET v == sweep.vault IN
    /\ sweep.step = "announced"
    /\ tracked' = [tracked EXCEPT ![v] = [@ EXCEPT !.disputeSent = TRUE]]
    /\ sweep' = Sweeping("work",
                         IF IsDue(sweep.rows[v], sweep.at) THEN sweep.left ELSE sweep.left \ {v},
                         0, "UNTRACKED",
                         [sweep.rows EXCEPT ![v] = [@ EXCEPT !.disputeSent = TRUE]],
                         sweep.at)
    /\ UNCHANGED <<vars, poll, mempool, quorumMet, crashes, told, revivals, disruptions>>

\* Mutant: the notice of a dispute is left until the window was finalized.
SendDueUnannounced(v) ==
    /\ sweep.step = "work"
    /\ v \in sweep.left
    /\ IsDue(sweep.rows[v], sweep.at)
    /\ Send(TxFor[sweep.rows[v].state], v)
    /\ sweep' = [sweep EXCEPT !.step = "sent", !.vault = v]
    /\ UNCHANGED <<vars, tracked, poll, quorumMet, crashes, told, revivals, disruptions>>

\* The transaction is sent even if the gas estimate says that it will revert.
SendDue(v) ==
    /\ sweep.step = "work"
    /\ v \in sweep.left
    /\ ~NeedsNotice(sweep.rows[v])
    /\ IsDue(sweep.rows[v], sweep.at)
    /\ Send(TxFor[sweep.rows[v].state], v)
    /\ sweep' = [sweep EXCEPT !.step = "sent", !.vault = v]
    /\ UNCHANGED <<vars, tracked, poll, quorumMet, crashes, told, revivals, disruptions>>

\* The node refuses it: the other goroutine took the nonce, or no answer.
SendDueFails(v) ==
    /\ sweep.step = "work"
    /\ v \in sweep.left
    /\ ~NeedsNotice(sweep.rows[v])
    /\ IsDue(sweep.rows[v], sweep.at)
    /\ sweep' = [sweep EXCEPT !.left = sweep.left \ {v}]
    /\ Disrupt
    /\ UNCHANGED <<vars, tracked, poll, mempool, quorumMet, crashes, told, revivals>>

\* UpdateState, from the row the sweep has read.
Advance ==
    LET v == sweep.vault IN
    /\ sweep.step = "sent"
    /\ tracked' = [tracked EXCEPT ![v] =
                      RowAfter(sweep.rows[v], vaults[v].timing, sweep.at)]
    /\ told' = told \ {v}
    /\ sweep' = Sweeping("work", sweep.left \ {v}, 0, "UNTRACKED", sweep.rows, sweep.at)
    /\ UNCHANGED <<vars, poll, mempool, quorumMet, crashes, revivals, disruptions>>

SweepEnd ==
    /\ sweep.step = "work"
    /\ sweep.left = {}
    /\ sweep' = Idle(sweep.at)
    /\ UNCHANGED <<vars, tracked, poll, mempool, quorumMet, crashes, told, revivals, disruptions>>

-----------------------------------------------------------------------------
(* The enclave polling loop.                                               *)

\* Mutant: every row that was not relayed is polled, whatever its state.
WaitingInAnyState == {v \in ActiveRows : ~tracked[v].quorumRelayed}

Waiting == {v \in ActiveRows : /\ tracked[v].state = "QUORUM_PENDING"
                                /\ ~tracked[v].quorumRelayed}

PollStart ==
    /\ poll.step = "idle"
    /\ poll' = Polling(IF Waiting = {} THEN "idle" ELSE "ask", Waiting, 0, now)
    /\ UNCHANGED <<vars, tracked, sweep, mempool, quorumMet, crashes, told, revivals, disruptions>>

PollStatus(v) ==
    /\ poll.step = "ask"
    /\ v \in poll.left
    /\ poll' = IF v \in quorumMet
               THEN [poll EXCEPT !.step = "met", !.vault = v]
               ELSE [poll EXCEPT !.left = poll.left \ {v}]
    /\ UNCHANGED <<vars, tracked, sweep, mempool, quorumMet, crashes, told, revivals, disruptions>>

\* No status, no signed result, or a transaction that is refused.
PollFails(v) ==
    /\ v \in poll.left
    /\ \/ poll.step = "ask"
       \/ poll.step = "met" /\ v = poll.vault
    /\ poll' = Polling("ask", poll.left \ {v}, 0, poll.at)
    /\ Disrupt
    /\ UNCHANGED <<vars, tracked, sweep, mempool, quorumMet, crashes, told, revivals>>

SubmitResult ==
    /\ poll.step = "met"
    /\ Send("submitQuorumResult", poll.vault)
    /\ poll' = [poll EXCEPT !.step = "sent"]
    /\ UNCHANGED <<vars, tracked, sweep, quorumMet, crashes, told, revivals, disruptions>>

\* UpdateState; its deadline is counted from this moment.
RecordRelay ==
    LET v == poll.vault IN
    /\ poll.step = "sent"
    /\ tracked' = [tracked EXCEPT ![v] =
                      FreshRow("DISPUTE_WINDOW", now + vaults[v].timing.disputeWindow)]
    /\ told' = told \ {v}
    /\ poll' = [poll EXCEPT !.step = "recorded"]
    /\ UNCHANGED <<vars, sweep, mempool, quorumMet, crashes, revivals, disruptions>>

\* SetQuorumRelayed, which no dispute row is asked for, and the notice, which
\* leaves disputeSent as it is.
FinishRelay ==
    LET v == poll.vault IN
    /\ poll.step = "recorded"
    /\ tracked' = [tracked EXCEPT ![v] = [@ EXCEPT !.quorumRelayed = TRUE]]
    /\ told' = told \cup {v}
    /\ poll' = Polling("ask", poll.left \ {v}, 0, poll.at)
    /\ UNCHANGED <<vars, sweep, mempool, quorumMet, crashes, revivals, disruptions>>

PollEnd ==
    /\ poll.step = "ask"
    /\ poll.left = {}
    /\ poll' = Polling("idle", {}, 0, poll.at)
    /\ UNCHANGED <<vars, tracked, sweep, mempool, quorumMet, crashes, told, revivals, disruptions>>

-----------------------------------------------------------------------------
(* What surrounds the relayer.                                             *)

\* The service stops anywhere; the database and sent transactions stay.
Crash ==
    /\ sweep.step # "down"
    /\ crashes + disruptions < MaxTroubles
    /\ crashes' = crashes + 1
    /\ sweep' = Sweeping("down", {}, 0, "UNTRACKED", NoRows, 0)
    /\ poll' = Polling("down", {}, 0, 0)
    /\ UNCHANGED <<vars, tracked, mempool, quorumMet, told, revivals, disruptions>>

Execute(tx) ==
    \/ tx.kind = "markWarning" /\ MarkWarning(tx.vault)
    \/ tx.kind = "requestAttestation" /\ RequestAttestation(tx.vault)
    \/ tx.kind = "submitQuorumResult" /\ SubmitQuorumResult(RelayerKey, tx.vault, TRUE)
    \/ tx.kind = "finalizeDisputeWindow" /\ FinalizeDisputeWindow(tx.vault)
    \/ tx.kind = "finalizeFinalWindow" /\ FinalizeFinalWindow(tx.vault)

\* The state each call asks for.
StateFor == [markWarning |-> "ACTIVE", requestAttestation |-> "WARNING",
             submitQuorumResult |-> "QUORUM_PENDING",
             finalizeDisputeWindow |-> "DISPUTE_WINDOW",
             finalizeFinalWindow |-> "FINAL_WINDOW"]

\* The call passes the contract's requires.
Succeeds(tx) ==
    /\ vaults[tx.vault].state = StateFor[tx.kind]
    /\ tx.kind = "markWarning" => now > vaults[tx.vault].windowDeadline
    /\ tx.kind \notin {"markWarning", "submitQuorumResult"} =>
          now >= vaults[tx.vault].windowDeadline
    /\ tx.kind = "submitQuorumResult" => RelayerKey = EnclaveOracle

\* Transactions of one account are mined in nonce order; one that reverts only
\* uses up its nonce.
Mine ==
    /\ mempool # <<>>
    /\ mempool' = Tail(mempool)
    /\ IF Succeeds(Head(mempool)) THEN Execute(Head(mempool)) ELSE UNCHANGED vars
    /\ UNCHANGED <<tracked, sweep, poll, quorumMet, crashes, told, revivals, disruptions>>

\* The enclave counts enough attestations; nothing in the repository calls its
\* reset, so the answer stays.
EnclaveAttests(v) ==
    /\ quorumMet' = quorumMet \cup {v}
    /\ UNCHANGED <<vars, tracked, sweep, poll, mempool, crashes, told, revivals, disruptions>>

\* Everybody else's transactions, keepers other than the relayer included.
OtherTransaction ==
    /\ OwnerStep \/ GuardianStep \/ KeeperStep
    /\ now > LastCreation => UNCHANGED nextVaultId
    /\ revivals' = [v \in VaultId |->
                       IF v < nextVaultId /\ vaults'[v].lastCheckIn # vaults[v].lastCheckIn
                       THEN revivals[v] + 1 ELSE revivals[v]]
    /\ \A v \in VaultId : revivals'[v] <= MaxRevivals
    /\ UNCHANGED <<tracked, sweep, poll, mempool, quorumMet, crashes, told, disruptions>>

\* Both loops ran since the last tick and what they sent was mined.
Quiet ==
    /\ sweep.step = "idle" /\ sweep.at = now
    /\ poll.step = "idle" /\ poll.at = now
    /\ mempool = <<>>

ClockTick ==
    /\ Tick
    /\ IF Quiet THEN UNCHANGED disruptions ELSE Disrupt
    /\ UNCHANGED <<tracked, sweep, poll, mempool, quorumMet, crashes, told, revivals>>

Syncing == (\E v \in VaultId : SyncState(v)) \/ SyncTiming \/ LoopsStart

SweepWork ==
    \/ SweepRows
    \/ \E v \in VaultId : RemindOwner(v) \/ AnnounceDispute(v) \/ SendDue(v)
    \/ RecordDispute
    \/ Advance
    \/ SweepEnd

PollWork ==
    \/ \E v \in VaultId : PollStatus(v)
    \/ SubmitResult
    \/ RecordRelay
    \/ FinishRelay
    \/ PollEnd

RelayNext ==
    \/ Boot
    \/ SweepStart
    \/ Syncing
    \/ SyncFails
    \/ SweepWork
    \/ \E v \in VaultId : SendDueFails(v) \/ PollFails(v) \/ EnclaveAttests(v)
    \/ PollStart
    \/ PollWork
    \/ Crash
    \/ Mine
    \/ OtherTransaction
    \/ ClockTick

\* The operator restarts the service when it is down, its tickers fire, its goroutines
\* run, transactions are mined and time passes.  Nobody else has to act.
RelaySpec ==
    /\ RelayInit
    /\ [][RelayNext]_relayVars
    /\ WF_relayVars(Boot)
    /\ WF_relayVars(SweepStart)
    /\ WF_relayVars(Syncing)
    /\ WF_relayVars(SweepWork)
    /\ WF_relayVars(PollStart)
    /\ WF_relayVars(PollWork)
    /\ WF_relayVars(Mine)
    /\ WF_relayVars(ClockTick)

-----------------------------------------------------------------------------

SweepType == [step : {"down", "sync", "read", "idle", "work", "announced", "sent"},
              left : SUBSET VaultId, vault : VaultId \cup {0},
              seen : (VaultState \ Terminal) \cup {"UNTRACKED"},
              rows : [VaultId -> Row], at : Nat]

PollType == [step : {"down", "idle", "ask", "met", "sent", "recorded"},
             left : SUBSET VaultId, vault : VaultId \cup {0}, at : Nat]

RelayerTypeOK ==
    /\ tracked \in [VaultId -> Row]
    /\ sweep \in SweepType
    /\ (sweep.step \in {"read", "announced", "sent"}) <=> (sweep.vault # 0)
    /\ poll \in PollType
    /\ sweep.step = "down" => poll.step = "down"
    /\ mempool \in Seq(Tx)
    /\ quorumMet \subseteq VaultId
    /\ told \subseteq VaultId
    /\ revivals \in [VaultId -> 0..MaxRevivals]
    /\ {crashes, disruptions, crashes + disruptions} \subseteq 0..MaxTroubles

Rank == [ACTIVE |-> 0, WARNING |-> 1, QUORUM_PENDING |-> 2, DISPUTE_WINDOW |-> 3,
         FINAL_WINDOW |-> 4, FULLY_RELEASED |-> 5]

\* watcher.go, processDisputeWindowVault: no call to finalizeDisputeWindow is sent
\* for a dispute the owner was not told of, although the polling goroutine writes
\* the row, the flag that says so is cleared and set by both loops, and the
\* service may stop between any two of these writes.
NoticeBeforeTranche ==
    [][\A v \in VaultId :
          mempool' = Append(mempool, [kind |-> "finalizeDisputeWindow", vault |-> v])
              => v \in told]_relayVars

\* store.go, UpdateState: it writes whatever it is given, from rows that two
\* goroutines read earlier.  Outside the sync a row still only moves to the next
\* state of the lifecycle, never back and never past one.
CopyFollowsLifecycle ==
    [][\A v \in VaultId :
          sweep.step # "read" /\ tracked'[v].state # tracked[v].state =>
              Rank[tracked'[v].state] = Rank[tracked[v].state] + 1]_relayVars

\* watcher.go, runSweep: as long as calls succeed in time one pass is enough.
\* Whatever a sync, a restart or the polling goroutine writes meanwhile, no row is due
\* when the clock goes on.
DueIsServed ==
    [][now' # now /\ disruptions' = 0 =>
          \A v \in VaultId : ~IsDue(tracked[v], now)]_relayVars

PendingFor(v) == Cardinality({i \in DOMAIN mempool : mempool[i].vault = v})

\* watcher.go, UpdateState after sending: as long as calls succeed in time and the
\* owner stays silent, the copy is ahead of the registry only by the transactions
\* in flight, through restarts in the middle of a pass and beside other keepers.
CopyAheadByPending ==
    \A v \in VaultId :
        Smooth /\ revivals[v] = 0 /\ tracked[v] # NoRow /\ vaults[v].state # "CLOSED" =>
            Rank[tracked[v].state] <= Rank[vaults[v].state] + PendingFor(v)

\* Enough of the bounded time is left to walk through all the windows from the
\* last sign of life, or through the last two from now.
TimeForAll(v) ==
    /\ v < nextVaultId
    /\ vaults[v].lastCheckIn + ToRelease(v) + 7 <= MaxTime

TimeForLast(v) ==
    /\ v \in quorumMet
    /\ now + vaults[v].timing.disputeWindow + vaults[v].timing.finalWindow + 5 <= MaxTime

Over(v) == v < nextVaultId /\ vaults[v].state \in Terminal

\* The relayer's promise: if calls succeed in time, the vault of an owner who is
\* silent from its creation on is released once the enclave has its quorum, even
\* if the relayer is restarted or other keepers move the vault.
SilentOwnerIsReleased ==
    \A v \in VaultId :
        [](Smooth /\ revivals[v] = 0) /\ <>TimeForAll(v) /\ <>TimeForLast(v) => <>Over(v)

\* relayer/README.md:7: "the automation engine that makes the vault lifecycle work
\* without manual intervention": the same for an owner who falls silent later.
SilenceIsActedUpon ==
    \A v \in VaultId :
        []Smooth /\ <>[]TimeForAll(v) /\ <>TimeForLast(v) => <>Over(v)
=============================================================================
