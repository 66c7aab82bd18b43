----------------------------- MODULE ScriptProofs -----------------------------
(***************************************************************************)
(* The end-to-end script on a chain that it shares: for any amounts, any   *)
(* windows and any number of steps of others, the contracts keep what they *)
(* promise, and the owners of other vaults are spared.                     *)
(***************************************************************************)
EXTENDS LifecycleScript, RouterProofs, VaultRefinementProofs, SequenceTheorems,
        FiniteSetTheorems

-----------------------------------------------------------------------------
(* What the script's steps do to the chain.                                *)

\* The chain's clock jumps.
Elapsed ==
    \E n \in Nat : now' = now + n /\ UNCHANGED <<registryVars, token, ledger, routerVars>>

\* A stranger at the router, where the registry's own storage stays.
AtRouter == RouterNext /\ UNCHANGED <<registryVars, now, ledger>>

\* A step of the registry that creates nothing.
Uncreating == [Next]_vars /\ UNCHANGED <<nextVaultId, routerVars>>

\* A vault is created for the script or for a stranger, who is his own guardian.
Creating ==
    /\ \E plan \in PlanHash, asset \in Asset :
          \/ CreateVault(ScriptOwner, plan, asset, DemoTimings, ScriptGuardian)
          \/ CreateVault(Stranger, plan, asset, DemoTimings, Stranger)
    /\ UNCHANGED routerVars

ChainStep == Uncreating \/ Creating \/ AtRouter \/ Elapsed

\* A jump of the clock breaks nothing.
LEMMA ElapsedHolds == RouterInv /\ Elapsed => RouterInv'
<1> SUFFICES ASSUME RouterInv, Elapsed PROVE RouterInv'
  OBVIOUS
<1>1. PICK n \in Nat : now' = now + n /\ UNCHANGED <<registryVars, token, ledger, routerVars>>
  BY DEF Elapsed
<1>2. TypeOK' /\ now' \in Nat /\ now' >= now
  BY <1>1 DEF RouterInv, IInv, TypeOK, registryVars
<1>3. \A w \in VaultId : Sound(w)'
  BY <1>1, <1>2, UntouchedSound DEF RouterInv, IInv, registryVars
<1>4. IInv'
  BY <1>2, <1>3 DEF IInv
<1>5. nextVaultId' = nextVaultId /\ nextVaultId \in Nat
  BY <1>1 DEF RouterInv, IInv, TypeOK, registryVars
<1>6. QED
  BY <1>1, <1>4, <1>5, QuietHolds DEF registryVars, routerVars

\* A creation is a step of the registry.
LEMMA CreatingIsNext == Creating => Next /\ UNCHANGED routerVars
<1>1. /\ ScriptOwner \in Account /\ Stranger \in Account
      /\ ScriptOwner \in VaultOwner /\ Stranger \in VaultOwner
      /\ ScriptGuardian \in GuardianKey /\ Stranger \in GuardianKey
      /\ DemoTimings \in Timing
  BY ScriptAssumption, RegistryAssumption
<1>2. QED
  BY <1>1 DEF Creating, Next, OwnerStep

\* The contracts' invariant survives whatever happens on the chain.
LEMMA ChainStepHolds == RouterInv /\ ChainStep => RouterInv'
<1>1. Uncreating \/ Creating \/ AtRouter => [RouterNext]_<<vars, routerVars>>
  BY CreatingIsNext DEF Uncreating, AtRouter, RouterNext
<1>2. QED
  BY <1>1, RouterNextHolds, ElapsedHolds DEF ChainStep

\* Ids are handed out in order, and what was fixed at creation stays.
LEMMA ChainKeepsConfig ==
    ASSUME RouterInv, ChainStep
    PROVE  /\ nextVaultId' >= nextVaultId
           /\ \A v \in VaultId : v < nextVaultId => IdentityKept(v)
<1>1. nextVaultId \in Nat /\ IInv
  BY DEF RouterInv, IInv, TypeOK
<1>2. CASE Uncreating
  BY <1>1, <1>2, StepKeepsConfig DEF Uncreating
<1>3. CASE Creating
  <2>1. nextVaultId' = nextVaultId + 1
    BY <1>3 DEF Creating, CreateVault
  <2>2. [Next]_vars
    BY <1>3, CreatingIsNext
  <2>3. QED
    BY <1>1, <2>1, <2>2, StepKeepsConfig
<1>4. CASE AtRouter \/ Elapsed
  BY <1>1, <1>4 DEF AtRouter, Elapsed, registryVars, IdentityKept
<1>5. QED
  BY <1>2, <1>3, <1>4 DEF ChainStep

\* And it moves every vault along its documented life, or not at all.
LEMMA ChainStepMaps == RouterInv /\ ChainStep => AbstractStep
<1> SUFFICES ASSUME RouterInv, ChainStep PROVE AbstractStep
  OBVIOUS
<1>1. IInv /\ IInv'
  BY ChainStepHolds DEF RouterInv
<1>2. CASE Uncreating \/ Creating
  BY <1>1, <1>2, CreatingIsNext, NextMaps DEF Uncreating
<1>3. CASE AtRouter \/ Elapsed
  <2>1. vaults' = vaults /\ ledger' = ledger /\ nextVaultId' = nextVaultId
    BY <1>3 DEF AtRouter, Elapsed, registryVars
  <2>2. PhaseMap' = PhaseMap /\ HeldMap' = HeldMap /\ PaidMap' = PaidMap
    BY <2>1 DEF PhaseMap, HeldMap, PaidMap, PhaseOf
  <2>3. QED
    BY <2>2, StandStill
<1>4. QED
  BY <1>2, <1>3 DEF ChainStep

-----------------------------------------------------------------------------
(* The shape of the scenarios.                                             *)

OpName == {"createVault", "readId", "fundVault", "checkIn", "markWarning",
           "requestAttestation", "submitQuorumResult", "finalizeDisputeWindow",
           "finalizeFinalWindow", "guardianHalt", "ownerOverride", "cancelVault",
           "advanceTime", "assertState", "assertBalance"}

Deed == {d \in [op : OpName, n : Nat] : d.op = "fundVault" => d.n \in Amount}

\* The calls that take funds out of a vault or bring that about.
Releasing == {"submitQuorumResult", "finalizeDisputeWindow", "finalizeFinalWindow"}

\* Step k is a deposit into the vault that step i is about.
Deposited(p, k, i) ==
    p[k].op = "fundVault" /\ \A j \in k..i : p[j].op # "readId"

\* A scenario starts with a vault of its own, and drives only a vault that it has
\* put funds into towards release.
WellFormed(p) ==
    /\ p \in Seq(Deed)
    /\ p # <<>> => Len(p) >= 2 /\ p[1].op = "createVault" /\ p[2].op = "readId"
    /\ \A i \in 1..Len(p) :
          p[i].op \in Releasing => \E k \in 1..(i - 1) : Deposited(p, k, i)

\* One scenario after another is well-formed.
LEMMA Joined ==
    ASSUME NEW p, NEW q, WellFormed(p), WellFormed(q)
    PROVE  WellFormed(p \o q)
<1> DEFINE pq == p \o q
<1>1. p \in Seq(Deed) /\ q \in Seq(Deed) /\ Len(p) \in Nat /\ Len(q) \in Nat
  BY LenProperties DEF WellFormed
<1>2. /\ pq \in Seq(Deed)
      /\ Len(pq) = Len(p) + Len(q)
      /\ \A i \in 1..Len(p) : pq[i] = p[i]
      /\ \A i \in 1..Len(q) : pq[i + Len(p)] = q[i]
  BY <1>1, ConcatProperties
<1> HIDE DEF pq
<1>3. ASSUME pq # <<>>
      PROVE  Len(pq) >= 2 /\ pq[1].op = "createVault" /\ pq[2].op = "readId"
  <2>1. CASE p = <<>>
    <3>1. pq = q
      BY <1>1, <2>1, ConcatEmptySeq DEF pq
    <3>2. QED
      BY <1>3, <3>1 DEF WellFormed
  <2>2. CASE p # <<>>
    <3>1. Len(p) >= 2 /\ p[1].op = "createVault" /\ p[2].op = "readId"
      BY <2>2 DEF WellFormed
    <3>2. Len(pq) >= 2 /\ 1 \in 1..Len(p) /\ 2 \in 1..Len(p)
      BY <1>1, <1>2, <3>1
    <3>3. QED
      BY <1>2, <3>1, <3>2
  <2>3. QED
    BY <2>1, <2>2
<1>4. ASSUME NEW i \in 1..Len(pq), pq[i].op \in Releasing
      PROVE  \E k \in 1..(i - 1) : Deposited(pq, k, i)
  <2>1. CASE i <= Len(p)
    <3>1. i \in 1..Len(p) /\ p[i].op \in Releasing
      BY <1>1, <1>2, <1>4, <2>1
    <3>2. PICK k \in 1..(i - 1) : Deposited(p, k, i)
      BY <3>1 DEF WellFormed
    <3>3. \A j \in k..i : pq[j] = p[j]
      BY <1>1, <1>2, <3>1
    <3>4. k \in k..i
      BY <3>1
    <3>5. Deposited(pq, k, i)
      BY <3>2, <3>3, <3>4 DEF Deposited
    <3>6. QED
      BY <3>5
  <2>2. CASE i > Len(p)
    <3>1. i - Len(p) \in 1..Len(q) /\ pq[i] = q[i - Len(p)]
      <4>1. /\ i - Len(p) \in 1..Len(q)
            /\ i = (i - Len(p)) + Len(p)
        <5>1. i \in 1..(Len(p) + Len(q))
          BY <1>2
        <5>2. QED
          BY <1>1, <2>2, <5>1
      <4>2. QED
        BY <1>2, <4>1
    <3>2. PICK k \in 1..((i - Len(p)) - 1) : Deposited(q, k, i - Len(p))
      BY <1>4, <3>1 DEF WellFormed
    <3>3. k + Len(p) \in 1..(i - 1)
      <4>1. i \in Int /\ k \in Int /\ 1 <= k /\ k <= (i - Len(p)) - 1
        BY <1>1, <3>1, <3>2
      <4>2. QED
        BY <1>1, <4>1
    <3>4. pq[k + Len(p)].op = "fundVault"
      <4>1. k \in 1..Len(q)
        BY <1>1, <3>1
      <4>2. pq[k + Len(p)] = q[k]
        BY <1>2, <4>1
      <4>3. QED
        BY <3>2, <4>2 DEF Deposited
    <3>5. ASSUME NEW j \in (k + Len(p))..i PROVE pq[j].op # "readId"
      <4>1. j - Len(p) \in k..(i - Len(p)) /\ j - Len(p) \in 1..Len(q) /\ j = (j - Len(p)) + Len(p)
        BY <1>1, <3>1, <3>2
      <4>2. pq[j] = q[j - Len(p)]
        BY <1>2, <4>1
      <4>3. QED
        BY <3>2, <4>1, <4>2 DEF Deposited
    <3>6. QED
      BY <3>3, <3>4, <3>5 DEF Deposited
  <2>3. QED
    BY <1>1, <1>2, <2>1, <2>2
<1>5. QED
  BY <1>2, <1>3, <1>4 DEF WellFormed, pq

\* The waits are natural numbers, the deposits amounts.
LEMMA ScriptNumbers ==
    /\ DemoTimings \in TimingType /\ Pause \in Nat
    /\ FundAmount.happy \in Amount /\ FundAmount.halt \in Amount /\ FundAmount.cancel \in Amount
    /\ Amount \subseteq Nat
    /\ FundAmount = [happy |-> 2, halt |-> 4, override |-> 0, cancel |-> 1]
BY ScriptAssumption, RegistryAssumption, TimingTyped DEF FundAmount

\* A scenario whose third step is a deposit.
LEMMA FundedAtOnce ==
    ASSUME NEW p \in Seq(Deed), Len(p) >= 3,
           p[1].op = "createVault", p[2].op = "readId", p[3].op = "fundVault",
           \A i \in 1..Len(p) : p[i].op \in Releasing => i > 3,
           \A i \in 3..Len(p) : p[i].op # "readId"
    PROVE  WellFormed(p)
<1>1. Len(p) \in Nat
  BY LenProperties
<1>2. ASSUME NEW i \in 1..Len(p), p[i].op \in Releasing
      PROVE  3 \in 1..(i - 1) /\ Deposited(p, 3, i)
  BY <1>1, <1>2 DEF Deposited
<1>3. QED
  BY <1>2 DEF WellFormed

\* Each scenario is well-formed, and so is no scenario at all.
LEMMA ScenariosWellFormed ==
    /\ WellFormed(<<>>)
    /\ WellFormed(ScenarioHappyPath)
    /\ WellFormed(ScenarioGuardianHalt)
    /\ WellFormed(ScenarioOwnerOverride)
    /\ WellFormed(ScenarioCancel)
<1> USE DEF Create, ToPending, Do, Fund, Holds, InState, Missed, AdvanceTime
<1>1. WellFormed(<<>>)
  BY EmptySeq DEF WellFormed
<1>2. WellFormed(ScenarioHappyPath)
  <2>1. ScenarioHappyPath \in Seq(Deed)
    BY ScriptNumbers DEF ScenarioHappyPath, Deed, OpName, TimingType
  <2>2. /\ Len(ScenarioHappyPath) = 22
        /\ ScenarioHappyPath[1].op = "createVault" /\ ScenarioHappyPath[2].op = "readId"
        /\ ScenarioHappyPath[3].op = "fundVault"
        /\ \A i \in 1..22 : ScenarioHappyPath[i].op \in Releasing => i > 3
        /\ \A i \in 3..22 : ScenarioHappyPath[i].op # "readId"
    BY DEF ScenarioHappyPath, Releasing
  <2>3. /\ \A i \in 1..Len(ScenarioHappyPath) : ScenarioHappyPath[i].op \in Releasing => i > 3
        /\ \A i \in 3..Len(ScenarioHappyPath) : ScenarioHappyPath[i].op # "readId"
        /\ Len(ScenarioHappyPath) >= 3
    BY <2>2
  <2>4. QED
    BY <2>1, <2>2, <2>3, FundedAtOnce
<1>3. WellFormed(ScenarioGuardianHalt)
  <2>1. ScenarioGuardianHalt \in Seq(Deed)
    BY ScriptNumbers DEF ScenarioGuardianHalt, Deed, OpName, TimingType
  <2>2. /\ Len(ScenarioGuardianHalt) = 14
        /\ ScenarioGuardianHalt[1].op = "createVault" /\ ScenarioGuardianHalt[2].op = "readId"
        /\ ScenarioGuardianHalt[3].op = "fundVault"
        /\ \A i \in 1..14 : ScenarioGuardianHalt[i].op \in Releasing => i > 3
        /\ \A i \in 3..14 : ScenarioGuardianHalt[i].op # "readId"
    BY DEF ScenarioGuardianHalt, Releasing
  <2>3. /\ \A i \in 1..Len(ScenarioGuardianHalt) : ScenarioGuardianHalt[i].op \in Releasing => i > 3
        /\ \A i \in 3..Len(ScenarioGuardianHalt) : ScenarioGuardianHalt[i].op # "readId"
        /\ Len(ScenarioGuardianHalt) >= 3
    BY <2>2
  <2>4. QED
    BY <2>1, <2>2, <2>3, FundedAtOnce
<1>4. WellFormed(ScenarioOwnerOverride)
  <2>1. ScenarioOwnerOverride \in Seq(Deed)
    BY ScriptNumbers DEF ScenarioOwnerOverride, Deed, OpName, TimingType
  <2>2. /\ Len(ScenarioOwnerOverride) = 9
        /\ ScenarioOwnerOverride[1].op = "createVault" /\ ScenarioOwnerOverride[2].op = "readId"
        /\ \A i \in 1..9 : ScenarioOwnerOverride[i].op \notin Releasing
    BY DEF ScenarioOwnerOverride, Releasing
  <2>3. QED
    BY <2>1, <2>2 DEF WellFormed
<1>5. WellFormed(ScenarioCancel)
  <2>1. ScenarioCancel \in Seq(Deed)
    BY ScriptNumbers DEF ScenarioCancel, Deed, OpName, TimingType
  <2>2. /\ Len(ScenarioCancel) = 6
        /\ ScenarioCancel[1].op = "createVault" /\ ScenarioCancel[2].op = "readId"
        /\ \A i \in 1..6 : ScenarioCancel[i].op \notin Releasing
    BY DEF ScenarioCancel, Releasing
  <2>3. QED
    BY <2>1, <2>2 DEF WellFormed
<1>6. QED
  BY <1>1, <1>2, <1>3, <1>4, <1>5

\* Whatever the argument, the program is well-formed.
LEMMA ProgramWellFormed == WellFormed(Program)
<1> DEFINE H == Part("happy", ScenarioHappyPath)
           G == Part("halt", ScenarioGuardianHalt)
           O == Part("override", ScenarioOwnerOverride)
           C == Part("cancel", ScenarioCancel)
<1>1. WellFormed(H) /\ WellFormed(G) /\ WellFormed(O) /\ WellFormed(C)
  BY ScenariosWellFormed DEF Part
<1> HIDE DEF H, G, O, C
<1>2. WellFormed(H \o G \o O \o C)
  BY <1>1, Joined
<1>3. QED
  BY <1>2 DEF Program, H, G, O, C
-----------------------------------------------------------------------------
(* The invariant of script and chain together.                             *)

\* The first two steps are behind the script: there is a vault, and it has read
\* an id back.
Position ==
    /\ outcome = "running" => pc <= Len(Program)
    /\ sent => pc >= 1
    /\ pc >= 2 => nextVaultId >= 2
    /\ pc >= 3 => mine >= 1

\* The registry has the script's vaults and strangers' vaults.
Owners ==
    \A v \in VaultId : v < nextVaultId =>
        \/ vaults[v].owner = ScriptOwner /\ vaults[v].guardianHaltKey = ScriptGuardian
        \/ vaults[v].owner = Stranger /\ vaults[v].guardianHaltKey = Stranger

\* Once a deposit has passed gas estimation the vault is the script's own, until
\* another id is read back.
Claimed ==
    \A k \in 1..Len(Program) :
        (k < pc \/ (k = pc /\ sent)) /\ Deposited(Program, k, k)
            /\ (\A j \in k..(pc - 1) : Program[j].op # "readId")
        => vaults[mine].owner = ScriptOwner

ScriptInv == RouterInv /\ ScriptTypeOK /\ Position /\ Owners /\ Claimed

\* The program is fixed by the argument.
LEMMA ProgramKept == scenario' = scenario => Program' = Program
BY DEF Program, Part

\* What the program looks like where the script runs.
LEMMA ProgramSteps ==
    /\ Len(Program) \in Nat
    /\ \A i \in 1..Len(Program) :
          /\ Program[i] \in Deed
          /\ i = 1 => Program[i].op = "createVault"
          /\ i = 2 => Program[i].op = "readId"
<1>1. PICK p : p = Program
  OBVIOUS
<1>2. WellFormed(p)
  BY <1>1, ProgramWellFormed
<1>3. p \in Seq(Deed) /\ Len(p) \in Nat
  BY <1>2, LenProperties DEF WellFormed
<1>4. ASSUME NEW i \in 1..Len(p) PROVE p[i] \in Deed
  BY <1>3, ElementOfSeq
<1>5. Len(p) >= 1 => p # <<>>
  BY EmptySeq
<1>6. ASSUME NEW i \in 1..Len(p)
      PROVE  (i = 1 => p[i].op = "createVault") /\ (i = 2 => p[i].op = "readId")
  BY <1>2, <1>3, <1>5 DEF WellFormed
<1>7. QED
  BY <1>1, <1>3, <1>4, <1>6

\* Where the script runs there is a step, after the second one a vault to do it with.
LEMMA WhereItRuns ==
    ASSUME ScriptInv, outcome = "running", pc > 0
    PROVE  /\ pc \in 1..Len(Program) /\ Len(Program) \in Nat
           /\ Step = Program[pc] /\ Step \in Deed
           /\ Step.op \notin {"createVault", "readId"} => mine \in VaultId
           /\ Step.op = "readId" => pc >= 2
           /\ Step.op # "createVault" => pc >= 2
           /\ Step.op # "readId" => pc # 2
<1>1. pc \in 1..Len(Program)
  BY ProgramSteps DEF ScriptInv, ScriptTypeOK, Position
<1>2. /\ Step \in Deed
      /\ pc = 1 => Step.op = "createVault"
      /\ pc = 2 => Step.op = "readId"
  BY <1>1, ProgramSteps DEF Step
<1>3. MaxVaultId \in Nat /\ mine \in 0..MaxVaultId
  BY RegistryAssumption DEF ScriptInv, ScriptTypeOK
<1>4. QED
  BY <1>1, <1>2, <1>3, ProgramSteps DEF ScriptInv, Position, VaultId, Step

\* Vaults keep their owners, and new ones have an owner of either kind.
LEMMA OwnersHold ==
    ASSUME RouterInv, Owners, ChainStep
    PROVE  Owners'
<1>1. /\ nextVaultId \in Nat
      /\ \A v \in VaultId : v < nextVaultId => IdentityKept(v)
  BY ChainKeepsConfig DEF RouterInv, IInv, TypeOK
<1>2. ASSUME NEW v \in VaultId, v < nextVaultId
      PROVE  \/ vaults'[v].owner = ScriptOwner /\ vaults'[v].guardianHaltKey = ScriptGuardian
             \/ vaults'[v].owner = Stranger /\ vaults'[v].guardianHaltKey = Stranger
  BY <1>1, <1>2 DEF Owners, IdentityKept
<1>3. CASE Creating
  <2>1. PICK caller \in {ScriptOwner, Stranger}, guardian \in {ScriptGuardian, Stranger},
             plan \in PlanHash, asset \in Asset :
           /\ \/ caller = ScriptOwner /\ guardian = ScriptGuardian
              \/ caller = Stranger /\ guardian = Stranger
           /\ CreateVault(caller, plan, asset, DemoTimings, guardian)
    BY <1>3 DEF Creating
  <2>2. caller \in Account /\ guardian \in GuardianKey /\ DemoTimings \in Timing
    BY <2>1, ScriptAssumption, RegistryAssumption
  <2>3. /\ vaults'[nextVaultId].owner = caller
        /\ vaults'[nextVaultId].guardianHaltKey = guardian
        /\ nextVaultId' = nextVaultId + 1
    <3>1. TypeOK
      BY DEF RouterInv, IInv
    <3>2. nextVaultId' = nextVaultId + 1
      BY <2>1 DEF CreateVault
    <3>3. /\ vaults'[nextVaultId].owner = caller
          /\ vaults'[nextVaultId].guardianHaltKey = guardian
      BY <2>1, <2>2, <3>1, CreateEffect
    <3>4. QED
      BY <3>2, <3>3
  <2>4. ASSUME NEW v \in VaultId, v < nextVaultId' PROVE v < nextVaultId \/ v = nextVaultId
    BY <1>1, <2>3, <2>4 DEF VaultId
  <2>5. QED
    BY <1>2, <2>1, <2>3, <2>4 DEF Owners
<1>4. CASE nextVaultId' = nextVaultId
  BY <1>2, <1>4 DEF Owners
<1>5. QED
  BY <1>3, <1>4 DEF ChainStep, Uncreating, AtRouter, Elapsed, registryVars

\* A vault that is the script's own stays it.
LEMMA OwnStays ==
    ASSUME RouterInv, ChainStep, NEW v \in VaultId, vaults[v].owner = ScriptOwner
    PROVE  vaults'[v].owner = ScriptOwner
<1>1. ScriptOwner # NoAddress
  BY ScriptAssumption, RegistryAssumption
<1>2. v < nextVaultId
  BY <1>1 DEF RouterInv, IInv, Sound, IdentityOf
<1>3. QED
  BY <1>2, ChainKeepsConfig DEF IdentityKept

-----------------------------------------------------------------------------
(* Every step is a step of the chain.                                      *)

\* The call the script sent, when it is mined without reverting.
LEMMA CallIsChainStep ==
    ASSUME NEW d \in Deed, Call(d), d.op = "createVault" \/ mine \in VaultId,
           UNCHANGED routerVars
    PROVE  ChainStep /\ (d.op = "createVault" => Creating)
<1>1. /\ ScriptOwner \in Account /\ ScriptGuardian \in Account /\ EnclaveOracle \in Account
      /\ Fxrp \in Asset /\ TRUE \in BOOLEAN
  BY ScriptAssumption, RegistryAssumption, RouterAssumption
<1>2. CASE d.op = "createVault"
  BY <1>1, <1>2 DEF Call, Creating, ChainStep
<1>3. CASE d.op = "fundVault"
  <2>1. FundVault(ScriptOwner, mine, d.n) /\ d.n \in Amount /\ mine \in VaultId
    BY <1>3 DEF Call, Deed
  <2>2. Next /\ nextVaultId' = nextVaultId
    BY <1>1, <2>1 DEF Next, OwnerStep, FundVault
  <2>3. QED
    BY <1>3, <2>2 DEF ChainStep, Uncreating
<1>4. CASE d.op \in {"checkIn", "ownerOverride", "cancelVault"}
  <2>1. /\ CheckIn(ScriptOwner, mine) \/ OwnerOverride(ScriptOwner, mine)
              \/ CancelVault(ScriptOwner, mine)
        /\ mine \in VaultId
    BY <1>4 DEF Call
  <2>2. Next /\ nextVaultId' = nextVaultId
    BY <1>1, <2>1 DEF Next, OwnerStep, CheckIn, OwnerOverride, CancelVault
  <2>3. QED
    BY <1>4, <2>2 DEF ChainStep, Uncreating
<1>5. CASE d.op = "guardianHalt"
  <2>1. GuardianHalt(ScriptGuardian, mine) /\ mine \in VaultId
    BY <1>5 DEF Call
  <2>2. Next /\ nextVaultId' = nextVaultId
    BY <1>1, <2>1 DEF Next, GuardianStep, GuardianHalt
  <2>3. QED
    BY <1>5, <2>2 DEF ChainStep, Uncreating
<1>6. CASE d.op = "submitQuorumResult"
  <2>1. SubmitQuorumResult(EnclaveOracle, mine, TRUE) /\ mine \in VaultId
    BY <1>6 DEF Call
  <2>2. Next /\ nextVaultId' = nextVaultId
    BY <1>1, <2>1 DEF Next, OracleStep, SubmitQuorumResult
  <2>3. QED
    BY <1>6, <2>2 DEF ChainStep, Uncreating
<1>7. CASE d.op \in {"markWarning", "requestAttestation", "finalizeDisputeWindow",
                     "finalizeFinalWindow"}
  <2>1. /\ MarkWarning(mine) \/ RequestAttestation(mine) \/ FinalizeDisputeWindow(mine)
              \/ FinalizeFinalWindow(mine)
        /\ mine \in VaultId
    BY <1>7 DEF Call
  <2>2. Next /\ nextVaultId' = nextVaultId
    BY <2>1 DEF Next, KeeperStep, MarkWarning, RequestAttestation, FinalizeDisputeWindow,
                FinalizeFinalWindow
  <2>3. QED
    BY <1>7, <2>2 DEF ChainStep, Uncreating
<1>8. QED
  BY <1>2, <1>3, <1>4, <1>5, <1>6, <1>7 DEF Call

\* Everybody else, and the clock.
LEMMA OthersAreChainSteps == OtherStep \/ TimePasses => ChainStep
<1>1. /\ Stranger \in Account /\ RouterAdmin \in Account /\ EnclaveOracle \in Account
      /\ OthersAmount \subseteq Amount /\ 1 \in VaultId /\ TRUE \in BOOLEAN
  BY ScriptAssumption, RegistryAssumption, RouterAssumption DEF VaultId
<1>2. CASE TimePasses
  BY <1>2 DEF TimePasses, Tick, ChainStep, Uncreating, Next, registryVars
<1>3. ASSUME StrangerOwns, UNCHANGED routerVars PROVE ChainStep
  <2>1. CASE \E plan \in PlanHash, asset \in Asset :
                CreateVault(Stranger, plan, asset, DemoTimings, Stranger)
    BY <1>3, <2>1 DEF ChainStep, Creating
  <2>2. ASSUME NEW v \in VaultId,
               \/ CheckIn(Stranger, v) \/ OwnerOverride(Stranger, v)
               \/ CancelVault(Stranger, v)
               \/ \E amount \in OthersAmount : FundVault(Stranger, v, amount)
        PROVE  ChainStep
    <3>1. Next
      BY <1>1, <2>2 DEF Next, OwnerStep
    <3>2. nextVaultId' = nextVaultId
      BY <2>2 DEF CheckIn, OwnerOverride, CancelVault, FundVault
    <3>3. QED
      BY <1>3, <3>1, <3>2 DEF ChainStep, Uncreating
  <2>3. ASSUME NEW v \in VaultId, GuardianHalt(Stranger, v) PROVE ChainStep
    <3>1. Next /\ nextVaultId' = nextVaultId
      BY <1>1, <2>3 DEF Next, GuardianStep, GuardianHalt
    <3>2. QED
      BY <1>3, <3>1 DEF ChainStep, Uncreating
  <2>4. QED
    BY <1>3, <2>1, <2>2, <2>3 DEF StrangerOwns
<1>4. ASSUME StrangerRoutes PROVE ChainStep
  <2>1. RouterNext
    BY <1>1, <1>4 DEF StrangerRoutes, RouterNext
  <2>2. UNCHANGED <<registryVars, now, ledger>>
    BY <1>4 DEF StrangerRoutes, AllowlistFAsset, FundWithFAsset, RedeemToNative,
                TransferDirectly, vars, registryVars
  <2>3. QED
    BY <2>1, <2>2 DEF ChainStep, AtRouter
<1>5. ASSUME KeeperStep, UNCHANGED routerVars PROVE ChainStep
  <2>1. nextVaultId' = nextVaultId
    BY <1>5 DEF KeeperStep, MarkWarning, RequestAttestation, FinalizeDisputeWindow,
                FinalizeFinalWindow
  <2>2. QED
    BY <1>5, <2>1 DEF ChainStep, Uncreating, Next
<1>6. ASSUME NEW v \in VaultId, SubmitQuorumResult(EnclaveOracle, v, TRUE),
             UNCHANGED routerVars
      PROVE  ChainStep
  <2>1. Next /\ nextVaultId' = nextVaultId
    BY <1>1, <1>6 DEF Next, OracleStep, SubmitQuorumResult
  <2>2. QED
    BY <1>6, <2>1 DEF ChainStep, Uncreating
<1>7. QED
  BY <1>2, <1>3, <1>4, <1>5, <1>6 DEF OtherStep

\* A step at which the chain stands still.
LEMMA StillIsChainStep == UNCHANGED <<vars, routerVars>> => ChainStep
BY DEF ChainStep, Uncreating, vars, routerVars
-----------------------------------------------------------------------------
(* Every step preserves the invariant.                                     *)

\* The script starts with no vault of anybody's.
LEMMA ScriptInitHolds == ScriptInit => ScriptInv
<1> SUFFICES ASSUME ScriptInit PROVE ScriptInv
  OBVIOUS
<1>1. RouterInv
  BY RouterInitHolds DEF ScriptInit
<1>2. Len(Program) \in Nat /\ MaxVaultId \in Nat
  BY ProgramSteps, RegistryAssumption
<1>3. ScriptTypeOK /\ Position
  <2>1. /\ pc = 0 /\ mine = 0 /\ outcome = "running"
        /\ ~sent /\ sent \in BOOLEAN
    BY DEF ScriptInit
  <2>2. QED
    BY <1>2, <2>1 DEF ScriptTypeOK, Position
<1>4. Owners
  BY DEF ScriptInit, Init, Owners, VaultId
<1>5. Claimed
  BY <1>2 DEF ScriptInit, Claimed
<1>6. QED
  BY <1>1, <1>3, <1>4, <1>5 DEF ScriptInv

\* What the others do, and time, leave the script where it is.
LEMMA AwayHolds ==
    ASSUME ScriptInv, ChainStep, UNCHANGED <<scenario, pc, sent, mine, outcome>>
    PROVE  ScriptInv'
<1>1. RouterInv' /\ Owners' /\ Program' = Program
  BY ChainStepHolds, OwnersHold, ProgramKept DEF ScriptInv
<1>2. ScriptTypeOK'
  BY <1>1 DEF ScriptInv, ScriptTypeOK, Step
<1>3. nextVaultId' >= nextVaultId /\ nextVaultId \in Nat /\ nextVaultId' \in Nat
  BY <1>1, ChainKeepsConfig DEF ScriptInv, RouterInv, IInv, TypeOK
<1>4. Position'
  BY <1>1, <1>3 DEF ScriptInv, Position
<1>5. ASSUME NEW k \in 1..Len(Program), Deposited(Program, k, k),
             k < pc \/ (k = pc /\ sent), vaults[mine].owner = ScriptOwner
      PROVE  vaults'[mine].owner = ScriptOwner
  <2>1. k # 1 /\ k # 2
    BY <1>5, ProgramSteps DEF Deposited
  <2>2. mine \in VaultId
    BY <1>5, <2>1, ProgramSteps, RegistryAssumption
    DEF ScriptInv, Position, ScriptTypeOK, VaultId
  <2>3. QED
    BY <1>5, <2>2, OwnStays DEF ScriptInv
<1>6. Claimed'
  <2> PICK p : p = Program
    OBVIOUS
  <2>1. \A k \in 1..Len(p) :
          (k < pc \/ (k = pc /\ sent)) /\ Deposited(p, k, k)
              /\ (\A j \in k..(pc - 1) : p[j].op # "readId")
          => vaults'[mine].owner = ScriptOwner
    BY <1>5 DEF ScriptInv, Claimed
  <2>2. Program' = p
    BY <1>1
  <2>3. QED
    BY <2>1, <2>2 DEF Claimed
<1>7. QED
  BY <1>1, <1>2, <1>4, <1>6 DEF ScriptInv

\* The script goes on to its next step, with the vault it has.
LEMMA OnwardHolds ==
    ASSUME ScriptInv, ChainStep, outcome = "running", pc > 0, Continue,
           UNCHANGED <<scenario, mine>>, sent' = FALSE,
           Step.op # "readId",
           Step.op = "fundVault" => sent,
           Step.op = "createVault" => nextVaultId' >= 2
    PROVE  ScriptInv'
<1>1. RouterInv' /\ Owners' /\ Program' = Program
  BY ChainStepHolds, OwnersHold, ProgramKept DEF ScriptInv
<1>2. /\ pc \in 1..Len(Program) /\ Len(Program) \in Nat
      /\ Step = Program[pc]
      /\ Step.op # "createVault" => pc >= 2
      /\ pc # 2
  BY WhereItRuns
<1>3. pc' = pc + 1 /\ outcome' = IF pc = Len(Program) THEN "passed" ELSE "running"
  BY DEF Continue
<1>4. ScriptTypeOK'
  <2>1. ~sent' /\ sent' \in BOOLEAN
    OBVIOUS
  <2>2. pc' \in 0..(Len(Program) + 1)
    BY <1>2, <1>3
  <2>3. QED
    BY <1>1, <1>3, <2>1, <2>2 DEF ScriptInv, ScriptTypeOK
<1>5. nextVaultId' >= nextVaultId /\ nextVaultId \in Nat /\ nextVaultId' \in Nat
  BY <1>1, ChainKeepsConfig DEF ScriptInv, RouterInv, IInv, TypeOK
<1>6. Position'
  BY <1>1, <1>2, <1>3, <1>5 DEF ScriptInv, Position
<1>7. ASSUME NEW k \in 1..Len(Program), Deposited(Program, k, k), k <= pc,
             \A j \in k..pc : Program[j].op # "readId"
      PROVE  vaults'[mine].owner = ScriptOwner
  <2>1. k # 1 /\ k # 2
    BY <1>7, ProgramSteps DEF Deposited
  <2>2. mine \in VaultId
    BY <1>2, <1>7, <2>1, RegistryAssumption DEF ScriptInv, Position, ScriptTypeOK, VaultId
  <2>3. k < pc \/ (k = pc /\ sent)
    BY <1>2, <1>7 DEF Deposited
  <2>4. \A j \in k..(pc - 1) : Program[j].op # "readId"
    BY <1>2, <1>7
  <2>5. vaults[mine].owner = ScriptOwner
    BY <1>7, <2>3, <2>4 DEF ScriptInv, Claimed
  <2>6. QED
    BY <2>2, <2>5, OwnStays DEF ScriptInv
<1>8. Claimed'
  <2> PICK p : p = Program
    OBVIOUS
  <2>1. \A k \in 1..Len(p) :
          (k < pc' \/ (k = pc' /\ sent')) /\ Deposited(p, k, k)
              /\ (\A j \in k..(pc' - 1) : p[j].op # "readId")
          => vaults'[mine].owner = ScriptOwner
    <3>1. pc' - 1 = pc
      BY <1>2, <1>3
    <3>2. \A k \in 1..Len(p) : k < pc' => k <= pc
      BY <1>2, <1>3
    <3>3. QED
      BY <1>7, <3>1, <3>2
  <2>2. Program' = p
    BY <1>1
  <2>3. QED
    BY <2>1, <2>2 DEF Claimed
<1>9. QED
  BY <1>1, <1>4, <1>6, <1>8 DEF ScriptInv

\* An assertion that fails ends the run.
LEMMA FailingHolds ==
    ASSUME ScriptInv, UNCHANGED <<vars, routerVars, scenario, pc, sent, mine>>,
           outcome' = "failed", ~sent
    PROVE  ScriptInv'
<1>1. ChainStep
  BY StillIsChainStep
<1>2. RouterInv' /\ Owners' /\ Program' = Program
  BY <1>1, ChainStepHolds, OwnersHold, ProgramKept DEF ScriptInv
<1>3. ScriptTypeOK' /\ Position'
  BY <1>2 DEF ScriptInv, ScriptTypeOK, Position, vars
<1>4. Claimed'
  BY <1>2 DEF ScriptInv, Claimed, Deposited, vars
<1>5. QED
  BY <1>2, <1>3, <1>4 DEF ScriptInv

\* The set-up.
LEMMA SetUpHolds == ScriptInv /\ SetUp => ScriptInv' /\ ChainStep
<1> SUFFICES ASSUME ScriptInv, SetUp PROVE ScriptInv' /\ ChainStep
  OBVIOUS
<1>1. /\ outcome = "running" /\ pc = 0 /\ Continue
      /\ UNCHANGED <<routerVars, scenario, prints, sent, mine, others>>
      /\ nextVaultId' = nextVaultId
  BY DEF SetUp, SetQuorumThreshold, vars
<1>2. ChainStep
  <2>1. CASE UNCHANGED vars
    BY <1>1, <2>1, StillIsChainStep
  <2>2. CASE SetQuorumThreshold(ScriptOwner, 1)
    <3>1. ScriptOwner \in Account /\ 1 \in Threshold
      BY ScriptAssumption, RegistryAssumption
    <3>2. Next
      BY <2>2, <3>1 DEF Next, AdminStep
    <3>3. QED
      BY <1>1, <3>2 DEF ChainStep, Uncreating
  <2>3. QED
    BY <2>1, <2>2 DEF SetUp
<1>3. RouterInv' /\ Owners' /\ Program' = Program
  BY <1>1, <1>2, ChainStepHolds, OwnersHold, ProgramKept DEF ScriptInv
<1>4. /\ pc' = 1 /\ outcome' = IF Len(Program) = 0 THEN "passed" ELSE "running"
      /\ sent' = FALSE /\ Len(Program) \in Nat
  BY <1>1, ProgramSteps DEF Continue, ScriptInv, Position, ScriptTypeOK
<1>5. ScriptTypeOK' /\ Position'
  BY <1>1, <1>3, <1>4 DEF ScriptInv, ScriptTypeOK, Position
<1>6. Claimed'
  BY <1>3, <1>4 DEF Claimed
<1>7. QED
  BY <1>2, <1>3, <1>5, <1>6 DEF ScriptInv

\* Only an owner's deposit passes gas estimation.
LEMMA WriteContractHolds == ScriptInv /\ WriteContract => ScriptInv' /\ ChainStep
<1> SUFFICES ASSUME ScriptInv, WriteContract PROVE ScriptInv' /\ ChainStep
  OBVIOUS
<1>1. /\ outcome = "running" /\ pc > 0 /\ ~sent /\ IsCall(Step)
      /\ UNCHANGED <<vars, routerVars, scenario, prints, pc, mine, others>>
  BY DEF WriteContract
<1>2. ChainStep
  BY <1>1, StillIsChainStep
<1>3. CASE ~WouldSucceed(Step)
  BY <1>1, <1>2, <1>3, FailingHolds DEF WriteContract
<1>4. CASE WouldSucceed(Step)
  <2>1. sent' = TRUE /\ outcome' = outcome
    BY <1>4 DEF WriteContract
  <2>2. RouterInv' /\ Owners' /\ Program' = Program
    BY <1>1, <1>2, ChainStepHolds, OwnersHold, ProgramKept DEF ScriptInv
  <2>3. pc \in 1..Len(Program) /\ Step = Program[pc] /\ Step' = Step
    BY <1>1, <2>2, WhereItRuns DEF Step
  <2>4. ScriptTypeOK'
    BY <1>1, <2>1, <2>2, <2>3 DEF ScriptInv, ScriptTypeOK, IsCall
  <2>5. Position'
    BY <1>1, <2>1, <2>2, <2>3 DEF ScriptInv, Position, vars
  <2>6. Step.op = "fundVault" => vaults[mine].owner = ScriptOwner
    BY <1>4 DEF WouldSucceed
  <2>7. Claimed'
    BY <1>1, <2>1, <2>2, <2>3, <2>6 DEF ScriptInv, Claimed, Deposited, vars
  <2>8. QED
    BY <1>2, <2>2, <2>4, <2>5, <2>7 DEF ScriptInv
<1>5. QED
  BY <1>3, <1>4

\* What was sent is mined, or reverts; either way the first id is taken.
LEMMA MinedHolds == ScriptInv /\ Mined => ScriptInv' /\ ChainStep
<1> SUFFICES ASSUME ScriptInv, Mined PROVE ScriptInv' /\ ChainStep
  OBVIOUS
<1>1. /\ sent /\ sent' = FALSE /\ Continue
      /\ UNCHANGED <<routerVars, scenario, prints, mine, others>>
  BY DEF Mined
<1>2. /\ outcome = "running" /\ pc > 0 /\ IsCall(Step)
  BY <1>1 DEF ScriptInv, ScriptTypeOK, Position
<1>3. /\ Step \in Deed /\ Step.op # "readId"
      /\ Step.op = "createVault" \/ mine \in VaultId
  BY <1>2, WhereItRuns DEF IsCall
<1>4. ChainStep /\ (Step.op = "createVault" => nextVaultId' >= 2)
  <2>1. nextVaultId \in 1..(MaxVaultId + 1) /\ MaxVaultId \in Nat /\ MaxVaultId >= 1
    BY ScriptAssumption, RegistryAssumption DEF ScriptInv, RouterInv, IInv, TypeOK
  <2>2. CASE WouldSucceed(Step)
    <3>1. PICK d : d = Step
      OBVIOUS
    <3>2. Call(d)
      BY <2>2, <3>1 DEF Mined
    <3>3. ChainStep /\ (d.op = "createVault" => Creating)
      BY <1>1, <1>3, <3>1, <3>2, CallIsChainStep
    <3>4. Creating => nextVaultId' = nextVaultId + 1
      BY DEF Creating, CreateVault
    <3>5. QED
      BY <2>1, <3>1, <3>3, <3>4
  <2>3. CASE ~WouldSucceed(Step)
    <3>1. UNCHANGED vars
      BY <2>3 DEF Mined
    <3>2. Step.op = "createVault" => ~(nextVaultId <= MaxVaultId)
      BY <2>3 DEF WouldSucceed
    <3>3. nextVaultId' = nextVaultId
      BY <3>1 DEF vars
    <3>4. QED
      BY <1>1, <2>1, <3>1, <3>2, <3>3, StillIsChainStep
  <2>4. QED
    BY <2>2, <2>3
<1>5. QED
  BY <1>1, <1>2, <1>3, <1>4, OnwardHolds

\* The id that is read back exists.
LEMMA ReadVaultIdHolds == ScriptInv /\ ReadVaultId => ScriptInv' /\ ChainStep
<1> SUFFICES ASSUME ScriptInv, ReadVaultId PROVE ScriptInv' /\ ChainStep
  OBVIOUS
<1>1. /\ outcome = "running" /\ pc > 0 /\ Step.op = "readId"
      /\ mine' = nextVaultId - 1 /\ Continue
      /\ UNCHANGED <<vars, routerVars, scenario, prints, sent, others>>
  BY DEF ReadVaultId, At
<1>2. ChainStep
  BY <1>1, StillIsChainStep
<1>3. RouterInv' /\ Owners' /\ Program' = Program
  BY <1>1, <1>2, ChainStepHolds, OwnersHold, ProgramKept DEF ScriptInv
<1>4. /\ pc \in 1..Len(Program) /\ Len(Program) \in Nat /\ pc >= 2
      /\ Step = Program[pc] /\ ~sent
      /\ pc' = pc + 1 /\ outcome' = IF pc = Len(Program) THEN "passed" ELSE "running"
  BY <1>1, WhereItRuns DEF Continue, ScriptInv, ScriptTypeOK, IsCall
<1>5. nextVaultId \in 1..(MaxVaultId + 1) /\ MaxVaultId \in Nat /\ nextVaultId >= 2
  BY <1>4, RegistryAssumption DEF ScriptInv, RouterInv, IInv, TypeOK, Position
<1>6. ScriptTypeOK' /\ Position'
  BY <1>1, <1>3, <1>4, <1>5 DEF ScriptInv, ScriptTypeOK, Position, vars
<1>7. Claimed'
  <2> PICK p : p = Program
    OBVIOUS
  <2>1. ASSUME NEW k \in 1..Len(p), k < pc' \/ (k = pc' /\ sent'),
               \A j \in k..(pc' - 1) : p[j].op # "readId"
        PROVE  FALSE
    <3>1. pc \in k..(pc' - 1)
      BY <1>1, <1>4, <2>1
    <3>2. QED
      BY <1>1, <1>4, <2>1, <3>1
  <2>2. Program' = p
    BY <1>3
  <2>3. QED
    BY <2>1, <2>2 DEF Claimed
<1>8. QED
  BY <1>2, <1>3, <1>6, <1>7 DEF ScriptInv

\* The script's waits and assertions.
LEMMA WaitsHold ==
    ScriptInv /\ (TimeAdvanced \/ AssertState \/ AssertBalance) => ScriptInv' /\ ChainStep
<1> SUFFICES ASSUME ScriptInv, TimeAdvanced \/ AssertState \/ AssertBalance
             PROVE  ScriptInv' /\ ChainStep
  OBVIOUS
<1>1. /\ outcome = "running" /\ pc > 0
      /\ Step.op \in {"advanceTime", "assertState", "assertBalance"}
      /\ UNCHANGED <<routerVars, scenario, sent, mine>>
  BY DEF TimeAdvanced, AssertState, AssertBalance, At
<1>2. Step \in Deed /\ ~sent
  BY <1>1, WhereItRuns DEF ScriptInv, ScriptTypeOK, IsCall
<1>3. CASE TimeAdvanced
  <2>1. Step.n \in Nat
    BY <1>2 DEF Deed
  <2>2. ChainStep
    BY <1>3, <2>1 DEF TimeAdvanced, ChainStep, Elapsed
  <2>3. QED
    BY <1>1, <1>2, <1>3, <2>2, OnwardHolds DEF TimeAdvanced, ScriptInv, ScriptTypeOK
<1>4. CASE AssertState \/ AssertBalance
  <2>1. UNCHANGED <<vars, routerVars>> /\ ChainStep
    BY <1>4, StillIsChainStep DEF AssertState, AssertBalance
  <2>2. Continue \/ (outcome' = "failed" /\ UNCHANGED pc)
    BY <1>4 DEF AssertState, AssertBalance, AssertEqual
  <2>3. CASE Continue
    BY <1>1, <1>2, <2>1, <2>3, OnwardHolds DEF ScriptInv, ScriptTypeOK
  <2>4. CASE outcome' = "failed" /\ UNCHANGED pc
    BY <1>1, <1>2, <2>1, <2>4, FailingHolds
  <2>5. QED
    BY <2>1, <2>2, <2>3, <2>4
<1>5. QED
  BY <1>3, <1>4

\* Every step of script and chain.
LEMMA ScriptNextHolds == ScriptInv /\ [ScriptNext]_allVars => ScriptInv' /\ ChainStep
<1> SUFFICES ASSUME ScriptInv, [ScriptNext]_allVars PROVE ScriptInv' /\ ChainStep
  OBVIOUS
<1>1. CASE ScriptStep
  BY <1>1, SetUpHolds, WriteContractHolds, MinedHolds, ReadVaultIdHolds, WaitsHold
  DEF ScriptStep
<1>2. CASE OtherStep \/ TimePasses
  <2>1. UNCHANGED <<scenario, pc, sent, mine, outcome>>
    BY <1>2 DEF OtherStep, TimePasses, scriptVars
  <2>2. QED
    BY <1>2, <2>1, OthersAreChainSteps, AwayHolds
<1>3. CASE UNCHANGED allVars
  <2>1. UNCHANGED <<scenario, pc, sent, mine, outcome>> /\ UNCHANGED <<vars, routerVars>>
    BY <1>3 DEF allVars, scriptVars
  <2>2. QED
    BY <2>1, StillIsChainStep, AwayHolds
<1>4. QED
  BY <1>1, <1>2, <1>3 DEF ScriptNext
-----------------------------------------------------------------------------

\* Every state of script and chain satisfies the invariant.
THEOREM ScriptInvariantHolds == ScriptSpec => []ScriptInv
<1>1. ScriptInv /\ [ScriptNext]_allVars => ScriptInv'
  BY ScriptNextHolds
<1>2. QED
  BY <1>1, ScriptInitHolds, PTL DEF ScriptSpec

\* The script's variables keep their types: it never stands behind the end of its
\* scenario, and waits for a receipt only where it has sent a transaction.
THEOREM ScriptTypeCorrect == ScriptSpec => []ScriptTypeOK
<1>1. ScriptInv => ScriptTypeOK
  BY DEF ScriptInv
<1>2. QED
  BY <1>1, ScriptInvariantHolds, PTL

\* Whatever the script and the others do, at the registry or past it at the router,
\* the registry holds the tokens it owes, to the unit.
THEOREM ScriptKeepsCustody == ScriptSpec => [](Solvency /\ CustodyExplained)
<1>1. ScriptInv => Solvency /\ CustodyExplained
  BY ExplainedIsSolvent DEF ScriptInv, RouterInv
<1>2. QED
  BY <1>1, ScriptInvariantHolds, PTL

\* The vaults of script and strangers keep what createVault wrote, although the
\* clock jumps and the router moves tokens under the registry.
THEOREM ScriptKeepsConfig == ScriptSpec => ConfigFixed
<1> DEFINE Kept == \A v \in VaultId : v < nextVaultId =>
                       /\ vaults'[v].owner = vaults[v].owner
                       /\ vaults'[v].planCommitmentHash = vaults[v].planCommitmentHash
                       /\ vaults'[v].fundingAsset = vaults[v].fundingAsset
                       /\ vaults'[v].timing = vaults[v].timing
                       /\ vaults'[v].guardianHaltKey = vaults[v].guardianHaltKey
<1>1. ScriptInv /\ [ScriptNext]_allVars => [Kept]_vars
  BY ScriptNextHolds, ChainKeepsConfig DEF ScriptInv, IdentityKept
<1>2. QED
  BY <1>1, ScriptInvariantHolds, PTL DEF ScriptSpec, ConfigFixed

\* Every vault, the script's and the strangers', lives its documented life.
THEOREM ScriptRefinesLifecycle == ScriptSpec => ImplementsLifecycle
<1>1. ScriptInv /\ [ScriptNext]_allVars => [Lifecycle!LifecycleNext]_(Lifecycle!lifecycleVars)
  BY ScriptNextHolds, ChainStepMaps DEF ScriptInv, AbstractStep
<1>2. ScriptInit => Lifecycle!LifecycleInit
  BY InitMaps DEF ScriptInit
<1>3. QED
  BY <1>1, <1>2, ScriptInvariantHolds, PTL
  DEF ScriptSpec, ImplementsLifecycle, Lifecycle!LifecycleSpec

-----------------------------------------------------------------------------
(* What the script does to the vault whose id it has read back.            *)

\* A call other than createVault concerns that vault alone.
LEMMA CallTouchesMine ==
    ASSUME IInv, NEW d \in Deed, d.op # "createVault", mine \in VaultId, Call(d)
    PROVE  /\ OthersKept(mine) /\ IdentityKept(mine)
           /\ \A v \in VaultId \ {mine} : ledger'[v] = ledger[v]
<1>1. /\ ScriptOwner \in Account /\ ScriptGuardian \in Account /\ EnclaveOracle \in Account
      /\ TRUE \in BOOLEAN
  BY ScriptAssumption, RegistryAssumption
<1>2. PICK v \in VaultId : v = mine
  OBVIOUS
<1>3. CASE d.op = "fundVault"
  <2>1. FundVault(ScriptOwner, v, d.n) /\ d.n \in Amount
    BY <1>2, <1>3 DEF Call, Deed
  <2>2. QED
    BY <1>1, <1>2, <2>1, VaultStep
<1>4. CASE d.op \in {"checkIn", "ownerOverride", "cancelVault"}
  <2>1. CheckIn(ScriptOwner, v) \/ OwnerOverride(ScriptOwner, v) \/ CancelVault(ScriptOwner, v)
    BY <1>2, <1>4 DEF Call
  <2>2. QED
    BY <1>1, <1>2, <2>1, VaultStep
<1>5. CASE d.op = "guardianHalt"
  <2>1. GuardianHalt(ScriptGuardian, v)
    BY <1>2, <1>5 DEF Call
  <2>2. QED
    BY <1>1, <1>2, <2>1, VaultStep
<1>6. CASE d.op = "submitQuorumResult"
  <2>1. SubmitQuorumResult(EnclaveOracle, v, TRUE)
    BY <1>2, <1>6 DEF Call
  <2>2. QED
    BY <1>1, <1>2, <2>1, VaultStep
<1>7. CASE d.op \in {"markWarning", "requestAttestation", "finalizeDisputeWindow",
                     "finalizeFinalWindow"}
  <2>1. MarkWarning(v) \/ RequestAttestation(v) \/ FinalizeDisputeWindow(v)
            \/ FinalizeFinalWindow(v)
    BY <1>2, <1>7 DEF Call
  <2>2. QED
    BY <1>1, <1>2, <2>1, VaultStep
<1>8. QED
  BY <1>3, <1>4, <1>5, <1>6, <1>7 DEF Call

\* Where the script takes funds out of a vault, or brings that about, the vault is
\* the one that accepted its deposit.
LEMMA ReleasesItsOwn ==
    ASSUME ScriptInv, outcome = "running", pc > 0, Step.op \in Releasing
    PROVE  vaults[mine].owner = ScriptOwner
<1>1. PICK p : p = Program
  OBVIOUS
<1>2. pc \in 1..Len(p) /\ p[pc].op \in Releasing
  BY <1>1, WhereItRuns
<1>3. PICK k \in 1..(pc - 1) : Deposited(p, k, pc)
  BY <1>1, <1>2, ProgramWellFormed DEF WellFormed
<1>4. Len(p) \in Nat
  BY <1>1, ProgramSteps
<1>5. k \in 1..Len(p) /\ k < pc /\ Deposited(p, k, k)
  BY <1>2, <1>3, <1>4 DEF Deposited
<1>6. \A j \in k..(pc - 1) : p[j].op # "readId"
  BY <1>2, <1>3, <1>4 DEF Deposited
<1>7. QED
  BY <1>1, <1>5, <1>6 DEF ScriptInv, Claimed

\* No step of the script touches the funds of a stranger's vault, or moves it further
\* than to the question whether its owner lives.
LEMMA StrangerIsSpared ==
    ASSUME ScriptInv, [ScriptNext]_allVars, pc' # pc, NEW v \in VaultId,
           vaults[v].owner = Stranger
    PROVE  /\ vaults'[v].balance = vaults[v].balance
           /\ vaults'[v].state \in {vaults[v].state, "WARNING", "QUORUM_PENDING"}
<1>1. CASE vaults' = vaults
  BY <1>1
<1>2. CASE Mined /\ WouldSucceed(Step)
  <2>1. /\ outcome = "running" /\ pc > 0 /\ IInv /\ TypeOK
        /\ IsCall(Step) /\ Stranger # NoAddress
    BY <1>2, ScriptAssumption, RegistryAssumption
    DEF Mined, ScriptInv, ScriptTypeOK, Position, RouterInv, IInv
  <2>2. PICK d \in Deed : d = Step /\ Call(d)
    BY <1>2, <2>1, WhereItRuns DEF Mined
  <2>3. v < nextVaultId /\ v # nextVaultId
    <3>1. v < nextVaultId
      BY <2>1 DEF IInv, Sound, IdentityOf
    <3>2. QED
      BY <3>1, <2>1 DEF TypeOK, VaultId
  <2>4. CASE d.op = "createVault"
    <3>1. PICK plan \in PlanHash :
             CreateVault(ScriptOwner, plan, Fxrp, DemoTimings, ScriptGuardian)
      BY <2>2, <2>4 DEF Call
    <3>2. /\ ScriptOwner \in Account /\ Fxrp \in Asset /\ DemoTimings \in Timing
          /\ ScriptGuardian \in GuardianKey
      BY ScriptAssumption, RouterAssumption, RegistryAssumption
    <3>3. OthersKept(nextVaultId)
      BY <2>1, <3>1, <3>2, CreateEffect
    <3>4. QED
      BY <2>3, <3>3 DEF OthersKept
  <2>5. CASE d.op # "createVault"
    <3>1. mine \in VaultId
      BY <2>1, <2>2, <2>5, WhereItRuns DEF IsCall
    <3>2. CASE v # mine
      BY <2>1, <2>2, <2>5, <3>1, <3>2, CallTouchesMine DEF OthersKept
    <3>3. CASE v = mine
      <4>1. d.op \notin Releasing
        BY <2>1, <2>2, <3>3, ReleasesItsOwn, ScriptAssumption
      <4>2. d.op \notin {"fundVault", "checkIn", "ownerOverride", "cancelVault"}
        BY <2>2, <3>3, ScriptAssumption
        DEF Call, FundVault, CheckIn, OwnerOverride, CancelVault
      <4>3. d.op # "guardianHalt"
        <5>1. vaults[mine].guardianHaltKey = Stranger
          BY <2>3, <3>3, ScriptAssumption DEF ScriptInv, Owners
        <5>2. QED
          BY <2>2, <5>1, ScriptAssumption DEF Call, GuardianHalt
      <4>4. MarkWarning(v) \/ RequestAttestation(v)
        BY <2>2, <2>5, <3>3, <4>1, <4>2, <4>3 DEF Call, Releasing
      <4>5. /\ now + vaults[v].timing.graceWindow \in Nat
            /\ vaults[v].windowDeadline \in Nat
            /\ {"WARNING", "QUORUM_PENDING"} \subseteq VaultState
        BY <2>1, TimingNat DEF VaultState
      <4>6. CASE MarkWarning(v)
        BY <2>1, <4>5, <4>6, EnterEffect DEF MarkWarning
      <4>7. CASE RequestAttestation(v)
        BY <2>1, <4>5, <4>7, EnterEffect DEF RequestAttestation
      <4>8. QED
        BY <4>4, <4>6, <4>7
    <3>4. QED
      BY <3>2, <3>3
  <2>6. QED
    BY <2>4, <2>5
<1>3. CASE Mined /\ ~WouldSucceed(Step)
  BY <1>1, <1>3 DEF Mined, vars
<1>4. CASE SetUp \/ WriteContract \/ ReadVaultId \/ TimeAdvanced \/ AssertState \/ AssertBalance
  <2>1. vaults' = vaults
    BY <1>4 DEF SetUp, SetQuorumThreshold, WriteContract, ReadVaultId, TimeAdvanced,
                AssertState, AssertBalance, vars, registryVars
  <2>2. QED
    BY <1>1, <2>1
<1>5. CASE OtherStep \/ TimePasses \/ UNCHANGED allVars
  BY <1>5 DEF OtherStep, TimePasses, allVars, scriptVars
<1>6. QED
  BY <1>2, <1>3, <1>4, <1>5 DEF ScriptNext, ScriptStep

\* The vaults of strangers are spared, however many strangers there are steps of and
\* whichever id the script takes for its own.
THEOREM StrangersAreSpared == ScriptSpec => StrangersSpared
<1> DEFINE Spared == pc' # pc =>
                        \A v \in VaultId : vaults[v].owner = Stranger =>
                           /\ vaults'[v].balance = vaults[v].balance
                           /\ vaults'[v].state \in {vaults[v].state, "WARNING", "QUORUM_PENDING"}
<1>1. ScriptInv /\ [ScriptNext]_allVars => [Spared]_allVars
  BY StrangerIsSpared
<1>2. QED
  BY <1>1, ScriptInvariantHolds, PTL DEF ScriptSpec, StrangersSpared
-----------------------------------------------------------------------------
(* A pass is earned.  What the last assertion of a run is worth depends on *)
(* the steps before it, so the argument follows the last scenario of the   *)
(* program step by step; Place is where in it the script stands.           *)

Named == scenario \in {"happy", "halt", "override", "cancel", "all"}

\* The steps before the last scenario.
Base == IF scenario = "all" THEN 45 ELSE 0

Place == pc - Base

\* Of all the scenarios, the cancellation is the last.
Cancels == scenario \in {"cancel", "all"}

\* How many steps the last scenario has, what it deposits, and at which step it
\* first needs the vault to be its own.
Last == IF scenario = "happy" THEN 22 ELSE
        IF scenario = "halt" THEN 14 ELSE
        IF scenario = "override" THEN 9 ELSE 6

Funds == IF scenario = "happy" THEN 2 ELSE
         IF scenario = "halt" THEN 4 ELSE
         IF scenario = "override" THEN 0 ELSE 1

Gate == IF scenario = "override" THEN 8 ELSE 3

\* The totals that every vault's account starts from and ends with.
Accounts ==
    \A v \in VaultId :
        /\ ~(v < nextVaultId) => ledger[v].deposited = 0
        /\ ledger[v].refunded # 0 => vaults[v].state = "CLOSED"

\* A vault of the script's that nothing has happened to but the passing of time.
Untouched(v) ==
    vaults[v].owner = ScriptOwner =>
        ledger[v].deposited = 0 /\ vaults[v].state # "CLOSED"

\* What was released of a vault was not halted afterwards.
Unhalted(v) ==
    ledger[v].released # 0 => vaults[v].state \in {"FINAL_WINDOW", "FULLY_RELEASED"}

\* What the deposits into the vault in hand come to, as far as the script has got.
Counted ==
    /\ ledger[mine].deposited \in {0, Funds}
    /\ Place = 3 => Untouched(mine)
    /\ scenario = "happy" /\ Place >= 5 => ledger[mine].deposited = Funds
    /\ scenario = "halt" /\ Place >= 13 => ledger[mine].deposited = Funds
    /\ Cancels /\ Place >= 4 =>
          ledger[mine].deposited = Funds \/ vaults[mine].state = "FULLY_RELEASED"

\* While the deposit to be cancelled is in flight, it will be accepted.
Payable ==
    Cancels /\ Place = 3 /\ sent =>
        /\ CanPay(vaults[mine].fundingAsset, ScriptOwner, Funds)
        /\ Funds <= MaxDeposit

\* What has happened to the vault in hand.
Lived ==
    /\ Cancels \/ (scenario = "halt" /\ Place >= 13) => Unhalted(mine)
    /\ scenario = "happy" /\ Place >= 22 => vaults[mine].state = "FULLY_RELEASED"
    /\ Cancels /\ Place >= 6 => vaults[mine].state = "CLOSED"

\* The last scenario step by step: there is room for its vault, the id read back is
\* that of a fresh vault or of a stranger's, and what follows is about a vault of
\* the script's.
InPlace ==
    Named /\ outcome = "running" =>
        /\ Place = 1 /\ sent => nextVaultId <= MaxVaultId
        /\ Place = 2 => Untouched(nextVaultId - 1)
        /\ Place >= 3 /\ vaults[mine].owner = ScriptOwner => Counted /\ Payable /\ Lived
        /\ Place > Gate \/ (Place = Gate /\ sent) => vaults[mine].owner = ScriptOwner

-----------------------------------------------------------------------------
(* The steps of the last scenario.                                         *)

\* The second of two sequences, behind the first.
LEMMA Behind ==
    ASSUME NEW x \in Seq(Deed), NEW y \in Seq(Deed)
    PROVE  /\ x \o y \in Seq(Deed) /\ Len(x \o y) = Len(x) + Len(y)
           /\ \A i \in 1..Len(y) : (x \o y)[Len(x) + i] = y[i]
<1>1. Len(x) \in Nat /\ Len(y) \in Nat
  BY LenProperties
<1>2. ASSUME NEW i \in 1..Len(y) PROVE (x \o y)[Len(x) + i] = y[i]
  <2>1. (x \o y)[i + Len(x)] = y[i]
    BY ConcatProperties
  <2>2. i + Len(x) = Len(x) + i
    BY <1>1
  <2>3. QED
    BY <2>1, <2>2
<1>3. QED
  BY <1>2, ConcatProperties

\* The program ends with p.
EndsWith(p) ==
    /\ p \in Seq(Deed)
    /\ Len(Program) = Base + Len(p)
    /\ \A i \in 1..Len(p) : Program[Base + i] = p[i]

\* A run without a scenario has no program; otherwise it ends with the scenario it is
\* named after, or with the last of all.
LEMMA LastScenario ==
    /\ ~Named => Program = <<>>
    /\ scenario = "happy" => EndsWith(ScenarioHappyPath)
    /\ scenario = "halt" => EndsWith(ScenarioGuardianHalt)
    /\ scenario = "override" => EndsWith(ScenarioOwnerOverride)
    /\ Cancels => EndsWith(ScenarioCancel)
<1> DEFINE H == Part("happy", ScenarioHappyPath)
           G == Part("halt", ScenarioGuardianHalt)
           O == Part("override", ScenarioOwnerOverride)
           C == Part("cancel", ScenarioCancel)
<1>1. /\ ScenarioHappyPath \in Seq(Deed) /\ ScenarioGuardianHalt \in Seq(Deed)
      /\ ScenarioOwnerOverride \in Seq(Deed) /\ ScenarioCancel \in Seq(Deed)
      /\ <<>> \in Seq(Deed)
  BY ScenariosWellFormed DEF WellFormed
<1>2. Program = ((H \o G) \o O) \o C
  BY DEF Program
<1>3. ASSUME NEW p \in Seq(Deed), Program = p, Base = 0 PROVE EndsWith(p)
  BY <1>3, LenProperties DEF EndsWith
<1>4. CASE ~Named
  <2>1. H = <<>> /\ G = <<>> /\ O = <<>> /\ C = <<>> /\ ~Cancels
        /\ scenario \notin {"happy", "halt", "override"}
    BY <1>4 DEF Named, Part, Cancels
  <2> HIDE DEF H, G, O, C
  <2>2. Program = <<>>
    BY <1>1, <1>2, <2>1, ConcatEmptySeq
  <2>3. QED
    BY <2>1, <2>2
<1>5. CASE scenario = "happy"
  <2>1. H = ScenarioHappyPath /\ G = <<>> /\ O = <<>> /\ C = <<>>
    BY <1>5 DEF Part
  <2> HIDE DEF H, G, O, C
  <2>2. Program = ScenarioHappyPath
    BY <1>1, <1>2, <2>1, ConcatEmptySeq
  <2>3. QED
    BY <1>1, <1>3, <1>5, <2>2 DEF Base, Named, Cancels
<1>6. CASE scenario = "halt"
  <2>1. H = <<>> /\ G = ScenarioGuardianHalt /\ O = <<>> /\ C = <<>>
    BY <1>6 DEF Part
  <2> HIDE DEF H, G, O, C
  <2>2. Program = ScenarioGuardianHalt
    BY <1>1, <1>2, <2>1, ConcatEmptySeq
  <2>3. QED
    BY <1>1, <1>3, <1>6, <2>2 DEF Base, Named, Cancels
<1>7. CASE scenario = "override"
  <2>1. H = <<>> /\ G = <<>> /\ O = ScenarioOwnerOverride /\ C = <<>>
    BY <1>7 DEF Part
  <2> HIDE DEF H, G, O, C
  <2>2. Program = ScenarioOwnerOverride
    BY <1>1, <1>2, <2>1, ConcatEmptySeq
  <2>3. QED
    BY <1>1, <1>3, <1>7, <2>2 DEF Base, Named, Cancels
<1>8. CASE scenario = "cancel"
  <2>1. H = <<>> /\ G = <<>> /\ O = <<>> /\ C = ScenarioCancel
    BY <1>8 DEF Part
  <2> HIDE DEF H, G, O, C
  <2>2. Program = ScenarioCancel
    BY <1>1, <1>2, <2>1, ConcatEmptySeq
  <2>3. QED
    BY <1>1, <1>3, <1>8, <2>2 DEF Base, Named, Cancels
<1>9. CASE scenario = "all"
  <2>1. /\ H = ScenarioHappyPath /\ G = ScenarioGuardianHalt
        /\ O = ScenarioOwnerOverride /\ C = ScenarioCancel
    BY <1>9 DEF Part
  <2>2. Len(H) = 22 /\ Len(G) = 14 /\ Len(O) = 9
    BY <2>1
    DEF ScenarioHappyPath, ScenarioGuardianHalt, ScenarioOwnerOverride, Create, ToPending
  <2>3. H \in Seq(Deed) /\ G \in Seq(Deed) /\ O \in Seq(Deed) /\ C \in Seq(Deed)
    BY <1>1, <2>1
  <2> HIDE DEF H, G, O, C
  <2>4. PICK x : x = H \o G
    OBVIOUS
  <2>5. x \in Seq(Deed) /\ Len(x) = 36
    <3>1. x \in Seq(Deed) /\ Len(x) = Len(H) + Len(G)
      BY <2>3, <2>4, Behind, Zenon
    <3>2. QED
      BY <2>2, <3>1
  <2>6. PICK y : y = x \o O
    OBVIOUS
  <2>7. y \in Seq(Deed) /\ Len(y) = 45
    <3>1. y \in Seq(Deed) /\ Len(y) = Len(x) + Len(O)
      BY <2>3, <2>5, <2>6, Behind, Zenon
    <3>2. QED
      BY <2>2, <2>5, <3>1
  <2>8. /\ Len(y \o C) = Len(y) + Len(C)
        /\ \A i \in 1..Len(C) : (y \o C)[Len(y) + i] = C[i]
    <3>1. y \in Seq(Deed)
      BY <2>7
    <3>2. C \in Seq(Deed)
      BY <2>3
    <3>3. Len(y \o C) = Len(y) + Len(C)
      BY <3>1, <3>2, Behind, Zenon
    <3>4. \A i \in 1..Len(C) : (y \o C)[Len(y) + i] = C[i]
      BY <3>1, <3>2, Behind, Zenon
    <3>5. QED
      BY <3>3, <3>4
  <2>9. Program = y \o C /\ Base = 45
    BY <1>2, <1>9, <2>4, <2>6 DEF Base
  <2>10. EndsWith(C)
    BY <2>3, <2>7, <2>8, <2>9 DEF EndsWith
  <2>11. QED
    BY <1>9, <2>1, <2>10 DEF Named, Cancels
<1>10. QED
  BY <1>4, <1>5, <1>6, <1>7, <1>8, <1>9 DEF Named

\* The steps of the last scenario that the argument turns on: where its vault is
\* created, read back, funded and claimed, what is asserted at the end and before,
\* and where no halt comes any more.
Plan(p) ==
    /\ Len(p) = Last
    /\ p[1].op = "createVault" /\ p[2].op = "readId"
    /\ \A i \in 3..Last : p[i].op \notin {"createVault", "readId"}
    /\ \A i \in 4..Last : p[i].op # "fundVault"
    /\ scenario = "happy" =>
          p[3] = Fund(2) /\ p[4] = Holds(2) /\ p[21] = InState(7) /\ p[22] = Holds(0)
    /\ scenario = "halt" =>
          /\ p[3] = Fund(4) /\ p[12] = Holds(4) /\ p[14] = InState(0)
          /\ \A i \in 12..14 : p[i].op # "guardianHalt"
    /\ scenario = "override" =>
          p[3].op # "fundVault" /\ p[8].op = "ownerOverride" /\ p[9] = InState(0)
    /\ Cancels =>
          /\ p[3] = Fund(1) /\ p[5] = InState(8) /\ p[6] = Holds(0)
          /\ \A i \in 3..6 : p[i].op # "guardianHalt"

\* The scenarios are as planned.
LEMMA ScenariosAsPlanned ==
    /\ scenario = "happy" => Plan(ScenarioHappyPath)
    /\ scenario = "halt" => Plan(ScenarioGuardianHalt)
    /\ scenario = "override" => Plan(ScenarioOwnerOverride)
    /\ Cancels => Plan(ScenarioCancel)
<1> USE ScriptNumbers DEF Create, ToPending, Do, Fund, Holds, InState, Missed, AdvanceTime
<1>1. ASSUME scenario = "happy" PROVE Plan(ScenarioHappyPath)
  <2>1. Len(ScenarioHappyPath) = 22
    BY DEF ScenarioHappyPath
  <2>2. \A i \in 3..22 : ScenarioHappyPath[i].op \notin {"createVault", "readId"}
    BY DEF ScenarioHappyPath
  <2>3. \A i \in 4..22 : ScenarioHappyPath[i].op # "fundVault"
    BY DEF ScenarioHappyPath
  <2>4. /\ ScenarioHappyPath[1].op = "createVault" /\ ScenarioHappyPath[2].op = "readId"
        /\ ScenarioHappyPath[3] = Fund(2) /\ ScenarioHappyPath[4] = Holds(2)
        /\ ScenarioHappyPath[21] = InState(7) /\ ScenarioHappyPath[22] = Holds(0)
    BY DEF ScenarioHappyPath
  <2>5. Last = 22 /\ scenario # "halt" /\ scenario # "override" /\ ~Cancels
    BY <1>1 DEF Last, Cancels
  <2>6. QED
    BY <2>1, <2>2, <2>3, <2>4, <2>5 DEF Plan
<1>2. ASSUME scenario = "halt" PROVE Plan(ScenarioGuardianHalt)
  <2>1. Len(ScenarioGuardianHalt) = 14
    BY DEF ScenarioGuardianHalt
  <2>2. \A i \in 3..14 : ScenarioGuardianHalt[i].op \notin {"createVault", "readId"}
    BY DEF ScenarioGuardianHalt
  <2>3. \A i \in 4..14 : ScenarioGuardianHalt[i].op # "fundVault"
    BY DEF ScenarioGuardianHalt
  <2>4. /\ ScenarioGuardianHalt[1].op = "createVault" /\ ScenarioGuardianHalt[2].op = "readId"
        /\ ScenarioGuardianHalt[3] = Fund(4) /\ ScenarioGuardianHalt[12] = Holds(4)
        /\ ScenarioGuardianHalt[14] = InState(0)
        /\ \A i \in 12..14 : ScenarioGuardianHalt[i].op # "guardianHalt"
    BY DEF ScenarioGuardianHalt
  <2>5. Last = 14 /\ scenario # "happy" /\ scenario # "override" /\ ~Cancels
    BY <1>2 DEF Last, Cancels
  <2>6. QED
    BY <2>1, <2>2, <2>3, <2>4, <2>5 DEF Plan
<1>3. ASSUME scenario = "override" PROVE Plan(ScenarioOwnerOverride)
  <2>1. Len(ScenarioOwnerOverride) = 9
    BY DEF ScenarioOwnerOverride
  <2>2. \A i \in 3..9 : ScenarioOwnerOverride[i].op \notin {"createVault", "readId", "fundVault"}
    BY DEF ScenarioOwnerOverride
  <2>3. /\ ScenarioOwnerOverride[1].op = "createVault" /\ ScenarioOwnerOverride[2].op = "readId"
        /\ ScenarioOwnerOverride[8].op = "ownerOverride" /\ ScenarioOwnerOverride[9] = InState(0)
    BY DEF ScenarioOwnerOverride
  <2>4. Last = 9 /\ scenario # "happy" /\ scenario # "halt" /\ ~Cancels
    BY <1>3 DEF Last, Cancels
  <2>5. QED
    BY <2>1, <2>2, <2>3, <2>4 DEF Plan
<1>4. ASSUME Cancels PROVE Plan(ScenarioCancel)
  <2>1. Len(ScenarioCancel) = 6
    BY DEF ScenarioCancel
  <2>2. \A i \in 3..6 :
           ScenarioCancel[i].op \notin {"createVault", "readId", "guardianHalt"}
    BY DEF ScenarioCancel
  <2>3. \A i \in 4..6 : ScenarioCancel[i].op # "fundVault"
    BY DEF ScenarioCancel
  <2>4. /\ ScenarioCancel[1].op = "createVault" /\ ScenarioCancel[2].op = "readId"
        /\ ScenarioCancel[3] = Fund(1) /\ ScenarioCancel[5] = InState(8)
        /\ ScenarioCancel[6] = Holds(0)
    BY DEF ScenarioCancel
  <2>5. Last = 6 /\ scenario \notin {"happy", "halt", "override"}
    BY <1>4 DEF Last, Cancels
  <2>6. QED
    BY <2>1, <2>2, <2>3, <2>4, <2>5 DEF Plan
<1>5. QED
  BY <1>1, <1>2, <1>3, <1>4

\* The scenario a named run ends with.
LEMMA PlanOfProgram == Named => \E p : EndsWith(p) /\ Plan(p)
BY LastScenario, ScenariosAsPlanned DEF Named, Cancels

\* Where the last scenario runs, its plan says what the step is.
LEMMA StepAsPlanned ==
    ASSUME ScriptInv, Named, outcome = "running", Place >= 1
    PROVE  \E p : /\ Plan(p) /\ Step = p[Place]
                  /\ Place \in 1..Last
                  /\ pc = Len(Program) <=> Place = Last
<1>1. PICK p : EndsWith(p) /\ Plan(p)
  BY PlanOfProgram
<1>2. Last \in Nat /\ Base \in Nat /\ Len(Program) = Base + Last
  BY <1>1 DEF EndsWith, Plan, Last, Base
<1>3. pc \in Nat /\ pc <= Len(Program)
  BY <1>2 DEF ScriptInv, ScriptTypeOK, Position
<1>4. Place \in 1..Last /\ pc = Base + Place
  BY <1>2, <1>3 DEF Place
<1>5. Len(p) = Last /\ Step = p[Place]
  BY <1>1, <1>4 DEF EndsWith, Plan, Step
<1>6. pc = Len(Program) <=> Place = Last
  BY <1>2, <1>3, <1>4
<1>7. QED
  BY <1>1, <1>4, <1>5, <1>6

-----------------------------------------------------------------------------
(* What the calls do to a vault's account and to its end.                  *)

\* The calls that neither fund, cancel nor halt keep the totals of a vault but for
\* what they release, and only a release goes beyond the final window.
QuietCall(caller, v) ==
    \/ \E quorumMet \in BOOLEAN : SubmitQuorumResult(caller, v, quorumMet)
    \/ \E hash \in LegalDoc : AnchorLegalDoc(caller, v, hash)
    \/ CheckIn(caller, v) \/ OwnerOverride(caller, v) \/ SubmitVerifiedAttestation(caller, v)
    \/ MarkWarning(v) \/ RequestAttestation(v)
    \/ FinalizeDisputeWindow(v) \/ FinalizeFinalWindow(v)

LEMMA QuietCallKeeps ==
    ASSUME IInv, NEW caller \in Account, NEW v \in VaultId, QuietCall(caller, v)
    PROVE  /\ ledger'[v].deposited = ledger[v].deposited
           /\ ledger'[v].refunded = ledger[v].refunded
           /\ Unhalted(v) => Unhalted(v)'
           /\ vaults'[v].state = "CLOSED" <=> vaults[v].state = "CLOSED"
           /\ vaults[v].state = "FULLY_RELEASED" => vaults'[v].state = "FULLY_RELEASED"
<1>1. /\ TypeOK /\ TRUE \in BOOLEAN
      /\ {"WARNING", "QUORUM_PENDING", "DISPUTE_WINDOW"} \subseteq VaultState
      /\ now + vaults[v].timing.graceWindow \in Nat
      /\ now + vaults[v].timing.disputeWindow \in Nat
      /\ vaults[v].windowDeadline \in Nat
  BY TimingNat DEF VaultState, IInv
<1>2. CASE FinalizeDisputeWindow(v)
  <2>1. vaults[v].state = "DISPUTE_WINDOW"
    BY <1>2 DEF FinalizeDisputeWindow
  <2>2. QED
    BY <1>1, <1>2, <2>1, FinalizeDisputeEffect DEF Unhalted
<1>3. CASE FinalizeFinalWindow(v)
  <2>1. vaults[v].state = "FINAL_WINDOW"
    BY <1>3 DEF FinalizeFinalWindow
  <2>2. QED
    BY <1>1, <1>3, <2>1, FinalizeFinalEffect DEF Unhalted
<1>4. CASE CheckIn(caller, v) \/ OwnerOverride(caller, v)
  <2>1. /\ vaults' = Restarted(v) /\ ledger' = ledger
        /\ vaults[v].state \in {"ACTIVE", "WARNING", "QUORUM_PENDING"}
    BY <1>4 DEF CheckIn, OwnerOverride
  <2>2. vaults'[v].state = "ACTIVE"
    BY <1>1, <2>1, RestartEffect
  <2>3. QED
    BY <2>1, <2>2 DEF Unhalted
<1>5. CASE MarkWarning(v)
  <2>1. /\ vaults' = Entered(v, "WARNING", now + vaults[v].timing.graceWindow)
        /\ vaults[v].state = "ACTIVE" /\ ledger' = ledger
    BY <1>5 DEF MarkWarning
  <2>2. vaults'[v].state = "WARNING"
    BY <1>1, <2>1, EnterEffect
  <2>3. QED
    BY <2>1, <2>2 DEF Unhalted
<1>6. CASE RequestAttestation(v)
  <2>1. /\ vaults' = Entered(v, "QUORUM_PENDING", vaults[v].windowDeadline)
        /\ vaults[v].state = "WARNING" /\ ledger' = ledger
    BY <1>6 DEF RequestAttestation
  <2>2. vaults'[v].state = "QUORUM_PENDING"
    BY <1>1, <2>1, EnterEffect
  <2>3. QED
    BY <2>1, <2>2 DEF Unhalted
<1>7. CASE \/ \E quorumMet \in BOOLEAN : SubmitQuorumResult(caller, v, quorumMet)
           \/ SubmitVerifiedAttestation(caller, v)
  <2> DEFINE d == now + vaults[v].timing.disputeWindow
  <2>1. /\ ledger' = ledger
        /\ \/ vaults' = vaults
           \/ vaults[v].state = "QUORUM_PENDING" /\ vaults' = Entered(v, "DISPUTE_WINDOW", d)
    BY <1>7 DEF SubmitQuorumResult, SubmitVerifiedAttestation
  <2>2. CASE vaults' = vaults
    BY <2>1, <2>2 DEF Unhalted
  <2>3. CASE vaults[v].state = "QUORUM_PENDING" /\ vaults' = Entered(v, "DISPUTE_WINDOW", d)
    <3>1. vaults'[v].state = "DISPUTE_WINDOW"
      BY <1>1, <2>3, EnterEffect
    <3>2. QED
      BY <2>1, <2>3, <3>1 DEF Unhalted
  <2>4. QED
    BY <2>1, <2>2, <2>3
<1>8. CASE \E hash \in LegalDoc : AnchorLegalDoc(caller, v, hash)
  <2>1. ledger' = ledger /\ vaults'[v].state = vaults[v].state
    BY <1>1, <1>8, AnchorEffect DEF AnchorLegalDoc
  <2>2. QED
    BY <2>1 DEF Unhalted
<1>9. QED
  BY <1>2, <1>3, <1>4, <1>5, <1>6, <1>7, <1>8 DEF QuietCall

\* A deposit counts what it takes, and changes nothing else of the account.
LEMMA DepositKeeps ==
    ASSUME IInv, NEW caller \in Account, NEW v \in VaultId, NEW amount \in Amount,
           FundVault(caller, v, amount)
    PROVE  /\ ledger'[v].deposited = ledger[v].deposited + amount
           /\ ledger'[v].refunded = ledger[v].refunded
           /\ Unhalted(v) => Unhalted(v)'
           /\ vaults'[v].state = vaults[v].state
           /\ v < nextVaultId
<1>1. TypeOK /\ IdentityOf(v)
  BY DEF IInv, Sound
<1>2. /\ ledger'[v].released = ledger[v].released /\ vaults'[v].state = vaults[v].state
      /\ ledger'[v].refunded = ledger[v].refunded
      /\ ledger'[v].deposited = ledger[v].deposited + amount
  BY <1>1, FundEffect
<1>3. v < nextVaultId
  BY <1>1, OwnerIsReal DEF FundVault
<1>4. QED
  BY <1>2, <1>3 DEF Unhalted

\* A cancellation closes a vault that was never released from, or halted since.
LEMMA CancelKeeps ==
    ASSUME IInv, NEW caller \in Account, NEW v \in VaultId, CancelVault(caller, v)
    PROVE  /\ ledger'[v].deposited = ledger[v].deposited
           /\ Unhalted(v) => Unhalted(v)'
           /\ vaults'[v].state = "CLOSED" /\ vaults[v].state = "ACTIVE"
<1>1. TypeOK /\ IdentityOf(v) /\ vaults[v].state = "ACTIVE"
  BY DEF IInv, Sound, CancelVault
<1>2. /\ ledger'[v].released = ledger[v].released /\ vaults'[v].state = "CLOSED"
      /\ ledger'[v].deposited = ledger[v].deposited
  BY <1>1, CancelEffect
<1>3. QED
  BY <1>1, <1>2 DEF Unhalted

\* A halt keeps the account.
LEMMA HaltKeeps ==
    ASSUME IInv, NEW caller \in Account, NEW v \in VaultId, GuardianHalt(caller, v)
    PROVE  /\ ledger' = ledger /\ vaults'[v].state = "ACTIVE"
           /\ vaults[v].state \in {"DISPUTE_WINDOW", "FINAL_WINDOW"}
BY RestartEffect DEF GuardianHalt, IInv

\* An id has no deposits before a vault is created there, and refunds end a vault.
LEMMA AccountsHold ==
    ASSUME RouterInv, Accounts, ChainStep
    PROVE  Accounts'
<1>1. IInv /\ IInv' /\ nextVaultId \in Nat /\ nextVaultId' >= nextVaultId
  BY ChainStepHolds, ChainKeepsConfig DEF RouterInv, IInv, TypeOK
<1>2. CASE vaults' = vaults /\ ledger' = ledger
  <2>1. \A v \in VaultId : v \in Nat /\ (v < nextVaultId => v < nextVaultId')
    BY <1>1 DEF VaultId, IInv, TypeOK
  <2>2. QED
    BY <1>2, <2>1 DEF Accounts
<1>3. CASE Creating
  <2>1. PICK caller \in {ScriptOwner, Stranger}, guardian \in {ScriptGuardian, Stranger},
             plan \in PlanHash, asset \in Asset :
           CreateVault(caller, plan, asset, DemoTimings, guardian)
    BY <1>3 DEF Creating
  <2>2. caller \in Account /\ guardian \in GuardianKey /\ DemoTimings \in Timing
    BY ScriptAssumption, RegistryAssumption
  <2>3. OthersKept(nextVaultId) /\ ledger' = ledger /\ nextVaultId \in VaultId
        /\ nextVaultId' = nextVaultId + 1
    <3>1. TypeOK
      BY <1>1 DEF IInv
    <3>2. OthersKept(nextVaultId) /\ nextVaultId \in VaultId
      BY <2>1, <2>2, <3>1, CreateEffect
    <3>3. QED
      BY <2>1, <3>2 DEF CreateVault
  <2>4. ledger[nextVaultId].refunded = 0
    <3>1. ledger[nextVaultId].deposited = 0 /\ FundsOf(nextVaultId)
      BY <1>1, <2>3 DEF Accounts, IInv, Sound
    <3>2. /\ ledger[nextVaultId].refunded \in Nat /\ ledger[nextVaultId].released \in Nat
          /\ vaults[nextVaultId].balance \in Nat
      BY <1>1, <2>3, TimingNat DEF IInv, TypeOK, Ledger
    <3>3. QED
      BY <3>1, <3>2 DEF FundsOf
  <2>5. ASSUME NEW v \in VaultId
        PROVE  /\ ~(v < nextVaultId') => ledger'[v].deposited = 0
               /\ ledger'[v].refunded # 0 => vaults'[v].state = "CLOSED"
    <3>1. v \in Nat
      BY DEF VaultId
    <3>2. CASE v = nextVaultId
      BY <1>1, <2>3, <2>4, <3>2
    <3>3. CASE v # nextVaultId
      <4>1. vaults'[v] = vaults[v]
        BY <2>3, <3>3 DEF OthersKept
      <4>2. QED
        BY <1>1, <2>3, <3>1, <4>1 DEF Accounts
    <3>4. QED
      BY <3>2, <3>3
  <2>6. QED
    BY <2>5 DEF Accounts
<1>4. ASSUME Uncreating, NEW caller \in Account, NEW w \in VaultId,
             \/ QuietCall(caller, w) \/ GuardianHalt(caller, w) \/ CancelVault(caller, w)
             \/ \E amount \in Amount : FundVault(caller, w, amount)
      PROVE  Accounts'
  <2>1. OthersKept(w) /\ \A v \in VaultId \ {w} : ledger'[v] = ledger[v]
    BY <1>1, <1>4, VaultStep DEF QuietCall
  <2>2. nextVaultId' = nextVaultId
    BY <1>4 DEF Uncreating
  <2>3. /\ ~(w < nextVaultId) => ledger'[w].deposited = 0
        /\ ledger'[w].refunded # 0 => vaults'[w].state = "CLOSED"
    <3>1. CASE QuietCall(caller, w)
      BY <1>1, <3>1, QuietCallKeeps DEF Accounts
    <3>2. CASE GuardianHalt(caller, w)
      BY <1>1, <3>2, HaltKeeps DEF Accounts
    <3>3. CASE CancelVault(caller, w)
      BY <1>1, <3>3, CancelKeeps DEF Accounts
    <3>4. CASE \E amount \in Amount : FundVault(caller, w, amount)
      BY <1>1, <3>4, DepositKeeps DEF Accounts
    <3>5. QED
      BY <1>4, <3>1, <3>2, <3>3, <3>4
  <2>4. ASSUME NEW v \in VaultId
        PROVE  /\ ~(v < nextVaultId') => ledger'[v].deposited = 0
               /\ ledger'[v].refunded # 0 => vaults'[v].state = "CLOSED"
    BY <2>1, <2>2, <2>3 DEF Accounts, OthersKept
  <2>5. QED
    BY <2>4 DEF Accounts
<1>5. CASE Uncreating
  <2>1. [Next]_vars /\ nextVaultId' = nextVaultId
    BY <1>5 DEF Uncreating
  <2>2. ASSUME NEW caller \in Account, NEW plan \in PlanHash, NEW asset \in Asset,
               NEW timing \in Timing, NEW guardian \in GuardianKey,
               CreateVault(caller, plan, asset, timing, guardian)
        PROVE  FALSE
    BY <1>1, <2>1, <2>2 DEF CreateVault
  <2>3. QED
    BY <1>2, <1>4, <1>5, <2>1, <2>2, StepKinds DEF QuietCall
<1>6. QED
  BY <1>2, <1>3, <1>5 DEF ChainStep, AtRouter, Elapsed, registryVars

-----------------------------------------------------------------------------
(* What the others do to the script's vaults and tokens.                   *)

\* The account of a vault stays, and so does its end.
LeftAlone(v) ==
    /\ vaults'[v].owner = vaults[v].owner
    /\ vaults'[v].fundingAsset = vaults[v].fundingAsset
    /\ ledger'[v].deposited = ledger[v].deposited
    /\ Unhalted(v) => Unhalted(v)'
    /\ vaults'[v].state = "CLOSED" <=> vaults[v].state = "CLOSED"
    /\ vaults[v].state = "FULLY_RELEASED" => vaults'[v].state = "FULLY_RELEASED"

OthersAct == OtherStep \/ TimePasses \/ UNCHANGED <<vars, routerVars>>

\* Strangers, keepers and the oracle leave the script's vaults alone.
LEMMA OthersLeaveVaults ==
    ASSUME ScriptInv, OthersAct, NEW v \in VaultId, vaults[v].owner = ScriptOwner
    PROVE  LeftAlone(v)
<1>1. /\ IInv /\ RouterInv /\ v < nextVaultId /\ v \in Nat /\ nextVaultId \in Nat
      /\ Stranger \in Account /\ EnclaveOracle \in Account /\ TRUE \in BOOLEAN
      /\ OthersAmount \subseteq Amount
  <2>1. ScriptOwner # NoAddress
    BY ScriptAssumption, RegistryAssumption
  <2>2. IInv /\ RouterInv /\ TypeOK /\ IdentityOf(v)
    BY DEF ScriptInv, RouterInv, IInv, Sound
  <2>3. v < nextVaultId
    BY <2>1, <2>2 DEF IdentityOf
  <2>4. v \in Nat /\ nextVaultId \in Nat
    BY <2>2 DEF TypeOK, VaultId
  <2>5. /\ Stranger \in Account /\ EnclaveOracle \in Account
        /\ OthersAmount \subseteq Amount
    BY ScriptAssumption, RegistryAssumption
  <2>6. QED
    BY <2>2, <2>3, <2>4, <2>5
<1>2. IdentityKept(v)
  <2>1. ChainStep
    BY OthersAreChainSteps, StillIsChainStep DEF OthersAct
  <2>2. QED
    BY <1>1, <2>1, ChainKeepsConfig
<1>3. CASE vaults' = vaults /\ ledger' = ledger
  BY <1>3 DEF LeftAlone, Unhalted
<1>4. ASSUME vaults'[v] = vaults[v], ledger'[v] = ledger[v] PROVE LeftAlone(v)
  BY <1>4 DEF LeftAlone, Unhalted
<1>5. ASSUME NEW caller \in Account, NEW w \in VaultId, QuietCall(caller, w)
      PROVE  LeftAlone(v)
  <2>1. CASE w = v
    BY <1>1, <1>2, <1>5, <2>1, QuietCallKeeps DEF LeftAlone, IdentityKept
  <2>2. CASE w # v
    <3>1. vaults'[v] = vaults[v] /\ ledger'[v] = ledger[v]
      BY <1>1, <1>5, <2>2, VaultStep DEF QuietCall, OthersKept
    <3>2. QED
      BY <1>4, <3>1
  <2>3. QED
    BY <2>1, <2>2
<1>6. CASE StrangerOwns
  <2>1. ASSUME NEW plan \in PlanHash, NEW asset \in Asset,
               CreateVault(Stranger, plan, asset, DemoTimings, Stranger)
        PROVE  LeftAlone(v)
    <3>1. TypeOK /\ Stranger \in GuardianKey /\ DemoTimings \in Timing
      BY <1>1, ScriptAssumption DEF IInv
    <3>2. OthersKept(nextVaultId) /\ ledger' = ledger
      BY <1>1, <2>1, <3>1, CreateEffect DEF CreateVault
    <3>3. vaults'[v] = vaults[v] /\ ledger'[v] = ledger[v]
      BY <1>1, <3>2 DEF OthersKept
    <3>4. QED
      BY <1>4, <3>3
  <2>2. ASSUME NEW w \in VaultId,
               \/ CheckIn(Stranger, w) \/ OwnerOverride(Stranger, w)
               \/ CancelVault(Stranger, w) \/ GuardianHalt(Stranger, w)
               \/ \E amount \in OthersAmount : FundVault(Stranger, w, amount)
        PROVE  LeftAlone(v)
    <3>1. w # v
      <4>1. vaults[v].owner # Stranger /\ vaults[v].guardianHaltKey # Stranger
        BY <1>1, ScriptAssumption DEF ScriptInv, Owners
      <4>2. QED
        BY <2>2, <4>1
        DEF CheckIn, OwnerOverride, CancelVault, GuardianHalt, FundVault
    <3>2. vaults'[v] = vaults[v] /\ ledger'[v] = ledger[v]
      BY <1>1, <2>2, <3>1, VaultStep DEF OthersKept
    <3>3. QED
      BY <1>4, <3>2
  <2>3. QED
    BY <1>6, <2>1, <2>2 DEF StrangerOwns
<1>7. CASE StrangerRoutes
  BY <1>3, <1>7
  DEF StrangerRoutes, AllowlistFAsset, FundWithFAsset, RedeemToNative,
      TransferDirectly, vars, registryVars
<1>8. CASE KeeperStep
  BY <1>1, <1>5, <1>8 DEF KeeperStep, QuietCall
<1>9. CASE \E w \in VaultId : SubmitQuorumResult(EnclaveOracle, w, TRUE)
  BY <1>1, <1>5, <1>9 DEF QuietCall
<1>10. CASE TimePasses \/ UNCHANGED <<vars, routerVars>>
  BY <1>3, <1>10 DEF TimePasses, Tick, vars, registryVars
<1>11. QED
  BY <1>6, <1>7, <1>8, <1>9, <1>10 DEF OthersAct, OtherStep

\* Nobody else spends the script's tokens.
LEMMA OthersLeaveTokens ==
    ASSUME ScriptInv, OthersAct, NEW a \in Asset
    PROVE  token'[a][ScriptOwner] = token[a][ScriptOwner]
<1>1. /\ IInv /\ TypeOK
      /\ {Stranger, ScriptOwner, Registry, Router} \subseteq Holder
      /\ ScriptOwner \notin {Stranger, Registry, Router} /\ Stranger \notin {Registry, Router}
      /\ OthersAmount \subseteq Nat /\ Stranger \in Account
  <2>1. Router \notin VaultOwner /\ Registry \notin Account /\ Router \in Account
    BY RouterAssumption, RegistryAssumption
  <2>2. QED
    BY <2>1, ScriptAssumption, RegistryAssumption DEF Holder, ScriptInv, RouterInv, IInv
<1>2. ASSUME NEW b \in Asset, NEW f \in Holder, NEW h \in Holder, NEW n \in Nat,
             f # h, ScriptOwner \notin {f, h}, Transfer(b, f, h, n)
      PROVE  token'[a][ScriptOwner] = token[a][ScriptOwner]
  <2>1. /\ \A c \in Asset \ {b} : token'[c] = token[c]
        /\ \A g \in Holder \ {f, h} : token'[b][g] = token[b][g]
    BY <1>1, <1>2, TransferEffect
  <2>2. QED
    BY <1>1, <1>2, <2>1
<1>3. CASE UNCHANGED token
  BY <1>3
<1>4. ASSUME StrangerOwns PROVE token'[a][ScriptOwner] = token[a][ScriptOwner]
  <2>1. ASSUME NEW w \in VaultId, NEW amount \in OthersAmount, FundVault(Stranger, w, amount)
        PROVE  token'[a][ScriptOwner] = token[a][ScriptOwner]
    <3>1. vaults[w].fundingAsset \in Asset
      BY <1>1, <2>1, OwnerIsReal DEF FundVault, IInv, Sound
    <3>2. Transfer(vaults[w].fundingAsset, Stranger, Registry, amount)
      BY <2>1 DEF FundVault
    <3>3. QED
      BY <1>1, <1>2, <3>1, <3>2
  <2>2. ASSUME NEW w \in VaultId, CancelVault(Stranger, w)
        PROVE  token'[a][ScriptOwner] = token[a][ScriptOwner]
    <3>1. vaults[w].fundingAsset \in Asset /\ vaults[w].balance \in Nat
      BY <1>1, <2>2, OwnerIsReal, TimingNat DEF CancelVault, IInv, Sound
    <3>2. \/ Transfer(vaults[w].fundingAsset, Registry, Stranger, vaults[w].balance)
          \/ UNCHANGED token
      BY <2>2 DEF CancelVault
    <3>3. QED
      BY <1>1, <1>2, <3>1, <3>2
  <2>3. CASE \/ \E plan \in PlanHash, asset \in Asset :
                  CreateVault(Stranger, plan, asset, DemoTimings, Stranger)
             \/ \E w \in VaultId : CheckIn(Stranger, w) \/ OwnerOverride(Stranger, w)
                                     \/ GuardianHalt(Stranger, w)
    BY <2>3 DEF CreateVault, CheckIn, OwnerOverride, GuardianHalt
  <2>4. QED
    BY <1>4, <2>1, <2>2, <2>3 DEF StrangerOwns
<1>5. ASSUME StrangerRoutes PROVE token'[a][ScriptOwner] = token[a][ScriptOwner]
  <2>1. ASSUME NEW b \in Asset, NEW n \in OthersAmount,
               \/ FundWithFAsset(Stranger, 1, b, n) \/ RedeemToNative(Stranger, 1, b, n)
               \/ TransferDirectly(Stranger, b, n)
        PROVE  token'[a][ScriptOwner] = token[a][ScriptOwner]
    <3>1. Transfer(b, Stranger, Registry, n) \/ Transfer(b, Stranger, Router, n)
      BY <2>1 DEF FundWithFAsset, RedeemToNative, TransferDirectly
    <3>2. QED
      BY <1>1, <1>2, <3>1
  <2>2. CASE \E asset \in Asset : AllowlistFAsset(RouterAdmin, asset)
    BY <2>2 DEF AllowlistFAsset, vars
  <2>3. QED
    BY <1>5, <2>1, <2>2 DEF StrangerRoutes
<1>6. ASSUME KeeperStep PROVE UNCHANGED token
  BY <1>6 DEF KeeperStep, MarkWarning, RequestAttestation, FinalizeDisputeWindow,
              FinalizeFinalWindow
<1>7. ASSUME NEW w \in VaultId, SubmitQuorumResult(EnclaveOracle, w, TRUE)
      PROVE  UNCHANGED token
  BY <1>7 DEF SubmitQuorumResult
<1>8. ASSUME TimePasses \/ UNCHANGED <<vars, routerVars>> PROVE UNCHANGED token
  BY <1>8 DEF TimePasses, Tick, vars
<1>9. QED
  BY <1>3, <1>4, <1>5, <1>6, <1>7, <1>8 DEF OthersAct, OtherStep

\* Others create vaults one at a time, for a stranger, where the script's own vaults
\* still have room.
LEMMA OthersCreate ==
    ASSUME ScriptInv, OthersAct
    PROVE  \/ nextVaultId' = nextVaultId
           \/ /\ nextVaultId' = nextVaultId + 1 /\ LeavesRoom
              /\ nextVaultId \in VaultId /\ vaults'[nextVaultId].owner = Stranger
<1>1. IInv /\ TypeOK /\ Stranger \in Account /\ Stranger \in GuardianKey /\ DemoTimings \in Timing
  BY ScriptAssumption, RegistryAssumption DEF ScriptInv, RouterInv, IInv
<1>2. ASSUME NEW plan \in PlanHash, NEW asset \in Asset, LeavesRoom,
             CreateVault(Stranger, plan, asset, DemoTimings, Stranger)
      PROVE  /\ nextVaultId' = nextVaultId + 1 /\ LeavesRoom
             /\ nextVaultId \in VaultId /\ vaults'[nextVaultId].owner = Stranger
  <2>1. nextVaultId' = nextVaultId + 1
    BY <1>2 DEF CreateVault
  <2>2. nextVaultId \in VaultId /\ vaults'[nextVaultId].owner = Stranger
    BY <1>1, <1>2, CreateEffect
  <2>3. QED
    BY <1>2, <2>1, <2>2
<1>3. ASSUME NEW w \in VaultId,
             \/ CheckIn(Stranger, w) \/ OwnerOverride(Stranger, w)
             \/ CancelVault(Stranger, w) \/ GuardianHalt(Stranger, w)
             \/ \E amount \in OthersAmount : FundVault(Stranger, w, amount)
      PROVE  nextVaultId' = nextVaultId
  BY <1>3 DEF CheckIn, OwnerOverride, CancelVault, GuardianHalt, FundVault
<1>4. StrangerRoutes => nextVaultId' = nextVaultId
  BY DEF StrangerRoutes, AllowlistFAsset, FundWithFAsset, RedeemToNative,
      TransferDirectly, vars, registryVars
<1>5. KeeperStep => nextVaultId' = nextVaultId
  BY DEF KeeperStep, MarkWarning, RequestAttestation, FinalizeDisputeWindow, FinalizeFinalWindow
<1>6. ASSUME NEW w \in VaultId, SubmitQuorumResult(EnclaveOracle, w, TRUE)
      PROVE  nextVaultId' = nextVaultId
  BY <1>6 DEF SubmitQuorumResult
<1>7. TimePasses \/ UNCHANGED <<vars, routerVars>> => nextVaultId' = nextVaultId
  BY DEF TimePasses, Tick, vars, registryVars
<1>8. QED
  BY <1>2, <1>3, <1>4, <1>5, <1>6, <1>7 DEF OthersAct, OtherStep, StrangerOwns

\* Nobody makes the script the owner of a vault but the script.
LEMMA OwnBefore ==
    ASSUME ScriptInv, OthersAct, NEW v \in VaultId, vaults'[v].owner = ScriptOwner
    PROVE  vaults[v].owner = ScriptOwner
<1>1. ChainStep
  BY OthersAreChainSteps, StillIsChainStep DEF OthersAct
<1>2. RouterInv /\ RouterInv'
  BY <1>1, ChainStepHolds DEF ScriptInv
<1>3. v < nextVaultId'
  <2>1. ScriptOwner # NoAddress
    BY ScriptAssumption, RegistryAssumption
  <2>2. QED
    BY <1>2, <2>1 DEF RouterInv, IInv, Sound, IdentityOf
<1>4. v \in Nat /\ nextVaultId \in Nat
  BY <1>2 DEF VaultId, RouterInv, IInv, TypeOK
<1>5. v < nextVaultId
  <2>1. Stranger # ScriptOwner
    BY ScriptAssumption
  <2>2. QED
    BY <1>3, <1>4, <2>1, OthersCreate
<1>6. QED
  BY <1>1, <1>2, <1>5, ChainKeepsConfig DEF IdentityKept

\* While the script's creation is in flight a stranger's leaves an id for it.
LEMMA RoomIsLeft ==
    ASSUME ScriptInv, Named, outcome = "running", Place = 1, LeavesRoom
    PROVE  nextVaultId + 1 <= MaxVaultId
<1> DEFINE S == {i \in DOMAIN Program : i >= pc /\ Program[i].op = "createVault"}
<1>1. pc \in Nat /\ pc > 0
  BY DEF ScriptInv, ScriptTypeOK, Place, Base
<1>2. pc \in 1..Len(Program) /\ Step = Program[pc] /\ Len(Program) \in Nat
  BY <1>1, WhereItRuns
<1>3. Step.op = "createVault"
  BY StepAsPlanned DEF Plan
<1>4. Program \in Seq(Deed)
  BY ProgramWellFormed DEF WellFormed
<1>5. DOMAIN Program = 1..Len(Program)
  <2>1. PICK p : p = Program
    OBVIOUS
  <2>2. DOMAIN p = 1..Len(p)
    BY <1>4, <2>1, LenProperties
  <2>3. QED
    BY <2>1, <2>2
<1>6. pc \in S
  BY <1>1, <1>2, <1>3, <1>5
<1>7. IsFiniteSet(S)
  <2>1. IsFiniteSet(1..Len(Program))
    BY <1>2, FS_Interval
  <2>2. S \subseteq 1..Len(Program)
    BY <1>5
  <2>3. QED
    BY <2>1, <2>2, FS_Subset
<1>8. Cardinality(S) \in Nat /\ Cardinality(S) # 0
  <2> HIDE DEF S
  <2>1. Cardinality(S) \in Nat /\ (Cardinality(S) = 0 <=> S = {})
    BY <1>7, FS_CardinalityType, FS_EmptySet
  <2>2. QED
    BY <1>6, <2>1
<1>9. nextVaultId + Cardinality(S) <= MaxVaultId
  BY DEF LeavesRoom
<1>10. nextVaultId \in Nat /\ MaxVaultId \in Nat
  BY RegistryAssumption DEF ScriptInv, RouterInv, IInv, TypeOK
<1> HIDE DEF S
<1>11. QED
  BY <1>8, <1>9, <1>10

\* Where the script is in its last scenario, by numbers.
LEMMA Places ==
    ASSUME ScriptInv
    PROVE  /\ Place \in Int /\ pc \in Nat /\ Base \in {0, 45} /\ pc = Base + Place
           /\ Gate \in {3, 8} /\ Funds \in {0, 1, 2, 4}
           /\ Place >= 2 => nextVaultId >= 2 /\ (nextVaultId - 1) \in VaultId
           /\ Place >= 3 => mine \in VaultId
           /\ nextVaultId \in Nat /\ MaxVaultId \in Nat
<1>1. /\ pc \in Nat /\ nextVaultId \in 1..(MaxVaultId + 1) /\ MaxVaultId \in Nat
      /\ mine \in 0..MaxVaultId
      /\ pc >= 2 => nextVaultId >= 2
      /\ pc >= 3 => mine >= 1
  BY RegistryAssumption, ProgramSteps
  DEF ScriptInv, RouterInv, IInv, TypeOK, ScriptTypeOK, Position
<1>2. Base \in {0, 45} /\ Gate \in {3, 8} /\ Funds \in {0, 1, 2, 4}
  BY DEF Base, Gate, Funds
<1>3. Place \in Int /\ pc = Base + Place
  BY <1>1, <1>2 DEF Place
<1>4. QED
  BY <1>1, <1>2, <1>3 DEF VaultId

\* The script stands where it stood.
Standing == UNCHANGED <<scenario, pc, sent, mine, outcome>>

LEMMA PlacesKept ==
    ASSUME UNCHANGED <<scenario, pc>>
    PROVE  Place' = Place /\ Base' = Base /\ Gate' = Gate /\ Funds' = Funds
           /\ (Named' <=> Named) /\ (Cancels' <=> Cancels)
BY DEF Place, Base, Gate, Funds, Named, Cancels

\* What was said of a vault in hand remains true while others leave it alone.
LEMMA LeftAloneKeeps ==
    ASSUME ScriptInv, Standing, Place >= 3, NEW v \in VaultId, v = mine,
           LeftAlone(v), Counted, Payable, Lived,
           \A a \in Asset : token'[a][ScriptOwner] = token[a][ScriptOwner],
           vaults[v].owner = ScriptOwner
    PROVE  Counted' /\ Payable' /\ Lived'
<1>1. /\ Place' = Place /\ Funds' = Funds /\ scenario' = scenario /\ sent' = sent
      /\ (Cancels' <=> Cancels) /\ mine' = v
  BY PlacesKept DEF Standing
<1>2. Untouched(mine) => Untouched(v)'
  BY DEF LeftAlone, Untouched
<1>3. Untouched(v)' => Untouched(mine)'
  BY <1>1 DEF Untouched
<1>4. Counted'
  BY <1>1, <1>2, <1>3 DEF Counted, LeftAlone
<1>5. Payable'
  <2>1. vaults[v].fundingAsset \in Asset
    <3>1. ScriptOwner \in Account
      BY ScriptAssumption, RegistryAssumption
    <3>2. IdentityOf(v)
      BY DEF ScriptInv, RouterInv, IInv, Sound
    <3>3. QED
      BY <3>1, <3>2, OwnerIsReal
  <2>2. CanPay(vaults[v].fundingAsset, ScriptOwner, Funds) =>
          CanPay(vaults[v].fundingAsset, ScriptOwner, Funds)'
    BY <1>1, <2>1 DEF CanPay, LeftAlone
  <2>3. QED
    BY <1>1, <2>2 DEF Payable, LeftAlone, CanPay
<1>6. Lived'
  <2>1. Unhalted(mine) => Unhalted(v)'
    BY DEF LeftAlone
  <2>2. Unhalted(v)' => Unhalted(mine)'
    BY <1>1 DEF Unhalted
  <2>3. QED
    BY <1>1, <2>1, <2>2 DEF Lived, LeftAlone
<1>7. QED
  BY <1>4, <1>5, <1>6

\* Others do not get in the way of the last scenario.
LEMMA OthersInPlace ==
    ASSUME ScriptInv, InPlace, OthersAct, Standing
    PROVE  InPlace'
<1>1. /\ Place' = Place /\ Gate' = Gate /\ (Named' <=> Named)
      /\ UNCHANGED <<scenario, pc, sent, mine, outcome>>
  BY PlacesKept DEF Standing
<1>2. SUFFICES ASSUME Named, outcome = "running"
               PROVE  /\ Place = 1 /\ sent => nextVaultId' <= MaxVaultId
                      /\ Place = 2 => Untouched(nextVaultId - 1)'
                      /\ Place >= 3 /\ vaults'[mine].owner = ScriptOwner =>
                            Counted' /\ Payable' /\ Lived'
                      /\ Place > Gate \/ (Place = Gate /\ sent) =>
                            vaults'[mine].owner = ScriptOwner
  BY <1>1 DEF InPlace
<1>3. ASSUME Place = 1, sent PROVE nextVaultId' <= MaxVaultId
  <2>1. nextVaultId <= MaxVaultId
    BY <1>2, <1>3 DEF InPlace
  <2>2. QED
    BY <1>2, <1>3, <2>1, OthersCreate, RoomIsLeft
<1>4. ASSUME Place = 2 PROVE Untouched(nextVaultId - 1)'
  <2>1. PICK v : v = nextVaultId' - 1
    OBVIOUS
  <2>2. CASE nextVaultId' = nextVaultId
    <3>1. v \in VaultId /\ v = nextVaultId - 1
      BY <1>4, <2>1, <2>2, Places
    <3>2. Untouched(v)
      BY <1>2, <1>4, <3>1 DEF InPlace
    <3>3. ASSUME vaults'[v].owner = ScriptOwner
          PROVE  ledger'[v].deposited = 0 /\ vaults'[v].state # "CLOSED"
      <4>1. vaults[v].owner = ScriptOwner
        BY <3>1, <3>3, OwnBefore
      <4>2. LeftAlone(v)
        BY <3>1, <4>1, OthersLeaveVaults
      <4>3. QED
        BY <3>2, <4>1, <4>2 DEF Untouched, LeftAlone
    <3>4. QED
      BY <2>1, <3>3 DEF Untouched
  <2>3. CASE nextVaultId' = nextVaultId + 1 /\ vaults'[nextVaultId].owner = Stranger
    <3>1. v = nextVaultId /\ Stranger # ScriptOwner
      BY <2>1, <2>3, Places, ScriptAssumption
    <3>2. vaults'[v].owner # ScriptOwner
      BY <2>3, <3>1
    <3>3. QED
      BY <2>1, <3>2 DEF Untouched
  <2>4. QED
    BY <2>2, <2>3, OthersCreate
<1>5. ASSUME Place >= 3, vaults'[mine].owner = ScriptOwner
      PROVE  Counted' /\ Payable' /\ Lived'
  <2>1. PICK v \in VaultId : v = mine
    BY <1>5, Places
  <2>2. vaults[v].owner = ScriptOwner
    BY <1>5, <2>1, OwnBefore
  <2>3. LeftAlone(v)
    BY <2>2, OthersLeaveVaults
  <2>4. Counted /\ Payable /\ Lived
    BY <1>2, <1>5, <2>1, <2>2 DEF InPlace
  <2>5. \A a \in Asset : token'[a][ScriptOwner] = token[a][ScriptOwner]
    BY OthersLeaveTokens
  <2>6. QED
    BY <1>5, <2>1, <2>2, <2>3, <2>4, <2>5, LeftAloneKeeps
<1>6. ASSUME Place > Gate \/ (Place = Gate /\ sent) PROVE vaults'[mine].owner = ScriptOwner
  <2>1. Place >= 3
    BY <1>6, Places
  <2>2. PICK v \in VaultId : v = mine
    BY <2>1, Places
  <2>3. vaults[v].owner = ScriptOwner
    BY <1>2, <1>6, <2>2 DEF InPlace
  <2>4. QED
    BY <2>2, <2>3, OthersLeaveVaults DEF LeftAlone
<1>7. QED
  BY <1>3, <1>4, <1>5, <1>6

-----------------------------------------------------------------------------
(* What the script's steps do for the last scenario.                       *)

\* What comes of step d for the vault it is about, when the script goes on.
Served(v, d) ==
    /\ vaults'[v].owner = vaults[v].owner
    /\ \/ ledger'[v].deposited = ledger[v].deposited
       \/ d.op = "fundVault" /\ ledger'[v].deposited = ledger[v].deposited + d.n
    /\ d.op # "guardianHalt" /\ Unhalted(v) => Unhalted(v)'
    /\ vaults[v].state = "FULLY_RELEASED" => vaults'[v].state = "FULLY_RELEASED"
    /\ d.op = "assertState" => vaults'[v].state = STATE_NAMES[d.n + 1]
    /\ d.op = "assertBalance" =>
          /\ vaults'[v] = vaults[v] /\ ledger'[v] = ledger[v]
          /\ vaults[v].balance = d.n

\* A deposit fails only when it is not the owner's, comes too late or is too much.
Accepted(v, d) ==
    \/ ledger'[v].deposited = ledger[v].deposited + d.n
    \/ vaults[v].owner # ScriptOwner \/ ~(d.n > 0)
    \/ vaults'[v].state \in {"FULLY_RELEASED", "CLOSED"} /\ vaults'[v].state = vaults[v].state
    \/ ~(ledger[v].deposited + d.n <= MaxDeposit)
    \/ ~CanPay(vaults[v].fundingAsset, ScriptOwner, d.n)

\* A call that is mined.
LEMMA CallServes ==
    ASSUME ScriptInv, NEW d \in Deed, d.op \notin {"createVault", "readId"}, Call(d),
           NEW v \in VaultId, v = mine
    PROVE  Served(v, d) /\ (d.op = "fundVault" => Accepted(v, d))
<1>1. /\ ScriptOwner \in Account /\ ScriptGuardian \in Account /\ EnclaveOracle \in Account
      /\ TRUE \in BOOLEAN /\ IInv
  BY ScriptAssumption, RegistryAssumption DEF ScriptInv, RouterInv
<1>2. vaults'[v].owner = vaults[v].owner
  BY <1>1, CallTouchesMine DEF IdentityKept
<1>3. d.op \notin {"assertState", "assertBalance"}
  BY DEF Call
<1>4. CASE d.op = "fundVault"
  <2>1. FundVault(ScriptOwner, v, d.n) /\ d.n \in Amount
    BY <1>4 DEF Call, Deed
  <2>2. /\ ledger'[v].deposited = ledger[v].deposited + d.n
        /\ Unhalted(v) => Unhalted(v)'
        /\ vaults'[v].state = vaults[v].state
    BY <1>1, <2>1, DepositKeeps
  <2>3. QED
    BY <1>2, <1>3, <1>4, <2>2 DEF Served, Accepted
<1>5. CASE d.op = "guardianHalt"
  <2>1. GuardianHalt(ScriptGuardian, v)
    BY <1>5 DEF Call
  <2>2. ledger' = ledger /\ vaults[v].state # "FULLY_RELEASED"
    BY <1>1, <2>1, HaltKeeps
  <2>3. QED
    BY <1>2, <1>3, <1>5, <2>2 DEF Served
<1>6. CASE d.op = "cancelVault"
  <2>1. CancelVault(ScriptOwner, v)
    BY <1>6 DEF Call
  <2>2. /\ ledger'[v].deposited = ledger[v].deposited
        /\ Unhalted(v) => Unhalted(v)'
        /\ vaults[v].state # "FULLY_RELEASED"
    BY <1>1, <2>1, CancelKeeps
  <2>3. QED
    BY <1>2, <1>3, <1>6, <2>2 DEF Served
<1>7. CASE d.op \notin {"fundVault", "guardianHalt", "cancelVault"}
  <2>1. PICK caller \in Account : QuietCall(caller, v)
    BY <1>1, <1>7 DEF Call, QuietCall
  <2>2. /\ ledger'[v].deposited = ledger[v].deposited
        /\ Unhalted(v) => Unhalted(v)'
        /\ vaults[v].state = "FULLY_RELEASED" => vaults'[v].state = "FULLY_RELEASED"
    BY <1>1, <2>1, QuietCallKeeps
  <2>3. QED
    BY <1>2, <1>3, <1>7, <2>2 DEF Served
<1>8. QED
  BY <1>4, <1>5, <1>6, <1>7

\* A step the script leaves behind.
LEMMA StepServes ==
    ASSUME ScriptInv, ScriptStep, outcome = "running", pc > 0, pc' # pc,
           Step.op \notin {"createVault", "readId"}, NEW v \in VaultId, v = mine
    PROVE  /\ Served(v, Step) /\ (Step.op = "fundVault" => Accepted(v, Step))
           /\ pc' = pc + 1 /\ UNCHANGED <<scenario, mine>> /\ sent' = FALSE
           /\ IsCall(Step) => sent
<1>1. PICK d : d = Step
  OBVIOUS
<1>2. d \in Deed /\ d.op \notin {"createVault", "readId"}
  BY <1>1, WhereItRuns
<1>3. sent \in BOOLEAN /\ (sent => IsCall(d))
  BY <1>1 DEF ScriptInv, ScriptTypeOK
<1>4. ASSUME vaults' = vaults, ledger' = ledger,
             d.op = "assertState" => vaults[v].state = STATE_NAMES[d.n + 1],
             d.op = "assertBalance" => vaults[v].balance = d.n
      PROVE  Served(v, d)
  BY <1>4 DEF Served, Unhalted
<1>5. CASE Mined
  <2>1. sent /\ sent' = FALSE /\ pc' = pc + 1 /\ UNCHANGED <<scenario, mine>>
    BY <1>5 DEF Mined, Continue
  <2>2. CASE WouldSucceed(d)
    <3>1. Call(d)
      BY <1>1, <1>5, <2>2 DEF Mined
    <3>2. Served(v, d) /\ (d.op = "fundVault" => Accepted(v, d))
      BY <1>2, <3>1, CallServes
    <3>3. QED
      BY <1>1, <2>1, <3>2
  <2>3. CASE ~WouldSucceed(d)
    <3>1. vaults' = vaults /\ ledger' = ledger
      BY <1>1, <1>5, <2>3 DEF Mined, vars
    <3>2. d.op \notin {"assertState", "assertBalance"}
      BY <1>3, <2>1 DEF IsCall
    <3>3. Served(v, d)
      BY <1>4, <3>1, <3>2
    <3>4. d.op = "fundVault" => Accepted(v, d)
      BY <2>3, <3>1 DEF WouldSucceed, Accepted
    <3>5. QED
      BY <1>1, <2>1, <3>3, <3>4
  <2>4. QED
    BY <2>2, <2>3
<1>6. CASE TimeAdvanced
  <2>1. /\ pc' = pc + 1 /\ UNCHANGED <<scenario, mine, sent, ledger>> /\ vaults' = vaults
        /\ d.op = "advanceTime"
    BY <1>1, <1>6 DEF TimeAdvanced, Continue, At, registryVars
  <2>2. QED
    BY <1>1, <1>3, <1>4, <2>1 DEF IsCall
<1>7. CASE AssertState
  <2>1. /\ UNCHANGED <<scenario, mine, sent, ledger>> /\ vaults' = vaults
        /\ d.op = "assertState" /\ vaults[v].state = STATE_NAMES[d.n + 1] /\ pc' = pc + 1
    BY <1>1, <1>7 DEF AssertState, AssertEqual, Continue, At, vars
  <2>2. QED
    BY <1>1, <1>3, <1>4, <2>1 DEF IsCall
<1>8. CASE AssertBalance
  <2>1. /\ UNCHANGED <<scenario, mine, sent, ledger>> /\ vaults' = vaults
        /\ d.op = "assertBalance" /\ vaults[v].balance = d.n /\ pc' = pc + 1
    BY <1>1, <1>8 DEF AssertBalance, AssertEqual, Continue, At, vars
  <2>2. QED
    BY <1>1, <1>3, <1>4, <2>1 DEF IsCall
<1>9. CASE SetUp \/ WriteContract \/ ReadVaultId
  BY <1>9 DEF SetUp, WriteContract, ReadVaultId, At
<1>10. QED
  BY <1>5, <1>6, <1>7, <1>8, <1>9 DEF ScriptStep

\* When a vault holds everything that was put into it, nothing was released of it.
LEMMA HoldsAll ==
    ASSUME ScriptInv, NEW v \in VaultId, ledger[v].deposited \in {0, Funds},
           vaults[v].balance = Funds
    PROVE  ledger[v].deposited = Funds /\ ledger[v].released = 0
<1>1. FundsOf(v) /\ TypeOK
  BY DEF ScriptInv, RouterInv, IInv, Sound
<1>2. ledger[v].released \in Nat /\ ledger[v].refunded \in Nat /\ Funds \in Nat
  BY <1>1, Places DEF TypeOK, Ledger
<1>3. QED
  BY <1>1, <1>2 DEF FundsOf

\* The step that leaves a place of the last scenario, and what the plan says of it.
LEMMA NextPlace ==
    ASSUME ScriptInv, ScriptStep, Named, Place >= 1, outcome = "running", outcome' = "running",
           pc' = pc + 1, scenario' = scenario
    PROVE  \E p : Plan(p) /\ Step = p[Place] /\ Place \in 1..(Last - 1) /\ Place' = Place + 1
<1>1. PICK p : Plan(p) /\ Step = p[Place] /\ Place \in 1..Last
                 /\ (pc = Len(Program) <=> Place = Last)
  BY StepAsPlanned
<1>2. pc > 0
  BY Places
<1>3. pc # Len(Program)
  <2>1. CASE Mined \/ ReadVaultId \/ TimeAdvanced
    BY <2>1 DEF Mined, ReadVaultId, TimeAdvanced, Continue
  <2>2. CASE AssertState \/ AssertBalance
    BY <2>2, Places DEF AssertState, AssertBalance, AssertEqual, Continue
  <2>3. CASE SetUp \/ WriteContract
    BY <1>2, <2>3, Places DEF SetUp, WriteContract
  <2>4. QED
    BY <2>1, <2>2, <2>3 DEF ScriptStep
<1>4. Last \in Nat
  BY DEF Last
<1>5. Place' = Place + 1
  BY Places DEF Place, Base
<1>6. QED
  BY <1>1, <1>3, <1>4, <1>5

\* Behind its first two steps the scenario goes on with the vault it has.
LEMMA CountedOnward ==
    ASSUME ScriptInv, ScriptStep, Named, Place >= 3, outcome = "running",
           outcome' = "running", pc' # pc, NEW v \in VaultId, v = mine,
           vaults[v].owner = ScriptOwner, Counted, Payable, Lived
    PROVE  Counted' /\ Lived' /\ ~sent' /\ Place' = Place + 1
           /\ vaults'[mine'].owner = ScriptOwner /\ UNCHANGED <<scenario, mine>>
<1>1. PICK p : Plan(p) /\ Step = p[Place] /\ Place \in 1..Last
  BY StepAsPlanned, Places
<1>2. pc > 0 /\ Place \in 3..Last
  BY <1>1, Places DEF Last
<1>3. Step.op \notin {"createVault", "readId"}
  BY <1>1, <1>2 DEF Plan
<1>4. PICK d : d = Step
  OBVIOUS
<1>5. /\ Served(v, d) /\ (d.op = "fundVault" => Accepted(v, d))
      /\ pc' = pc + 1 /\ UNCHANGED <<scenario, mine>> /\ sent' = FALSE
      /\ IsCall(d) => sent
  BY <1>2, <1>3, <1>4, StepServes
<1>6. PICK q : Plan(q) /\ d = q[Place] /\ Place \in 3..(Last - 1) /\ Place' = Place + 1
  BY <1>2, <1>4, <1>5, NextPlace DEF Last
<1>7. /\ scenario' = scenario /\ mine' = v /\ Funds' = Funds /\ (Cancels' <=> Cancels)
      /\ Place \in Int /\ vaults'[v].owner = ScriptOwner
  BY <1>5, Places DEF Funds, Cancels, Served
<1>8. ledger[v].deposited \in {0, Funds}
  BY DEF Counted
<1>9. ledger'[v].deposited \in {0, Funds}
        /\ (ledger[v].deposited = Funds /\ Place >= 4 => ledger'[v].deposited = Funds)
  <2>1. CASE d.op = "fundVault"
    <3>1. Place = 3
      BY <1>6, <2>1 DEF Plan
    <3>2. ledger[v].deposited = 0
      BY <3>1 DEF Counted, Untouched
    <3>3. d.n = Funds
      BY <1>6, <2>1, <3>1 DEF Plan, Funds, Fund, Cancels, Named
    <3>4. QED
      BY <1>5, <3>1, <3>2, <3>3, Places DEF Served
  <2>2. CASE d.op # "fundVault"
    BY <1>5, <1>8, <2>2 DEF Served
  <2>3. QED
    BY <2>1, <2>2
<1>10. Unhalted(v)' => Unhalted(mine)'
  BY <1>7 DEF Unhalted
<1>11. CASE scenario = "happy"
  <2>1. ~Cancels /\ Funds = 2 /\ Last = 22
    BY <1>11 DEF Cancels, Funds, Last
  <2>2. CASE Place = 4
    <3>1. d = Holds(2)
      BY <1>6, <1>11, <2>2 DEF Plan
    <3>2. vaults[v].balance = Funds /\ ledger'[v] = ledger[v]
      BY <1>5, <2>1, <3>1 DEF Served, Holds
    <3>3. ledger'[v].deposited = Funds
      BY <1>8, <3>2, HoldsAll
    <3>4. QED
      BY <1>5, <1>7, <1>6, <1>9, <1>11, <2>1, <2>2, <3>3 DEF Counted, Lived
  <2>3. CASE Place = 21
    <3>1. d = InState(7)
      BY <1>6, <1>11, <2>3 DEF Plan
    <3>2. vaults'[v].state = STATE_NAMES[8]
      BY <1>5, <3>1 DEF Served, InState
    <3>3. vaults'[v].state = "FULLY_RELEASED"
      BY <3>2 DEF STATE_NAMES
    <3>4. ledger[v].deposited = Funds
      BY <1>11, <2>3 DEF Counted
    <3>5. QED
      BY <1>5, <1>7, <1>6, <1>9, <1>11, <2>1, <2>3, <3>3, <3>4 DEF Counted, Lived
  <2>4. CASE Place \notin {4, 21}
    <3>1. Place >= 5 => ledger'[v].deposited = Funds
      BY <1>7, <1>9, <1>11 DEF Counted
    <3>2. QED
      BY <1>5, <1>7, <1>6, <1>9, <1>11, <2>1, <2>4, <3>1 DEF Counted, Lived
  <2>5. QED
    BY <2>2, <2>3, <2>4
<1>12. CASE scenario = "halt"
  <2>1. ~Cancels /\ Funds = 4 /\ Last = 14
    BY <1>12 DEF Cancels, Funds, Last
  <2>2. CASE Place < 12
    BY <1>5, <1>7, <1>6, <1>9, <1>12, <2>1, <2>2 DEF Counted, Lived
  <2>3. CASE Place = 12
    <3>1. d = Holds(4)
      BY <1>6, <1>12, <2>3 DEF Plan
    <3>2. /\ vaults[v].balance = Funds /\ ledger'[v] = ledger[v] /\ vaults'[v] = vaults[v]
      BY <1>5, <2>1, <3>1 DEF Served, Holds
    <3>3. ledger'[v].deposited = Funds /\ ledger'[v].released = 0
      BY <1>8, <3>2, HoldsAll
    <3>4. Unhalted(mine)'
      BY <1>7, <3>3 DEF Unhalted
    <3>5. QED
      BY <1>5, <1>7, <1>6, <1>9, <1>12, <2>1, <2>3, <3>3, <3>4 DEF Counted, Lived
  <2>4. CASE Place > 12
    <3>1. d.op # "guardianHalt"
      BY <1>6, <1>12, <2>1, <2>4 DEF Plan
    <3>2. ledger[v].deposited = Funds /\ Unhalted(v)
      BY <1>7, <1>12, <2>4 DEF Counted, Lived
    <3>3. Unhalted(mine)'
      BY <1>5, <1>10, <3>1, <3>2 DEF Served
    <3>4. QED
      BY <1>5, <1>7, <1>6, <1>9, <1>12, <2>1, <2>4, <3>2, <3>3 DEF Counted, Lived
  <2>5. QED
    BY <1>7, <2>2, <2>3, <2>4
<1>13. CASE scenario = "override"
  BY <1>5, <1>7, <1>6, <1>9, <1>13 DEF Counted, Lived, Cancels
<1>14. CASE Cancels
  <2>1. scenario # "happy" /\ scenario # "halt" /\ Funds = 1 /\ Last = 6
    BY <1>14 DEF Cancels, Funds, Last
  <2>2. Unhalted(mine)'
    <3>1. d.op # "guardianHalt" /\ Unhalted(v)
      BY <1>6, <1>14, <2>1 DEF Plan, Lived
    <3>2. QED
      BY <1>5, <1>10, <3>1 DEF Served
  <2>3. ledger'[v].deposited = Funds \/ vaults'[v].state = "FULLY_RELEASED"
    <3>1. CASE Place = 3
      <4>1. d = Fund(1)
        BY <1>6, <1>14, <3>1 DEF Plan
      <4>2. d.op = "fundVault" /\ d.n = Funds /\ d.n > 0
        BY <2>1, <4>1 DEF Fund
      <4>3. sent
        BY <1>5, <4>2 DEF IsCall
      <4>4. CanPay(vaults[v].fundingAsset, ScriptOwner, Funds) /\ Funds <= MaxDeposit
        BY <1>14, <3>1, <4>3 DEF Payable
      <4>5. ledger[v].deposited = 0 /\ vaults[v].state # "CLOSED"
        BY <3>1 DEF Counted, Untouched
      <4>6. Accepted(v, d)
        BY <1>5, <4>2
      <4>7. QED
        BY <2>1, <4>2, <4>4, <4>5, <4>6 DEF Accepted
    <3>2. CASE Place >= 4
      <4>1. ledger[v].deposited = Funds \/ vaults[v].state = "FULLY_RELEASED"
        BY <1>14, <3>2 DEF Counted
      <4>2. QED
        BY <1>5, <1>9, <3>2, <4>1 DEF Served
    <3>3. QED
      BY <1>6, <3>1, <3>2
  <2>4. Place = 5 => vaults'[v].state = "CLOSED"
    <3>1. Place = 5 => d = InState(8)
      BY <1>6, <1>14 DEF Plan
    <3>2. Place = 5 => vaults'[v].state = STATE_NAMES[9]
      BY <1>5, <3>1 DEF Served, InState
    <3>3. QED
      BY <3>2 DEF STATE_NAMES
  <2>5. QED
    BY <1>5, <1>7, <1>6, <1>9, <1>14, <2>1, <2>2, <2>3, <2>4 DEF Counted, Lived
<1>15. QED
  BY <1>11, <1>12, <1>13, <1>14 DEF Named, Cancels

\* A step that goes on has nothing in flight afterwards.
LEMMA GoesOn ==
    ASSUME ScriptInv, ScriptStep, pc' # pc
    PROVE  outcome = "running" /\ pc' = pc + 1 /\ scenario' = scenario /\ sent' = FALSE
<1>1. /\ sent \in BOOLEAN /\ (sent => outcome = "running" /\ IsCall(Step) /\ pc >= 1)
  BY DEF ScriptInv, ScriptTypeOK, Position
<1>2. CASE Mined
  BY <1>1, <1>2 DEF Mined, Continue
<1>3. CASE SetUp
  BY <1>1, <1>3 DEF SetUp, Continue
<1>4. CASE ReadVaultId \/ TimeAdvanced
  BY <1>1, <1>4 DEF ReadVaultId, TimeAdvanced, Continue, At, IsCall
<1>5. CASE AssertState \/ AssertBalance
  <2>1. Step.op \in {"assertState", "assertBalance"} /\ outcome = "running"
    BY <1>5 DEF AssertState, AssertBalance, At
  <2>2. pc' = pc + 1 /\ scenario' = scenario /\ sent' = sent
    BY <1>5 DEF AssertState, AssertBalance, AssertEqual, Continue
  <2>3. QED
    BY <1>1, <2>1, <2>2 DEF IsCall
<1>6. CASE WriteContract
  BY <1>6 DEF WriteContract
<1>7. QED
  BY <1>2, <1>3, <1>4, <1>5, <1>6 DEF ScriptStep

\* Where there is room, the creation is not reverted, and the new vault is fresh.
LEMMA CreatedFresh ==
    ASSUME ScriptInv, Accounts, Mined, Step.op = "createVault", nextVaultId <= MaxVaultId
    PROVE  Untouched(nextVaultId - 1)'
<1>1. PICK d : d = Step
  OBVIOUS
<1>2. Call(d)
  BY <1>1 DEF Mined, WouldSucceed
<1>3. PICK plan \in PlanHash :
         CreateVault(ScriptOwner, plan, Fxrp, DemoTimings, ScriptGuardian)
  BY <1>1, <1>2 DEF Call
<1>4. /\ ScriptOwner \in Account /\ Fxrp \in Asset /\ DemoTimings \in Timing
      /\ ScriptGuardian \in GuardianKey /\ TypeOK
  BY ScriptAssumption, RouterAssumption, RegistryAssumption DEF ScriptInv, RouterInv, IInv
<1>5. nextVaultId \in VaultId /\ vaults'[nextVaultId].state = "ACTIVE"
  BY <1>3, <1>4, CreateEffect
<1>6. nextVaultId' = nextVaultId + 1 /\ ledger' = ledger
  BY <1>3 DEF CreateVault
<1>7. PICK v \in VaultId : v = nextVaultId
  BY <1>5
<1>8. v = nextVaultId' - 1
  BY <1>6, <1>7, Places
<1>9. ledger'[v].deposited = 0
  <2>1. ~(v < nextVaultId)
    BY <1>7, Places
  <2>2. QED
    BY <1>6, <2>1 DEF Accounts
<1>10. vaults'[v].state # "CLOSED"
  BY <1>5, <1>7
<1>11. QED
  BY <1>8, <1>9, <1>10 DEF Untouched

\* Nothing was put into the vault whose id is read back, if it is the script's own.
LEMMA ReadFresh ==
    ASSUME ScriptInv, ReadVaultId, Place = 2, Untouched(nextVaultId - 1),
           vaults'[mine'].owner = ScriptOwner, Place' = 3
    PROVE  Counted' /\ Lived'
<1>1. PICK v \in VaultId : v = nextVaultId - 1
  BY Places
<1>2. mine' = v /\ vaults' = vaults /\ ledger' = ledger /\ scenario' = scenario
  BY <1>1 DEF ReadVaultId, vars
<1>3. ledger[v].deposited = 0 /\ vaults[v].state # "CLOSED"
  BY <1>1, <1>2 DEF Untouched
<1>4. ledger[v].released = 0
  <2>1. FundsOf(v) /\ TypeOK
    BY DEF ScriptInv, RouterInv, IInv, Sound
  <2>2. /\ ledger[v].released \in Nat /\ ledger[v].refunded \in Nat
        /\ vaults[v].balance \in Nat
    BY <2>1, TimingNat DEF TypeOK, Ledger
  <2>3. QED
    BY <1>3, <2>1, <2>2 DEF FundsOf
<1>5. Untouched(v)' /\ Unhalted(v)'
  BY <1>2, <1>3, <1>4 DEF Untouched, Unhalted
<1>6. Untouched(mine)' /\ Unhalted(mine)'
  BY <1>2, <1>5 DEF Untouched, Unhalted
<1>7. Counted'
  BY <1>2, <1>3, <1>6 DEF Counted
<1>8. QED
  BY <1>6, <1>7 DEF Lived

\* The script's call is sent: gas estimation has looked at what it needs.
LEMMA SentInPlace ==
    ASSUME ScriptInv, InPlace, WriteContract, Named, outcome' = "running"
    PROVE  InPlace'
<1>1. /\ outcome = "running" /\ pc > 0 /\ sent' = TRUE /\ ~sent /\ WouldSucceed(Step)
      /\ UNCHANGED <<scenario, pc, mine>> /\ vaults' = vaults /\ ledger' = ledger
      /\ token' = token /\ nextVaultId' = nextVaultId
  BY DEF WriteContract, vars
<1>2. /\ Place' = Place /\ Gate' = Gate /\ Funds' = Funds /\ (Named' <=> Named)
      /\ (Cancels' <=> Cancels)
  BY <1>1, PlacesKept
<1>3. PICK d : d = Step
  OBVIOUS
<1>4. ASSUME Place >= 1
      PROVE  \E p : Plan(p) /\ d = p[Place] /\ Place \in 1..Last
  BY <1>1, <1>3, <1>4, StepAsPlanned
<1>5. ASSUME Place = 1 PROVE nextVaultId <= MaxVaultId
  <2>1. d.op = "createVault"
    BY <1>4, <1>5 DEF Plan
  <2>2. QED
    BY <1>1, <1>3, <2>1 DEF WouldSucceed
<1>6. ASSUME Place = Gate PROVE vaults[mine].owner = ScriptOwner
  <2>1. PICK p : Plan(p) /\ d = p[Place]
    BY <1>4, <1>6, Places
  <2>2. d.op \in {"fundVault", "ownerOverride"}
    <3>1. CASE scenario = "override"
      BY <1>6, <2>1, <3>1 DEF Plan, Gate
    <3>2. CASE scenario # "override"
      BY <1>6, <2>1, <3>2 DEF Plan, Gate, Fund, Named, Cancels
    <3>3. QED
      BY <3>1, <3>2
  <2>3. QED
    BY <1>1, <1>3, <2>2 DEF WouldSucceed
<1>7. ASSUME Place >= 3, vaults[mine].owner = ScriptOwner PROVE Counted' /\ Payable' /\ Lived'
  <2>1. Counted /\ Lived
    BY <1>1, <1>7 DEF InPlace
  <2>2. Counted' /\ Lived'
    BY <1>1, <1>2, <2>1 DEF Counted, Lived, Untouched, Unhalted
  <2>3. ASSUME Cancels, Place = 3
        PROVE  CanPay(vaults[mine].fundingAsset, ScriptOwner, Funds) /\ Funds <= MaxDeposit
    <3>1. PICK p : Plan(p) /\ d = p[Place]
      BY <1>4, <1>7, Places
    <3>2. d = Fund(1) /\ Funds = 1
      BY <2>3, <3>1 DEF Plan, Funds, Cancels
    <3>3. d.op = "fundVault" /\ d.n = 1
      BY <3>2 DEF Fund
    <3>4. /\ ledger[mine].deposited + 1 <= MaxDeposit
          /\ CanPay(vaults[mine].fundingAsset, ScriptOwner, 1)
      BY <1>1, <1>3, <3>3 DEF WouldSucceed
    <3>5. ledger[mine].deposited = 0
      BY <1>7, <2>1, <2>3 DEF Counted, Untouched
    <3>6. QED
      BY <3>2, <3>4, <3>5
  <2>4. Payable'
    BY <1>1, <1>2, <2>3 DEF Payable, CanPay
  <2>5. QED
    BY <2>2, <2>4
<1>8. Untouched(nextVaultId - 1)' <=> Untouched(nextVaultId - 1)
  BY <1>1 DEF Untouched
<1>9. ASSUME Place > Gate PROVE vaults[mine].owner = ScriptOwner
  BY <1>1, <1>9 DEF InPlace
<1>10. Place = 2 => Untouched(nextVaultId - 1)
  BY <1>1 DEF InPlace
<1>11. QED
  BY <1>1, <1>2, <1>5, <1>6, <1>7, <1>8, <1>9, <1>10 DEF InPlace

\* The script's own steps.
LEMMA StepsInPlace ==
    ASSUME ScriptInv, InPlace, Accounts, ScriptStep
    PROVE  InPlace'
<1>1. SUFFICES ASSUME Named', outcome' = "running" PROVE InPlace'
  BY DEF InPlace
<1>2. scenario' = scenario /\ Named
  BY <1>1 DEF ScriptStep, SetUp, WriteContract, Mined, ReadVaultId, TimeAdvanced,
              AssertState, AssertBalance, Named
<1>3. CASE pc' = pc
  <2>1. WriteContract
    <3>1. CASE AssertState \/ AssertBalance
      BY <1>1, <1>3, <3>1, Places DEF AssertState, AssertBalance, AssertEqual, Continue
    <3>2. CASE SetUp \/ Mined \/ ReadVaultId \/ TimeAdvanced
      BY <1>3, <3>2, Places DEF SetUp, Mined, ReadVaultId, TimeAdvanced, Continue
    <3>3. QED
      BY <3>1, <3>2 DEF ScriptStep
  <2>2. QED
    BY <1>1, <1>2, <2>1, SentInPlace
<1>4. CASE pc' # pc
  <2>1. outcome = "running" /\ pc' = pc + 1 /\ sent' = FALSE
    BY <1>4, GoesOn
  <2>2. Place' = Place + 1 /\ Gate' = Gate /\ Place \in Int /\ Gate \in {3, 8}
    BY <1>2, <2>1, Places DEF Place, Base, Gate
  <2>3. ASSUME Place >= 1
        PROVE  pc > 0 /\ \E p : Plan(p) /\ Step = p[Place] /\ Place \in 1..Last
    BY <1>2, <2>1, <2>3, StepAsPlanned, Places
  <2>4. ~Payable' => FALSE
    BY <2>1 DEF Payable
  <2>5. CASE Place < 1
    BY <2>1, <2>2, <2>5 DEF InPlace
  <2>6. CASE Place = 1
    <3>1. Step.op = "createVault" /\ pc > 0
      BY <2>3, <2>6 DEF Plan
    <3>2. Mined
      BY <1>4, <3>1 DEF ScriptStep, SetUp, WriteContract, ReadVaultId, TimeAdvanced,
                        AssertState, AssertBalance, At
    <3>3. nextVaultId <= MaxVaultId
      BY <1>2, <2>1, <2>6, <3>2 DEF InPlace, Mined
    <3>4. Untouched(nextVaultId - 1)'
      BY <3>1, <3>2, <3>3, CreatedFresh
    <3>5. QED
      BY <2>1, <2>2, <2>6, <3>4 DEF InPlace
  <2>7. CASE Place = 2
    <3>1. Step.op = "readId" /\ pc > 0
      BY <2>3, <2>7 DEF Plan
    <3>2. ~sent
      BY <3>1 DEF ScriptInv, ScriptTypeOK, IsCall
    <3>3. ReadVaultId
      BY <1>4, <3>1, <3>2 DEF ScriptStep, SetUp, WriteContract, Mined, TimeAdvanced,
                              AssertState, AssertBalance, At
    <3>4. Untouched(nextVaultId - 1)
      BY <1>2, <2>1, <2>7 DEF InPlace
    <3>5. vaults'[mine'].owner = ScriptOwner => Counted' /\ Lived'
      BY <2>2, <2>7, <3>3, <3>4, ReadFresh
    <3>6. QED
      BY <2>1, <2>2, <2>4, <2>7, <3>5 DEF InPlace
  <2>8. CASE Place >= 3
    <3>1. PICK v \in VaultId : v = mine
      BY <2>8, Places
    <3>2. PICK p : Plan(p) /\ Step = p[Place] /\ Place \in 3..Last
      BY <2>2, <2>3, <2>8 DEF Last
    <3>3. Step.op \notin {"createVault", "readId"} /\ pc > 0
      BY <2>2, <2>3, <2>8, <3>2 DEF Plan
    <3>4. Served(v, Step) /\ UNCHANGED mine /\ (IsCall(Step) => sent)
      BY <1>4, <2>1, <3>1, <3>3, StepServes
    <3>5. vaults'[v].owner = vaults[v].owner /\ mine' = v
      BY <3>1, <3>4 DEF Served
    <3>6. Place = Gate => IsCall(Step)
      <4>1. CASE scenario = "override"
        BY <3>2, <4>1 DEF Plan, Gate, IsCall
      <4>2. CASE scenario # "override"
        BY <1>2, <3>2, <4>2 DEF Plan, Gate, Fund, Named, Cancels, IsCall
      <4>3. QED
        BY <4>1, <4>2
    <3>7. Place >= Gate => vaults[v].owner = ScriptOwner
      BY <1>2, <2>1, <2>2, <3>1, <3>4, <3>6 DEF InPlace
    <3>8. ASSUME vaults[v].owner = ScriptOwner PROVE Counted' /\ Lived'
      <4>1. Counted /\ Payable /\ Lived
        BY <1>2, <2>1, <2>8, <3>1, <3>8 DEF InPlace
      <4>2. QED
        BY <1>1, <1>2, <1>4, <2>1, <2>8, <3>1, <3>8, <4>1, CountedOnward
    <3>9. QED
      BY <2>1, <2>2, <2>4, <2>8, <3>5, <3>7, <3>8 DEF InPlace
  <2>9. QED
    BY <2>2, <2>5, <2>6, <2>7, <2>8
<1>5. QED
  BY <1>3, <1>4

-----------------------------------------------------------------------------
(* A pass is earned.                                                       *)

\* The script starts before its last scenario, on a chain without deposits.
LEMMA InPlaceInit == ScriptInit => Accounts /\ InPlace
<1> SUFFICES ASSUME ScriptInit PROVE Accounts /\ InPlace
  OBVIOUS
<1>1. Accounts
  BY DEF ScriptInit, Init, Accounts
<1>2. pc = 0 /\ Base \in {0, 45} /\ Gate \in {3, 8}
  BY DEF ScriptInit, Base, Gate
<1>3. Place <= 0 /\ Place \in Int
  BY <1>2 DEF Place
<1>4. InPlace
  BY <1>2, <1>3 DEF InPlace
<1>5. QED
  BY <1>1, <1>4

\* Every step keeps the accounts, and the script in its place.
LEMMA InPlaceHolds ==
    ScriptInv /\ Accounts /\ InPlace /\ [ScriptNext]_allVars => Accounts' /\ InPlace'
<1> SUFFICES ASSUME ScriptInv, Accounts, InPlace, [ScriptNext]_allVars
             PROVE  Accounts' /\ InPlace'
  OBVIOUS
<1>1. Accounts'
  BY ScriptNextHolds, AccountsHold DEF ScriptInv
<1>2. CASE ScriptStep
  BY <1>1, <1>2, StepsInPlace
<1>3. CASE OtherStep \/ TimePasses \/ UNCHANGED allVars
  <2>1. OthersAct
    BY <1>3 DEF OthersAct, allVars
  <2>2. Standing
    BY <1>3 DEF OtherStep, TimePasses, allVars, scriptVars, Standing
  <2>3. QED
    BY <1>1, <2>1, <2>2, OthersInPlace
<1>4. QED
  BY <1>2, <1>3 DEF ScriptNext

\* A run with a program passes by an assertion of its vault's state or balance at the
\* last place of the last scenario.
LEMMA PassesByAssertion ==
    ASSUME ScriptInv, [ScriptNext]_allVars, outcome = "running", outcome' = "passed",
           Program # <<>>
    PROVE  /\ Named /\ Place = Last
           /\ scenario \in {"halt", "override"} => vaults[mine].state = "ACTIVE"
<1>1. Named
  BY LastScenario
<1>2. ScriptStep
  BY DEF ScriptNext, OtherStep, TimePasses, allVars, scriptVars
<1>3. Len(Program) \in Nat /\ Len(Program) # 0 /\ pc \in Nat
  <2>1. PICK q : q = Program
    OBVIOUS
  <2>2. q \in Seq(Deed) /\ q # <<>>
    BY <2>1, ProgramWellFormed DEF WellFormed
  <2>3. Len(q) # 0 /\ Len(q) \in Nat
    BY <2>2, EmptySeq, LenProperties
  <2>4. QED
    BY <2>1, <2>3, Places
<1>4. Continue /\ pc = Len(Program)
  <2>1. CASE SetUp
    BY <2>1 DEF SetUp, Continue
  <2>2. CASE Mined \/ ReadVaultId \/ TimeAdvanced
    BY <2>2 DEF Mined, ReadVaultId, TimeAdvanced, Continue
  <2>3. CASE AssertState \/ AssertBalance
    BY <2>3 DEF AssertState, AssertBalance, AssertEqual, Continue
  <2>4. CASE WriteContract
    BY <2>4 DEF WriteContract
  <2>5. QED
    BY <1>2, <2>1, <2>2, <2>3, <2>4 DEF ScriptStep
<1>5. PICK p : EndsWith(p) /\ Plan(p)
  BY <1>1, PlanOfProgram
<1>6. Place = Last /\ Last \in {22, 14, 9, 6}
  <2>1. Len(Program) = Base + Last
    BY <1>5 DEF EndsWith, Plan
  <2>2. Last \in {22, 14, 9, 6}
    BY DEF Last
  <2>3. QED
    BY <1>4, <2>1, <2>2, Places
<1>7. ASSUME scenario \in {"halt", "override"} PROVE vaults[mine].state = "ACTIVE"
  <2>1. PICK d : d = Step
    OBVIOUS
  <2>2. PICK q : Plan(q) /\ d = q[Last]
    BY <1>1, <1>6, <2>1, StepAsPlanned
  <2>3. d = InState(0)
    <3>1. CASE scenario = "halt"
      BY <2>2, <3>1 DEF Plan, Last
    <3>2. CASE scenario = "override"
      BY <2>2, <3>2 DEF Plan, Last
    <3>3. QED
      BY <1>7, <3>1, <3>2
  <2>4. d.op = "assertState" /\ d.n = 0
    BY <2>3 DEF InState
  <2>5. ~sent
    BY <2>1, <2>4 DEF ScriptInv, ScriptTypeOK, IsCall
  <2>6. AssertState
    BY <1>2, <1>3, <1>4, <2>1, <2>4, <2>5
    DEF ScriptStep, SetUp, WriteContract, Mined, ReadVaultId, TimeAdvanced, AssertBalance, At
  <2>7. vaults[mine].state = STATE_NAMES[d.n + 1]
    BY <1>3, <1>4, <2>1, <2>6 DEF AssertState, AssertEqual, Continue
  <2>8. vaults[mine].state = STATE_NAMES[1]
    BY <2>4, <2>7
  <2>9. QED
    BY <2>8 DEF STATE_NAMES
<1>8. QED
  BY <1>1, <1>6, <1>7

\* What has happened to the vault in hand, with the last assertion, is what the
\* scenario is about.
LEMMA PassEarned ==
    ASSUME ScriptInv, Accounts, InPlace, [ScriptNext]_allVars,
           outcome = "running", outcome' = "passed", Program # <<>>
    PROVE  Earned
<1>1. /\ Named /\ Place = Last /\ Last > Gate /\ Last >= 3
      /\ scenario \in {"halt", "override"} => vaults[mine].state = "ACTIVE"
  <2>1. Last > Gate /\ Last >= 3
    BY DEF Last, Gate
  <2>2. QED
    BY <2>1, PassesByAssertion
<1>2. PICK v \in VaultId : v = mine
  BY <1>1, Places
<1>3. vaults[v].owner = ScriptOwner
  BY <1>1, <1>2 DEF InPlace
<1>4. Counted /\ Lived
  BY <1>1, <1>2, <1>3 DEF InPlace
<1>5. /\ FundsOf(v) /\ TypeOK
      /\ vaults[v].state # "CLOSED" => ledger[v].refunded = 0
  BY DEF ScriptInv, RouterInv, IInv, Sound, Accounts
<1>6. /\ ledger[v].released \in Nat /\ ledger[v].refunded \in Nat
      /\ vaults[v].balance \in Nat
  BY <1>5, TimingNat DEF TypeOK, Ledger
<1>7. FundAmount[IF scenario = "all" THEN "cancel" ELSE scenario] = Funds
  BY <1>1 DEF FundAmount, Funds, Named
<1>8. CASE scenario = "happy"
  <2>1. ~Cancels /\ Funds = 2 /\ Place = 22
    BY <1>1, <1>8 DEF Cancels, Funds, Last
  <2>2. ledger[v].deposited = 2 /\ vaults[v].state = "FULLY_RELEASED"
    BY <1>2, <1>4, <1>8, <2>1 DEF Counted, Lived
  <2>3. ledger[v].released = 2
    BY <1>5, <1>6, <2>2 DEF FundsOf
  <2>4. QED
    BY <1>2, <1>3, <1>7, <1>8, <2>1, <2>2, <2>3 DEF Earned
<1>9. CASE scenario = "halt"
  <2>1. ~Cancels /\ Funds = 4 /\ Place = 14
    BY <1>1, <1>9 DEF Cancels, Funds, Last
  <2>2. ledger[v].deposited = 4 /\ Unhalted(v) /\ vaults[v].state = "ACTIVE"
    BY <1>1, <1>2, <1>4, <1>9, <2>1 DEF Counted, Lived
  <2>3. vaults[v].balance = 4
    BY <1>5, <1>6, <2>2 DEF FundsOf, Unhalted
  <2>4. QED
    BY <1>2, <1>3, <1>7, <1>9, <2>1, <2>2, <2>3 DEF Earned
<1>10. CASE scenario = "override"
  <2>1. Funds = 0
    BY <1>10 DEF Funds
  <2>2. ledger[v].deposited = 0 /\ vaults[v].state = "ACTIVE"
    BY <1>1, <1>2, <1>4, <1>10, <2>1 DEF Counted
  <2>3. vaults[v].balance = 0
    BY <1>5, <1>6, <2>2 DEF FundsOf
  <2>4. QED
    BY <1>2, <1>3, <1>7, <1>10, <2>1, <2>2, <2>3 DEF Earned
<1>11. CASE Cancels
  <2>1. scenario \notin {"happy", "halt", "override"} /\ Funds = 1 /\ Place = 6
    BY <1>1, <1>11 DEF Cancels, Funds, Last
  <2>2. ledger[v].deposited = 1 /\ Unhalted(v) /\ vaults[v].state = "CLOSED"
    BY <1>2, <1>4, <1>11, <2>1 DEF Counted, Lived
  <2>3. ledger[v].refunded = 1
    <3>1. vaults[v].balance = 0 /\ ledger[v].released = 0
      BY <1>5, <2>2 DEF FundsOf, Unhalted
    <3>2. ledger[v].deposited =
             vaults[v].balance + ledger[v].released + ledger[v].refunded
      BY <1>5 DEF FundsOf
    <3>3. QED
      BY <1>6, <2>2, <3>1, <3>2
  <2>4. QED
    BY <1>2, <1>3, <1>7, <2>1, <2>2, <2>3 DEF Earned
<1>12. QED
  BY <1>1, <1>8, <1>9, <1>10, <1>11 DEF Named, Cancels

\* A pass means something, for every argument, any windows and any number of steps of
\* others: when main announces success, the vault of the last scenario is one of the
\* script's own and has done what the scenario is about.
THEOREM PassesAreEarned == ScriptSpec => PassIsEarned
<1> DEFINE J == ScriptInv /\ Accounts /\ InPlace
<1>1. ScriptInit => J
  BY ScriptInitHolds, InPlaceInit
<1>2. J /\ [ScriptNext]_allVars => J'
  BY ScriptNextHolds, InPlaceHolds
<1>3. J /\ [ScriptNext]_allVars =>
        [outcome = "running" /\ outcome' = "passed" /\ Program # <<>> => Earned]_allVars
  BY PassEarned
<1>4. QED
  BY <1>1, <1>2, <1>3, PTL DEF ScriptSpec, PassIsEarned

-----------------------------------------------------------------------------
(* The script left alone.  What its calls meet is fixed before they are    *)
(* sent, so each scenario is annotated with what is known of the chain     *)
(* before each of its steps, and the run kept to its annotation.           *)

\* What is known before a step: the state of the vault in hand, its balance and its
\* deposits, whether its window has run out, and what the script has spent and how
\* many vaults it has created so far.
Expectation ==
    [state : VaultState \cup {"none", "created"}, balance : Nat, funded : Nat,
     window : {"open", "over"}, spent : Nat, made : Nat]

On(state, balance, funded, window, spent, made) ==
    [state |-> state, balance |-> balance, funded |-> funded,
     window |-> window, spent |-> spent, made |-> made]

\* Between two scenarios there is no vault in hand.
Between(spent, made) == On("none", 0, 0, "open", spent, made)

\* How long the window of a state is.
WindowOf ==
    [created |-> DemoTimings.checkInInterval, ACTIVE |-> DemoTimings.checkInInterval,
     WARNING |-> DemoTimings.graceWindow, DISPUTE_WINDOW |-> DemoTimings.disputeWindow,
     FINAL_WINDOW |-> DemoTimings.finalWindow]

Windowed == {"created", "ACTIVE", "WARNING", "DISPUTE_WINDOW", "FINAL_WINDOW"}

\* Where the calls that move no funds take a vault from, and to, and which of them
\* have to wait for its window to run out.
Moves(op, from, window, to) ==
    \/ op = "checkIn" /\ from \in {"ACTIVE", "WARNING"} /\ to = "ACTIVE"
    \/ op = "markWarning" /\ from = "ACTIVE" /\ window = "over" /\ to = "WARNING"
    \/ op = "requestAttestation" /\ from = "WARNING" /\ window = "over" /\ to = "QUORUM_PENDING"
    \/ op = "submitQuorumResult" /\ from = "QUORUM_PENDING" /\ to = "DISPUTE_WINDOW"
    \/ op = "guardianHalt" /\ from \in {"DISPUTE_WINDOW", "FINAL_WINDOW"} /\ to = "ACTIVE"
    \/ op = "ownerOverride" /\ from = "QUORUM_PENDING" /\ to = "ACTIVE"

\* A step that makes or looks at a vault, or waits.
LooksOn(e, d, f) ==
    \/ /\ d.op = "createVault" /\ e.made + 1 <= 4
       /\ f = On("created", 0, 0, "open", e.spent, e.made + 1)
    \/ /\ d.op = "readId" /\ e.state = "created"
       /\ f = On("ACTIVE", e.balance, e.funded, e.window, e.spent, e.made)
    \/ /\ d.op = "advanceTime" /\ e.state \in Windowed
       /\ f.window = "over" => e.window = "over" \/ d.n > WindowOf[e.state]
       /\ f = On(e.state, e.balance, e.funded, f.window, e.spent, e.made)
    \/ /\ d.op = "assertState" /\ e.state \in VaultState /\ e.state = STATE_NAMES[d.n + 1]
       /\ f = e \/ f = Between(e.spent, e.made)
    \/ /\ d.op = "assertBalance" /\ e.state \in VaultState /\ d.n = e.balance
       /\ f = e \/ f = Between(e.spent, e.made)

\* A step that moves the vault on, with or without its funds.
ActsOn(e, d, f) ==
    \/ /\ d.op = "fundVault" /\ e.state = "ACTIVE"
       /\ e.spent + d.n <= 7 /\ e.funded + d.n <= 4
       /\ f = On("ACTIVE", e.balance + d.n, e.funded + d.n, e.window, e.spent + d.n, e.made)
    \/ /\ Moves(d.op, e.state, e.window, f.state)
       /\ f = On(f.state, e.balance, e.funded, "open", e.spent, e.made)
    \/ /\ d.op = "finalizeDisputeWindow" /\ e.state = "DISPUTE_WINDOW" /\ e.window = "over"
       /\ f = On("FINAL_WINDOW", e.balance - e.balance \div 2, e.funded, "open", e.spent, e.made)
    \/ /\ d.op = "finalizeFinalWindow" /\ e.state = "FINAL_WINDOW" /\ e.window = "over"
       /\ f = On("FULLY_RELEASED", 0, e.funded, "open", e.spent, e.made)
    \/ /\ d.op = "cancelVault" /\ e.state = "ACTIVE"
       /\ f = On("CLOSED", 0, e.funded, "open", e.spent, e.made)

\* Step d, taken where e is known, is served, and f is known afterwards.
Leads(e, d, f) == LooksOn(e, d, f) \/ ActsOn(e, d, f)

\* A sequence of steps that can be annotated from one point between scenarios to another.
Annotates(e, p) ==
    /\ \A i \in 1..(Len(p) + 1) : e[i] \in Expectation
    /\ \A i \in 1..Len(p) : Leads(e[i], p[i], e[i + 1])

Annotated(p, spent, made, spends, makes) ==
    \E e : /\ Annotates(e, p)
           /\ e[1] = Between(spent, made)
           /\ e[Len(p) + 1] = Between(spent + spends, made + makes)

\* One annotated sequence after another is annotated.
LEMMA AnnotatedJoined ==
    ASSUME NEW p \in Seq(Deed), NEW q \in Seq(Deed), NEW a \in Nat, NEW m \in Nat,
           NEW b \in Nat, NEW n \in Nat, NEW c \in Nat, NEW o \in Nat,
           Annotated(p, a, m, b, n), Annotated(q, a + b, m + n, c, o)
    PROVE  Annotated(p \o q, a, m, b + c, n + o)
<1> DEFINE pq == p \o q
<1>1. /\ Len(p) \in Nat /\ Len(q) \in Nat
      /\ Len(pq) = Len(p) + Len(q)
      /\ \A i \in 1..Len(p) : pq[i] = p[i]
      /\ \A i \in 1..Len(q) : pq[i + Len(p)] = q[i]
  BY LenProperties, ConcatProperties
<1> HIDE DEF pq
<1>2. PICK e : /\ Annotates(e, p) /\ e[1] = Between(a, m)
               /\ e[Len(p) + 1] = Between(a + b, m + n)
  BY DEF Annotated
<1>3. PICK f : /\ Annotates(f, q) /\ f[1] = Between(a + b, m + n)
               /\ f[Len(q) + 1] = Between((a + b) + c, (m + n) + o)
  BY DEF Annotated
<1> DEFINE g == [i \in 1..(Len(p) + Len(q) + 1) |->
                     IF i <= Len(p) THEN e[i] ELSE f[i - Len(p)]]
<1>4. /\ \A i \in 1..Len(p) : g[i] = e[i]
      /\ \A i \in 1..(Len(q) + 1) : g[i + Len(p)] = f[i]
  <2>1. \A i \in 1..Len(p) : g[i] = e[i]
    BY <1>1
  <2>2. ASSUME NEW i \in 1..(Len(q) + 1) PROVE g[i + Len(p)] = f[i]
    <3>1. /\ i + Len(p) \in 1..(Len(p) + Len(q) + 1) /\ ~(i + Len(p) <= Len(p))
          /\ (i + Len(p)) - Len(p) = i
      BY <1>1
    <3>2. QED
      BY <3>1
  <2>3. QED
    BY <2>1, <2>2
<1> HIDE DEF g
<1>5. g[Len(p) + 1] = e[Len(p) + 1]
  <2>1. 1 \in 1..(Len(q) + 1) /\ 1 + Len(p) = Len(p) + 1
    BY <1>1
  <2>2. g[1 + Len(p)] = f[1]
    BY <1>4, <2>1
  <2>3. QED
    BY <1>2, <1>3, <2>1, <2>2
<1>6. g[1] = Between(a, m)
  <2>1. CASE Len(p) = 0
    <3>1. g[1 + Len(p)] = f[1] /\ 1 + Len(p) = 1 /\ e[1] = f[1]
      BY <1>1, <1>2, <1>3, <1>4, <2>1
    <3>2. QED
      BY <1>2, <3>1
  <2>2. CASE Len(p) # 0
    BY <1>1, <1>2, <1>4, <2>2
  <2>3. QED
    BY <2>1, <2>2
<1>7. g[Len(pq) + 1] = Between(a + (b + c), m + (n + o))
  <2>1. Len(pq) + 1 = (Len(q) + 1) + Len(p) /\ Len(q) + 1 \in 1..(Len(q) + 1)
    BY <1>1
  <2>2. (a + b) + c = a + (b + c) /\ (m + n) + o = m + (n + o)
    OBVIOUS
  <2>3. QED
    BY <1>3, <1>4, <2>1, <2>2
<1>8. ASSUME NEW i \in 1..(Len(pq) + 1) PROVE g[i] \in Expectation
  <2>1. CASE i <= Len(p)
    <3>1. i \in 1..Len(p) /\ i \in 1..(Len(p) + 1)
      BY <1>1, <2>1
    <3>2. g[i] = e[i] /\ e[i] \in Expectation
      BY <1>2, <1>4, <3>1 DEF Annotates
    <3>3. QED
      BY <3>2
  <2>2. CASE ~(i <= Len(p))
    <3>1. PICK j \in 1..(Len(q) + 1) : i = j + Len(p)
      <4>1. i - Len(p) \in 1..(Len(q) + 1) /\ i = (i - Len(p)) + Len(p)
        BY <1>1, <2>2
      <4>2. QED
        BY <4>1
    <3>2. QED
      BY <1>3, <1>4, <3>1 DEF Annotates
  <2>3. QED
    BY <2>1, <2>2
<1>9. ASSUME NEW i \in 1..Len(pq) PROVE Leads(g[i], pq[i], g[i + 1])
  <2>1. CASE i <= Len(p)
    <3>1. i \in 1..Len(p) /\ g[i] = e[i] /\ pq[i] = p[i]
      BY <1>1, <1>4, <2>1
    <3>2. g[i + 1] = e[i + 1]
      <4>1. i + 1 \in 1..Len(p) \/ i + 1 = Len(p) + 1
        BY <1>1, <3>1
      <4>2. QED
        BY <1>4, <1>5, <4>1
    <3>3. QED
      BY <1>2, <3>1, <3>2 DEF Annotates
  <2>2. CASE ~(i <= Len(p))
    <3>1. PICK j \in 1..Len(q) : i = j + Len(p)
      <4>1. i - Len(p) \in 1..Len(q) /\ i = (i - Len(p)) + Len(p)
        BY <1>1, <2>2
      <4>2. QED
        BY <4>1
    <3>2. /\ j \in 1..(Len(q) + 1) /\ j + 1 \in 1..(Len(q) + 1)
          /\ i + 1 = (j + 1) + Len(p)
      BY <1>1, <3>1
    <3>3. g[i] = f[j] /\ pq[i] = q[j] /\ g[i + 1] = f[j + 1]
      BY <1>1, <1>4, <3>1, <3>2
    <3>4. QED
      BY <1>3, <3>3 DEF Annotates
  <2>3. QED
    BY <2>1, <2>2
<1>10. QED
  BY <1>6, <1>7, <1>8, <1>9 DEF Annotates, Annotated, pq

\* No steps lead nowhere.
LEMMA EmptyAnnotated ==
    ASSUME NEW a \in Nat, NEW m \in Nat
    PROVE  Annotated(<<>>, a, m, 0, 0)
<1> DEFINE e == <<Between(a, m)>>
<1>1. e[1] = Between(a, m) /\ Len(<<>>) = 0
  OBVIOUS
<1>2. Between(a, m) \in Expectation
  BY DEF Between, On, Expectation
<1>3. Annotates(e, <<>>)
  BY <1>1, <1>2 DEF Annotates
<1>4. a + 0 = a /\ m + 0 = m
  OBVIOUS
<1>5. QED
  BY <1>1, <1>3, <1>4 DEF Annotated
\* What is known is of its kind.
LEMMA OnIsExpectation ==
    ASSUME NEW s \in VaultState \cup {"none", "created"}, NEW b \in Nat, NEW f \in Nat,
           NEW o \in {"open", "over"}, NEW a \in Nat, NEW m \in Nat
    PROVE  On(s, b, f, o, a, m) \in Expectation
  BY DEF On, Expectation

\* A wait that is long enough lets a window run out, and a short one does no harm.
LEMMA WaitLeads ==
    ASSUME NEW s \in Windowed, NEW b \in Nat, NEW f \in Nat, NEW a \in Nat, NEW m \in Nat
    PROVE  /\ Leads(On(s, b, f, "open", a, m), Missed(WindowOf[s]), On(s, b, f, "over", a, m))
           /\ Leads(On(s, b, f, "open", a, m), AdvanceTime(Pause), On(s, b, f, "open", a, m))
<1>1. WindowOf[s] \in Nat
  BY ScriptNumbers DEF WindowOf, Windowed, TimingType
<1>2. WindowOf[s] + 1 > WindowOf[s]
  BY <1>1
<1>3. QED
  BY <1>2 DEF Leads, LooksOn, On, Missed, AdvanceTime

\* The happy path, step by step.
LEMMA HappyAnnotated ==
    ASSUME NEW a \in Nat, NEW m \in Nat, a + 2 <= 7, m + 1 <= 4
    PROVE  Annotated(ScenarioHappyPath, a, m, 2, 1)
<1> DEFINE before == Between(a, m)
           made == On("created", 0, 0, "open", a, m + 1)
           new == On("ACTIVE", 0, 0, "open", a, m + 1)
           alive == On("ACTIVE", 2, 2, "open", a + 2, m + 1)
           late == On("ACTIVE", 2, 2, "over", a + 2, m + 1)
           warned == On("WARNING", 2, 2, "open", a + 2, m + 1)
           gone == On("WARNING", 2, 2, "over", a + 2, m + 1)
           pending == On("QUORUM_PENDING", 2, 2, "open", a + 2, m + 1)
           disputed == On("DISPUTE_WINDOW", 2, 2, "open", a + 2, m + 1)
           undisputed == On("DISPUTE_WINDOW", 2, 2, "over", a + 2, m + 1)
           half == On("FINAL_WINDOW", 1, 2, "open", a + 2, m + 1)
           final == On("FINAL_WINDOW", 1, 2, "over", a + 2, m + 1)
           released == On("FULLY_RELEASED", 0, 2, "open", a + 2, m + 1)
           after == Between(a + 2, m + 1)
           p == ScenarioHappyPath
<1>1. Len(p) = 22
  BY DEF ScenarioHappyPath, Create
<1>2. /\ p[1] = Do("createVault") /\ p[2] = Do("readId") /\ p[3] = Fund(2)
      /\ p[4] = Holds(2) /\ p[5] = AdvanceTime(Pause) /\ p[6] = Do("checkIn")
      /\ p[7] = InState(0) /\ p[8] = Missed(WindowOf["ACTIVE"])
      /\ p[9] = Do("markWarning") /\ p[10] = InState(1)
      /\ p[11] = Missed(WindowOf["WARNING"]) /\ p[12] = Do("requestAttestation")
      /\ p[13] = InState(2) /\ p[14] = Do("submitQuorumResult") /\ p[15] = InState(3)
      /\ p[16] = Missed(WindowOf["DISPUTE_WINDOW"])
      /\ p[17] = Do("finalizeDisputeWindow") /\ p[18] = InState(6)
      /\ p[19] = Missed(WindowOf["FINAL_WINDOW"]) /\ p[20] = Do("finalizeFinalWindow")
      /\ p[21] = InState(7) /\ p[22] = Holds(0)
  BY ScriptNumbers DEF ScenarioHappyPath, Create, WindowOf
<1>3. /\ before \in Expectation /\ made \in Expectation /\ new \in Expectation
      /\ alive \in Expectation /\ late \in Expectation /\ warned \in Expectation
      /\ gone \in Expectation /\ pending \in Expectation /\ disputed \in Expectation
      /\ undisputed \in Expectation /\ half \in Expectation /\ final \in Expectation
      /\ released \in Expectation /\ after \in Expectation
  BY OnIsExpectation DEF Between, VaultState
<1>4. /\ Leads(before, Do("createVault"), made) /\ Leads(made, Do("readId"), new)
  BY DEF Leads, LooksOn, On, Do, Between
<1>5. /\ Leads(new, Fund(2), alive)
  BY DEF Leads, ActsOn, On, Fund
<1>6. /\ Leads(alive, AdvanceTime(Pause), alive)
      /\ Leads(alive, Missed(WindowOf["ACTIVE"]), late)
      /\ Leads(warned, Missed(WindowOf["WARNING"]), gone)
      /\ Leads(disputed, Missed(WindowOf["DISPUTE_WINDOW"]), undisputed)
      /\ Leads(half, Missed(WindowOf["FINAL_WINDOW"]), final)
  BY WaitLeads DEF Windowed
<1>7. /\ Leads(alive, Do("checkIn"), alive) /\ Leads(late, Do("markWarning"), warned)
      /\ Leads(gone, Do("requestAttestation"), pending)
      /\ Leads(pending, Do("submitQuorumResult"), disputed)
  BY DEF Leads, ActsOn, Moves, On, Do
<1>8. /\ Leads(undisputed, Do("finalizeDisputeWindow"), half)
      /\ Leads(final, Do("finalizeFinalWindow"), released)
  BY DEF Leads, ActsOn, On, Do
<1>9. /\ Leads(alive, InState(0), alive) /\ Leads(warned, InState(1), warned)
      /\ Leads(pending, InState(2), pending) /\ Leads(disputed, InState(3), disputed)
      /\ Leads(half, InState(6), half) /\ Leads(released, InState(7), released)
  BY DEF Leads, LooksOn, On, Between, InState, STATE_NAMES, VaultState
<1>10. /\ Leads(alive, Holds(2), alive) /\ Leads(released, Holds(0), after)
  BY DEF Leads, LooksOn, On, Between, Holds, VaultState
<1> HIDE DEF before, made, new, alive, late, warned, gone, pending, disputed, undisputed, half, final, released, after, p
<1> DEFINE e == <<before, made, new, alive, alive, alive, alive, alive, late, warned,
                  warned, gone, pending, pending, disputed, disputed, undisputed, half,
                  half, final, released, released, after>>
<1>11. /\ e[1] = before /\ e[2] = made /\ e[3] = new /\ e[4] = alive /\ e[5] = alive
       /\ e[6] = alive /\ e[7] = alive /\ e[8] = alive /\ e[9] = late /\ e[10] = warned
       /\ e[11] = warned /\ e[12] = gone /\ e[13] = pending /\ e[14] = pending
       /\ e[15] = disputed /\ e[16] = disputed /\ e[17] = undisputed /\ e[18] = half
       /\ e[19] = half /\ e[20] = final /\ e[21] = released /\ e[22] = released
       /\ e[23] = after
  OBVIOUS
<1> HIDE DEF e
<1>12. \A i \in 1..23 : e[i] \in Expectation
  BY <1>3, <1>11
<1>13. \A i \in 1..22 : Leads(e[i], p[i], e[i + 1])
  BY <1>2, <1>4, <1>5, <1>6, <1>7, <1>8, <1>9, <1>10, <1>11
<1>14. QED
  BY <1>1, <1>11, <1>12, <1>13 DEF Annotated, Annotates, before, after, p

\* The guardian halt.
LEMMA HaltAnnotated ==
    ASSUME NEW a \in Nat, NEW m \in Nat, a + 4 <= 7, m + 1 <= 4
    PROVE  Annotated(ScenarioGuardianHalt, a, m, 4, 1)
<1> DEFINE before == Between(a, m)
           made == On("created", 0, 0, "open", a, m + 1)
           new == On("ACTIVE", 0, 0, "open", a, m + 1)
           alive == On("ACTIVE", 4, 4, "open", a + 4, m + 1)
           late == On("ACTIVE", 4, 4, "over", a + 4, m + 1)
           warned == On("WARNING", 4, 4, "open", a + 4, m + 1)
           gone == On("WARNING", 4, 4, "over", a + 4, m + 1)
           pending == On("QUORUM_PENDING", 4, 4, "open", a + 4, m + 1)
           disputed == On("DISPUTE_WINDOW", 4, 4, "open", a + 4, m + 1)
           after == Between(a + 4, m + 1)
           p == ScenarioGuardianHalt
<1>1. Len(p) = 14
  BY DEF ScenarioGuardianHalt, Create, ToPending
<1>2. /\ p[1] = Do("createVault") /\ p[2] = Do("readId") /\ p[3] = Fund(4)
      /\ p[4] = Missed(WindowOf["ACTIVE"]) /\ p[5] = Do("markWarning")
      /\ p[6] = Missed(WindowOf["WARNING"]) /\ p[7] = Do("requestAttestation")
      /\ p[8] = Do("submitQuorumResult") /\ p[9] = InState(3)
      /\ p[10] = Do("guardianHalt") /\ p[11] = InState(0) /\ p[12] = Holds(4)
      /\ p[13] = Do("checkIn") /\ p[14] = InState(0)
  BY ScriptNumbers DEF ScenarioGuardianHalt, Create, ToPending, WindowOf
<1>3. /\ before \in Expectation /\ made \in Expectation /\ new \in Expectation
      /\ alive \in Expectation /\ late \in Expectation /\ warned \in Expectation
      /\ gone \in Expectation /\ pending \in Expectation /\ disputed \in Expectation
      /\ after \in Expectation
  BY OnIsExpectation DEF Between, VaultState
<1>4. /\ Leads(before, Do("createVault"), made) /\ Leads(made, Do("readId"), new)
  BY DEF Leads, LooksOn, On, Do, Between
<1>5. /\ Leads(new, Fund(4), alive)
  BY DEF Leads, ActsOn, On, Fund
<1>6. /\ Leads(alive, Missed(WindowOf["ACTIVE"]), late)
      /\ Leads(warned, Missed(WindowOf["WARNING"]), gone)
  BY WaitLeads DEF Windowed
<1>7. /\ Leads(late, Do("markWarning"), warned)
      /\ Leads(gone, Do("requestAttestation"), pending)
      /\ Leads(pending, Do("submitQuorumResult"), disputed)
      /\ Leads(disputed, Do("guardianHalt"), alive)
      /\ Leads(alive, Do("checkIn"), alive)
  BY DEF Leads, ActsOn, Moves, On, Do
<1>8. /\ Leads(disputed, InState(3), disputed) /\ Leads(alive, InState(0), alive)
      /\ Leads(alive, InState(0), after)
  BY DEF Leads, LooksOn, On, Between, InState, STATE_NAMES, VaultState
<1>9. /\ Leads(alive, Holds(4), alive)
  BY DEF Leads, LooksOn, On, Between, Holds, VaultState
<1> HIDE DEF before, made, new, alive, late, warned, gone, pending, disputed, after, p
<1> DEFINE e == <<before, made, new, alive, late, warned, gone, pending, disputed,
                  disputed, alive, alive, alive, alive, after>>
<1>10. /\ e[1] = before /\ e[2] = made /\ e[3] = new /\ e[4] = alive /\ e[5] = late
       /\ e[6] = warned /\ e[7] = gone /\ e[8] = pending /\ e[9] = disputed
       /\ e[10] = disputed /\ e[11] = alive /\ e[12] = alive /\ e[13] = alive
       /\ e[14] = alive /\ e[15] = after
  OBVIOUS
<1> HIDE DEF e
<1>11. \A i \in 1..15 : e[i] \in Expectation
  BY <1>3, <1>10
<1>12. \A i \in 1..14 : Leads(e[i], p[i], e[i + 1])
  BY <1>2, <1>4, <1>5, <1>6, <1>7, <1>8, <1>9, <1>10
<1>13. QED
  BY <1>1, <1>10, <1>11, <1>12 DEF Annotated, Annotates, before, after, p

\* The owner override.
LEMMA OverrideAnnotated ==
    ASSUME NEW a \in Nat, NEW m \in Nat, m + 1 <= 4
    PROVE  Annotated(ScenarioOwnerOverride, a, m, 0, 1)
<1> DEFINE before == Between(a, m)
           made == On("created", 0, 0, "open", a, m + 1)
           new == On("ACTIVE", 0, 0, "open", a, m + 1)
           late == On("ACTIVE", 0, 0, "over", a, m + 1)
           warned == On("WARNING", 0, 0, "open", a, m + 1)
           gone == On("WARNING", 0, 0, "over", a, m + 1)
           pending == On("QUORUM_PENDING", 0, 0, "open", a, m + 1)
           after == Between(a, m + 1)
           p == ScenarioOwnerOverride
<1>1. Len(p) = 9
  BY DEF ScenarioOwnerOverride, Create, ToPending
<1>2. /\ p[1] = Do("createVault") /\ p[2] = Do("readId")
      /\ p[3] = Missed(WindowOf["ACTIVE"]) /\ p[4] = Do("markWarning")
      /\ p[5] = Missed(WindowOf["WARNING"]) /\ p[6] = Do("requestAttestation")
      /\ p[7] = InState(2) /\ p[8] = Do("ownerOverride") /\ p[9] = InState(0)
  BY ScriptNumbers DEF ScenarioOwnerOverride, Create, ToPending, WindowOf
<1>3. /\ before \in Expectation /\ made \in Expectation /\ new \in Expectation
      /\ late \in Expectation /\ warned \in Expectation /\ gone \in Expectation
      /\ pending \in Expectation /\ after \in Expectation
  BY OnIsExpectation DEF Between, VaultState
<1>4. /\ Leads(before, Do("createVault"), made) /\ Leads(made, Do("readId"), new)
  BY DEF Leads, LooksOn, On, Do, Between
<1>5. /\ Leads(new, Missed(WindowOf["ACTIVE"]), late)
      /\ Leads(warned, Missed(WindowOf["WARNING"]), gone)
  BY WaitLeads DEF Windowed
<1>6. /\ Leads(late, Do("markWarning"), warned)
      /\ Leads(gone, Do("requestAttestation"), pending)
      /\ Leads(pending, Do("ownerOverride"), new)
  BY DEF Leads, ActsOn, Moves, On, Do
<1>7. /\ Leads(pending, InState(2), pending) /\ Leads(new, InState(0), after)
  BY DEF Leads, LooksOn, On, Between, InState, STATE_NAMES, VaultState
<1> HIDE DEF before, made, new, late, warned, gone, pending, after, p
<1> DEFINE e == <<before, made, new, late, warned, gone, pending, pending, new, after>>
<1>8. /\ e[1] = before /\ e[2] = made /\ e[3] = new /\ e[4] = late /\ e[5] = warned
       /\ e[6] = gone /\ e[7] = pending /\ e[8] = pending /\ e[9] = new
       /\ e[10] = after
  OBVIOUS
<1> HIDE DEF e
<1>9. \A i \in 1..10 : e[i] \in Expectation
  BY <1>3, <1>8
<1>10. \A i \in 1..9 : Leads(e[i], p[i], e[i + 1])
  BY <1>2, <1>4, <1>5, <1>6, <1>7, <1>8
<1>11. QED
  BY <1>1, <1>8, <1>9, <1>10 DEF Annotated, Annotates, before, after, p

\* The cancellation.
LEMMA CancelAnnotated ==
    ASSUME NEW a \in Nat, NEW m \in Nat, a + 1 <= 7, m + 1 <= 4
    PROVE  Annotated(ScenarioCancel, a, m, 1, 1)
<1> DEFINE before == Between(a, m)
           made == On("created", 0, 0, "open", a, m + 1)
           new == On("ACTIVE", 0, 0, "open", a, m + 1)
           alive == On("ACTIVE", 1, 1, "open", a + 1, m + 1)
           closed == On("CLOSED", 0, 1, "open", a + 1, m + 1)
           after == Between(a + 1, m + 1)
           p == ScenarioCancel
<1>1. Len(p) = 6
  BY DEF ScenarioCancel, Create
<1>2. /\ p[1] = Do("createVault") /\ p[2] = Do("readId") /\ p[3] = Fund(1)
      /\ p[4] = Do("cancelVault") /\ p[5] = InState(8) /\ p[6] = Holds(0)
  BY ScriptNumbers DEF ScenarioCancel, Create, WindowOf
<1>3. /\ before \in Expectation /\ made \in Expectation /\ new \in Expectation
      /\ alive \in Expectation /\ closed \in Expectation /\ after \in Expectation
  BY OnIsExpectation DEF Between, VaultState
<1>4. /\ Leads(before, Do("createVault"), made) /\ Leads(made, Do("readId"), new)
  BY DEF Leads, LooksOn, On, Do, Between
<1>5. /\ Leads(new, Fund(1), alive)
  BY DEF Leads, ActsOn, On, Fund
<1>6. /\ Leads(alive, Do("cancelVault"), closed)
  BY DEF Leads, ActsOn, On, Do
<1>7. /\ Leads(closed, InState(8), closed)
  BY DEF Leads, LooksOn, On, Between, InState, STATE_NAMES, VaultState
<1>8. /\ Leads(closed, Holds(0), after)
  BY DEF Leads, LooksOn, On, Between, Holds, VaultState
<1> HIDE DEF before, made, new, alive, closed, after, p
<1> DEFINE e == <<before, made, new, alive, closed, closed, after>>
<1>9. /\ e[1] = before /\ e[2] = made /\ e[3] = new /\ e[4] = alive /\ e[5] = closed
       /\ e[6] = closed /\ e[7] = after
  OBVIOUS
<1> HIDE DEF e
<1>10. \A i \in 1..7 : e[i] \in Expectation
  BY <1>3, <1>9
<1>11. \A i \in 1..6 : Leads(e[i], p[i], e[i + 1])
  BY <1>2, <1>4, <1>5, <1>6, <1>7, <1>8, <1>9
<1>12. QED
  BY <1>1, <1>9, <1>10, <1>11 DEF Annotated, Annotates, before, after, p
\* What the scenarios spend and create, if they are part of the program.
LEMMA PartAnnotated ==
    ASSUME NEW p \in Seq(Deed), NEW name, NEW a \in Nat, NEW m \in Nat,
           NEW b \in Nat, Annotated(p, a, m, b, 1)
    PROVE  \E c \in 0..b, n \in 0..1 :
              Part(name, p) \in Seq(Deed) /\ Annotated(Part(name, p), a, m, c, n)
<1>1. CASE scenario \in {name, "all"}
  <2>1. Part(name, p) = p /\ b \in 0..b /\ 1 \in 0..1
    BY <1>1 DEF Part
  <2>2. QED
    BY <2>1
<1>2. CASE scenario \notin {name, "all"}
  <2>1. Part(name, p) = <<>> /\ 0 \in 0..b /\ 0 \in 0..1
    BY <1>2 DEF Part
  <2>2. <<>> \in Seq(Deed)
    OBVIOUS
  <2>3. QED
    BY <2>1, <2>2, EmptyAnnotated
<1>3. QED
  BY <1>1, <1>2

\* A program that can be annotated from the start may be followed by a part that can
\* be annotated from there.
LEMMA AnnotatedFurther ==
    ASSUME NEW p \in Seq(Deed), NEW q \in Seq(Deed), NEW b \in Nat, NEW n \in Nat,
           NEW c \in Nat, NEW o \in Nat, NEW u, u = b + c, NEW w, w = n + o,
           Annotated(p, 0, 0, b, n), Annotated(q, b, n, c, o)
    PROVE  p \o q \in Seq(Deed) /\ Annotated(p \o q, 0, 0, u, w)
<1>1. 0 + b = b /\ 0 + n = n /\ 0 \in Nat
  OBVIOUS
<1>2. Annotated(q, 0 + b, 0 + n, c, o)
  BY <1>1
<1>3. Annotated(p \o q, 0, 0, b + c, n + o)
  BY <1>1, <1>2, AnnotatedJoined
<1>4. p \o q \in Seq(Deed)
  BY ConcatProperties
<1>5. QED
  BY <1>3, <1>4

\* Seven units and four ids are enough for every program.
LEMMA ProgramAnnotated ==
    \E e : Annotates(e, Program) /\ e[1] = Between(0, 0)
<1> DEFINE H == Part("happy", ScenarioHappyPath)
           G == Part("halt", ScenarioGuardianHalt)
           O == Part("override", ScenarioOwnerOverride)
           C == Part("cancel", ScenarioCancel)
<1>1. /\ ScenarioHappyPath \in Seq(Deed) /\ ScenarioGuardianHalt \in Seq(Deed)
      /\ ScenarioOwnerOverride \in Seq(Deed) /\ ScenarioCancel \in Seq(Deed)
  BY ScenariosWellFormed DEF WellFormed
<1>2. PICK b \in 0..2, n \in 0..1 : H \in Seq(Deed) /\ Annotated(H, 0, 0, b, n)
  <2>1. Annotated(ScenarioHappyPath, 0, 0, 2, 1)
    BY HappyAnnotated
  <2>2. QED
    BY <1>1, <2>1, PartAnnotated
<1> HIDE DEF H
<1>3. PICK c \in 0..6, o \in 0..2 : H \o G \in Seq(Deed) /\ Annotated(H \o G, 0, 0, c, o)
  <2>1. Annotated(ScenarioGuardianHalt, b, n, 4, 1)
    BY HaltAnnotated
  <2>2. b \in Nat /\ n \in Nat /\ 4 \in Nat
    OBVIOUS
  <2>3. PICK d \in 0..4, q \in 0..1 : G \in Seq(Deed) /\ Annotated(G, b, n, d, q)
    BY <1>1, <2>1, <2>2, PartAnnotated, Zenon
  <2>4. PICK u \in 0..6, w \in 0..2 : u = b + d /\ w = n + q
    OBVIOUS
  <2>5. d \in Nat /\ q \in Nat
    OBVIOUS
  <2> HIDE DEF G
  <2>6. H \o G \in Seq(Deed) /\ Annotated(H \o G, 0, 0, u, w)
    BY <1>2, <2>2, <2>3, <2>4, <2>5, AnnotatedFurther, Zenon
  <2>7. QED
    BY <2>6
<1> HIDE DEF G
<1>4. PICK d \in 0..6, q \in 0..3 :
         (H \o G) \o O \in Seq(Deed) /\ Annotated((H \o G) \o O, 0, 0, d, q)
  <2>1. Annotated(ScenarioOwnerOverride, c, o, 0, 1)
    BY OverrideAnnotated
  <2>2. c \in Nat /\ o \in Nat /\ 0 \in Nat
    OBVIOUS
  <2>3. PICK f \in 0..0, g \in 0..1 : O \in Seq(Deed) /\ Annotated(O, c, o, f, g)
    BY <1>1, <2>1, <2>2, PartAnnotated, Zenon
  <2>4. PICK u \in 0..6, w \in 0..3 : u = c + f /\ w = o + g
    OBVIOUS
  <2>5. f \in Nat /\ g \in Nat
    OBVIOUS
  <2> HIDE DEF O
  <2>6. (H \o G) \o O \in Seq(Deed) /\ Annotated((H \o G) \o O, 0, 0, u, w)
    BY <1>3, <2>2, <2>3, <2>4, <2>5, AnnotatedFurther, Zenon
  <2>7. QED
    BY <2>6
<1> HIDE DEF O
<1>5. PICK u, w : Annotated(((H \o G) \o O) \o C, 0, 0, u, w)
  <2>1. Annotated(ScenarioCancel, d, q, 1, 1)
    BY CancelAnnotated
  <2>2. d \in Nat /\ q \in Nat /\ 1 \in Nat
    OBVIOUS
  <2>3. PICK f \in 0..1, g \in 0..1 : C \in Seq(Deed) /\ Annotated(C, d, q, f, g)
    BY <1>1, <2>1, <2>2, PartAnnotated, Zenon
  <2>4. PICK u \in Nat, w \in Nat : u = d + f /\ w = q + g
    OBVIOUS
  <2>5. f \in Nat /\ g \in Nat
    OBVIOUS
  <2> HIDE DEF C
  <2>6. Annotated(((H \o G) \o O) \o C, 0, 0, u, w)
    BY <1>4, <2>2, <2>3, <2>4, <2>5, AnnotatedFurther, Zenon
  <2>7. QED
    BY <2>6
<1> HIDE DEF C
<1>6. Program = ((H \o G) \o O) \o C
  BY DEF Program, H, G, O, C
<1>7. QED
  BY <1>5, <1>6 DEF Annotated

\* The vault in hand is the script's, in the state and with the funds that are known,
\* and its window has run out if it is known to, or will be waited out.
InHand(v, e) ==
    /\ v \in VaultId
    /\ vaults[v].owner = ScriptOwner /\ vaults[v].guardianHaltKey = ScriptGuardian
    /\ vaults[v].fundingAsset = Fxrp /\ vaults[v].timing = DemoTimings
    /\ vaults[v].state = IF e.state = "created" THEN "ACTIVE" ELSE e.state
    /\ vaults[v].balance = e.balance
    /\ ledger[v].deposited = e.funded
    /\ e.window = "over" => now > vaults[v].windowDeadline
    /\ e.state \in Windowed => vaults[v].windowDeadline <= now + WindowOf[e.state]

\* Everything is as it is known to be.
AsExpected(e) ==
    /\ nextVaultId = e.made + 1
    /\ token[Fxrp][ScriptOwner] + e.spent >= InitialTokens
    /\ e.state # "none" => InHand(e.made, e)
    /\ e.state \notin {"none", "created"} => mine = e.made

\* What the script can rely on when it has a vault in hand.
LEMMA HandFacts ==
    ASSUME ScriptInv, NEW e \in Expectation, AsExpected(e), e.state \in VaultState
    PROVE  /\ mine = e.made /\ e.made \in VaultId /\ InHand(e.made, e)
           /\ TypeOK /\ IdentityOf(e.made) /\ vaults[e.made].state = e.state
           /\ ScriptOwner \in Account /\ ScriptGuardian \in Account /\ EnclaveOracle \in Account
           /\ Fxrp \in Asset /\ now \in Nat /\ vaults[e.made].windowDeadline \in Nat
<1>1. e.state \notin {"none", "created"}
  BY DEF VaultState
<1>2. mine = e.made /\ InHand(e.made, e)
  BY <1>1 DEF AsExpected
<1>3. e.made \in VaultId /\ vaults[e.made].state = e.state
  BY <1>1, <1>2 DEF InHand
<1>4. TypeOK /\ IdentityOf(e.made)
  BY <1>3 DEF ScriptInv, RouterInv, IInv, Sound
<1>5. now \in Nat /\ vaults[e.made].windowDeadline \in Nat
  BY <1>3, <1>4, TimingNat DEF TypeOK
<1>6. /\ ScriptOwner \in Account /\ ScriptGuardian \in Account /\ EnclaveOracle \in Account
      /\ Fxrp \in Asset
  BY ScriptAssumption, RegistryAssumption, RouterAssumption
<1>7. QED
  BY <1>1, <1>2, <1>3, <1>4, <1>5, <1>6

\* What a step has to do for the next expectation to hold of the vault in hand.
LEMMA HandedOn ==
    ASSUME NEW v \in VaultId, NEW e \in Expectation, NEW f \in Expectation,
           InHand(v, e), e.made = v, f.made = v, f.state \in VaultState,
           IdentityKept(v), nextVaultId' = nextVaultId, nextVaultId = e.made + 1, mine' = v,
           token'[Fxrp][ScriptOwner] + f.spent >= InitialTokens,
           vaults'[v].state = f.state, vaults'[v].balance = f.balance,
           ledger'[v].deposited = f.funded,
           f.window = "over" => now' > vaults'[v].windowDeadline,
           f.state \in Windowed => vaults'[v].windowDeadline <= now' + WindowOf[f.state]
    PROVE  AsExpected(f)'
<1>1. f.state # "created"
  BY DEF VaultState
<1>2. InHand(v, f)'
  BY <1>1 DEF InHand, IdentityKept
<1>3. QED
  BY <1>1, <1>2 DEF AsExpected

\* A call that moves the vault on.
LEMMA MoveAsExpected ==
    ASSUME ScriptInv, NEW e \in Expectation, NEW f \in Expectation, AsExpected(e),
           NEW d \in Deed, Moves(d.op, e.state, e.window, f.state), Call(d), mine' = mine,
           f = On(f.state, e.balance, e.funded, "open", e.spent, e.made)
    PROVE  AsExpected(f)'
<1>1. e.state \in VaultState /\ f.state \in VaultState
  BY DEF Moves, VaultState
<1> PICK v \in VaultId : v = e.made
  BY <1>1, HandFacts
<1>2. /\ mine = v /\ InHand(v, e) /\ TypeOK /\ vaults[v].state = e.state
      /\ ScriptOwner \in Account /\ ScriptGuardian \in Account /\ EnclaveOracle \in Account
      /\ now \in Nat /\ TRUE \in BOOLEAN
  BY <1>1, HandFacts
<1>3. vaults[v].timing = DemoTimings /\ DemoTimings \in TimingType
  BY <1>2, ScriptNumbers DEF InHand
<1>4. \/ d.op = "checkIn" /\ CheckIn(ScriptOwner, v)
      \/ d.op = "markWarning" /\ MarkWarning(v)
      \/ d.op = "requestAttestation" /\ RequestAttestation(v)
      \/ d.op = "submitQuorumResult" /\ SubmitQuorumResult(EnclaveOracle, v, TRUE)
      \/ d.op = "guardianHalt" /\ GuardianHalt(ScriptGuardian, v)
      \/ d.op = "ownerOverride" /\ OwnerOverride(ScriptOwner, v)
  BY <1>2 DEF Moves, Call
<1>5. /\ IdentityKept(v) /\ vaults'[v].balance = vaults[v].balance
      /\ UNCHANGED <<nextVaultId, token, now, ledger>>
  BY <1>2, <1>4, MoveEffect
<1>6. /\ vaults'[v].state = f.state
      /\ f.state \in Windowed => vaults'[v].windowDeadline <= now + WindowOf[f.state]
  <2>1. CASE d.op \in {"checkIn", "guardianHalt", "ownerOverride"}
    <3>1. vaults' = Restarted(v) /\ f.state = "ACTIVE"
      BY <1>4, <2>1 DEF CheckIn, GuardianHalt, OwnerOverride, Moves
    <3>2. /\ vaults'[v].state = "ACTIVE"
          /\ vaults'[v].windowDeadline = now + DemoTimings.checkInInterval
      BY <1>2, <1>3, <3>1, RestartEffect
    <3>3. QED
      BY <1>2, <1>3, <3>1, <3>2 DEF WindowOf, TimingType
  <2>2. CASE d.op = "markWarning"
    <3>1. /\ vaults' = Entered(v, "WARNING", now + DemoTimings.graceWindow)
          /\ f.state = "WARNING" /\ now + DemoTimings.graceWindow \in Nat
      BY <1>2, <1>3, <1>4, <2>2 DEF MarkWarning, Moves, TimingType
    <3>2. /\ vaults'[v].state = "WARNING"
          /\ vaults'[v].windowDeadline = now + DemoTimings.graceWindow
      BY <1>1, <1>2, <3>1, EnterEffect
    <3>3. QED
      BY <3>1, <3>2 DEF WindowOf
  <2>3. CASE d.op = "submitQuorumResult"
    <3>1. /\ vaults' = Entered(v, "DISPUTE_WINDOW", now + DemoTimings.disputeWindow)
          /\ f.state = "DISPUTE_WINDOW" /\ now + DemoTimings.disputeWindow \in Nat
      BY <1>2, <1>3, <1>4, <2>3 DEF SubmitQuorumResult, Moves, TimingType
    <3>2. /\ vaults'[v].state = "DISPUTE_WINDOW"
          /\ vaults'[v].windowDeadline = now + DemoTimings.disputeWindow
      BY <1>1, <1>2, <3>1, EnterEffect
    <3>3. QED
      BY <3>1, <3>2 DEF WindowOf
  <2>4. CASE d.op = "requestAttestation"
    <3>1. /\ vaults' = Entered(v, "QUORUM_PENDING", vaults[v].windowDeadline)
          /\ f.state = "QUORUM_PENDING"
      BY <1>4, <2>4 DEF RequestAttestation, Moves
    <3>2. vaults[v].windowDeadline \in Nat
      BY <1>2, TimingNat
    <3>3. vaults'[v].state = "QUORUM_PENDING"
      BY <1>1, <1>2, <3>1, <3>2, EnterEffect
    <3>4. QED
      BY <3>1, <3>3 DEF Windowed
  <2>5. QED
    BY <2>1, <2>2, <2>3, <2>4 DEF Moves
<1>7. /\ f.made = v /\ f.spent = e.spent /\ f.balance = e.balance /\ f.funded = e.funded
      /\ f.window = "open"
  BY DEF On
<1>8. /\ vaults[v].balance = e.balance /\ ledger[v].deposited = e.funded
      /\ nextVaultId = e.made + 1
      /\ token[Fxrp][ScriptOwner] + e.spent >= InitialTokens
  BY <1>2 DEF InHand, AsExpected
<1>9. /\ token'[Fxrp][ScriptOwner] + f.spent >= InitialTokens
      /\ vaults'[v].balance = f.balance /\ ledger'[v].deposited = f.funded
      /\ nextVaultId' = nextVaultId /\ now' = now /\ mine' = v
  BY <1>2, <1>5, <1>7, <1>8
<1>10. QED
  BY <1>1, <1>2, <1>5, <1>6, <1>7, <1>8, <1>9, HandedOn

\* A deposit, which the script can pay.
LEMMA FundAsExpected ==
    ASSUME ScriptInv, NEW e \in Expectation, NEW f \in Expectation, AsExpected(e),
           NEW d \in Deed, d.op = "fundVault", Call(d), mine' = mine, e.state = "ACTIVE",
           f = On("ACTIVE", e.balance + d.n, e.funded + d.n, e.window, e.spent + d.n, e.made)
    PROVE  AsExpected(f)'
<1>1. e.state \in VaultState /\ f.state = "ACTIVE" /\ f.state \in VaultState
  BY DEF On, VaultState
<1> PICK v \in VaultId : v = e.made
  BY <1>1, HandFacts
<1>2. /\ mine = v /\ InHand(v, e) /\ TypeOK /\ IdentityOf(v) /\ vaults[v].state = "ACTIVE"
      /\ ScriptOwner \in Account /\ Fxrp \in Asset
  BY <1>1, HandFacts
<1>3. d.n \in Amount /\ d.n \in Nat /\ FundVault(ScriptOwner, v, d.n)
  BY <1>2, RegistryAssumption DEF Call, Deed
<1>4. /\ IdentityKept(v) /\ ClockKept(v)
      /\ vaults'[v].state = vaults[v].state
      /\ vaults'[v].balance = vaults[v].balance + d.n
      /\ ledger'[v].deposited = ledger[v].deposited + d.n
  BY <1>2, <1>3, FundEffect
<1>5. nextVaultId' = nextVaultId /\ now' = now
  BY <1>3 DEF FundVault
<1>6. token'[Fxrp][ScriptOwner] + d.n >= token[Fxrp][ScriptOwner]
  <2>1. /\ ScriptOwner \in Holder /\ Registry \in Holder /\ ScriptOwner # Registry
        /\ token[Fxrp][ScriptOwner] \in Nat
    BY <1>2, RegistryAssumption DEF Holder, TypeOK
  <2>2. Transfer(Fxrp, ScriptOwner, Registry, d.n)
    BY <1>2, <1>3 DEF FundVault, InHand
  <2>3. \/ UNCHANGED token
        \/ token'[Fxrp][ScriptOwner] = token[Fxrp][ScriptOwner] - d.n
    BY <1>2, <1>3, <2>1, <2>2, TransferEffect
  <2>4. QED
    BY <1>3, <2>1, <2>3
<1>7. /\ f.made = v /\ f.spent = e.spent + d.n /\ f.balance = e.balance + d.n
      /\ f.funded = e.funded + d.n /\ f.window = e.window /\ e.spent \in Nat
  BY DEF On, Expectation
<1>8. /\ vaults[v].balance = e.balance /\ ledger[v].deposited = e.funded
      /\ nextVaultId = e.made + 1 /\ e.state = "ACTIVE"
      /\ e.window = "over" => now > vaults[v].windowDeadline
      /\ vaults[v].windowDeadline <= now + WindowOf["ACTIVE"]
  BY <1>2 DEF InHand, AsExpected, Windowed
<1>9. token'[Fxrp][ScriptOwner] + f.spent >= InitialTokens
  <2>1. token[Fxrp][ScriptOwner] + e.spent >= InitialTokens
    BY DEF AsExpected
  <2>2. /\ token[Fxrp][ScriptOwner] \in Nat /\ InitialTokens \in Nat
        /\ token'[Fxrp][ScriptOwner] \in Nat
    <3>1. token' \in [Asset -> [Holder -> Nat]]
      BY <1>2, <1>3, FundEffect
    <3>2. QED
      BY <1>2, <3>1, RegistryAssumption DEF Holder, TypeOK
  <2>3. QED
    BY <1>3, <1>6, <1>7, <2>1, <2>2
<1>10. /\ vaults'[v].balance = f.balance /\ ledger'[v].deposited = f.funded
       /\ vaults'[v].state = f.state /\ mine' = v
       /\ f.window = "over" => now' > vaults'[v].windowDeadline
       /\ f.state \in Windowed => vaults'[v].windowDeadline <= now' + WindowOf[f.state]
  BY <1>1, <1>2, <1>4, <1>5, <1>7, <1>8 DEF ClockKept
<1>11. QED
  BY <1>1, <1>2, <1>4, <1>5, <1>7, <1>8, <1>9, <1>10, HandedOn

\* The two calls that release.
LEMMA ReleaseAsExpected ==
    ASSUME ScriptInv, NEW e \in Expectation, NEW f \in Expectation, AsExpected(e),
           NEW d \in Deed, Call(d), mine' = mine,
           \/ /\ d.op = "finalizeDisputeWindow" /\ e.state = "DISPUTE_WINDOW"
              /\ f = On("FINAL_WINDOW", e.balance - e.balance \div 2, e.funded, "open",
                        e.spent, e.made)
           \/ /\ d.op = "finalizeFinalWindow" /\ e.state = "FINAL_WINDOW"
              /\ f = On("FULLY_RELEASED", 0, e.funded, "open", e.spent, e.made)
    PROVE  AsExpected(f)'
<1>1. e.state \in VaultState /\ f.state \in VaultState
  BY DEF On, VaultState
<1> PICK v \in VaultId : v = e.made
  BY <1>1, HandFacts
<1>2. /\ mine = v /\ InHand(v, e) /\ TypeOK /\ now \in Nat
      /\ vaults[v].balance = e.balance /\ ledger[v].deposited = e.funded
      /\ vaults[v].timing = DemoTimings
      /\ nextVaultId = e.made + 1
      /\ token[Fxrp][ScriptOwner] + e.spent >= InitialTokens
  BY <1>1, HandFacts DEF InHand, AsExpected
<1>3. /\ f.made = v /\ f.spent = e.spent /\ f.funded = e.funded /\ f.window = "open"
  BY DEF On
<1>4. DemoTimings.finalWindow \in Nat
  BY ScriptNumbers DEF TimingType
<1>5. /\ IdentityKept(v) /\ ledger'[v].deposited = ledger[v].deposited
      /\ UNCHANGED <<nextVaultId, now, token>>
      /\ vaults'[v].state = f.state /\ vaults'[v].balance = f.balance
      /\ f.state \in Windowed => vaults'[v].windowDeadline <= now + WindowOf[f.state]
  <2>1. CASE d.op = "finalizeDisputeWindow"
    <3>1. FinalizeDisputeWindow(v)
      BY <1>2, <2>1 DEF Call
    <3>2. /\ IdentityKept(v) /\ ledger'[v].deposited = ledger[v].deposited
          /\ vaults'[v].windowDeadline = now + DemoTimings.finalWindow
          /\ vaults'[v].state = "FINAL_WINDOW"
          /\ vaults'[v].balance = e.balance - e.balance \div 2
      BY <1>2, <3>1, FinalizeDisputeEffect
    <3>3. /\ f.state = "FINAL_WINDOW" /\ f.balance = e.balance - e.balance \div 2
          /\ WindowOf[f.state] = DemoTimings.finalWindow
      BY <2>1 DEF On, WindowOf
    <3>4. UNCHANGED <<nextVaultId, now, token>>
      BY <3>1 DEF FinalizeDisputeWindow
    <3>5. QED
      BY <1>2, <1>4, <3>2, <3>3, <3>4
  <2>2. CASE d.op = "finalizeFinalWindow"
    <3>1. FinalizeFinalWindow(v)
      BY <1>2, <2>2 DEF Call
    <3>2. /\ IdentityKept(v) /\ ledger'[v].deposited = ledger[v].deposited
          /\ vaults'[v].state = "FULLY_RELEASED" /\ vaults'[v].balance = 0
      BY <1>2, <3>1, FinalizeFinalEffect
    <3>3. /\ f.state = "FULLY_RELEASED" /\ f.balance = 0 /\ f.state \notin Windowed
      BY <2>2 DEF On, Windowed
    <3>4. UNCHANGED <<nextVaultId, now, token>>
      BY <3>1 DEF FinalizeFinalWindow
    <3>5. QED
      BY <3>2, <3>3, <3>4
  <2>3. QED
    BY <2>1, <2>2
<1>6. /\ token'[Fxrp][ScriptOwner] + f.spent >= InitialTokens
      /\ ledger'[v].deposited = f.funded /\ mine' = v
      /\ f.state \in Windowed => vaults'[v].windowDeadline <= now' + WindowOf[f.state]
  BY <1>2, <1>3, <1>5
<1>7. QED
  BY <1>1, <1>2, <1>3, <1>5, <1>6, HandedOn

\* A cancellation, which gives back.
LEMMA CancelAsExpected ==
    ASSUME ScriptInv, NEW e \in Expectation, NEW f \in Expectation, AsExpected(e),
           NEW d \in Deed, d.op = "cancelVault", Call(d), mine' = mine, e.state = "ACTIVE",
           f = On("CLOSED", 0, e.funded, "open", e.spent, e.made)
    PROVE  AsExpected(f)'
<1>1. e.state \in VaultState /\ f.state = "CLOSED" /\ f.state \in VaultState
      /\ f.state \notin Windowed
  BY DEF On, VaultState, Windowed
<1> PICK v \in VaultId : v = e.made
  BY <1>1, HandFacts
<1>2. /\ mine = v /\ InHand(v, e) /\ TypeOK /\ IdentityOf(v)
      /\ ScriptOwner \in Account /\ Fxrp \in Asset
      /\ ledger[v].deposited = e.funded /\ vaults[v].fundingAsset = Fxrp
      /\ nextVaultId = e.made + 1 /\ vaults[v].balance \in Nat
      /\ token[Fxrp][ScriptOwner] + e.spent >= InitialTokens
  BY <1>1, HandFacts, TimingNat DEF InHand, AsExpected
<1>3. CancelVault(ScriptOwner, v)
  BY <1>2 DEF Call
<1>4. /\ IdentityKept(v) /\ vaults'[v].state = "CLOSED" /\ vaults'[v].balance = 0
      /\ ledger'[v].deposited = ledger[v].deposited
      /\ token' \in [Asset -> [Holder -> Nat]]
  BY <1>2, <1>3, CancelEffect
<1>5. nextVaultId' = nextVaultId /\ now' = now
  BY <1>3 DEF CancelVault
<1>6. /\ ScriptOwner \in Holder /\ Registry \in Holder /\ ScriptOwner # Registry
      /\ token[Fxrp][ScriptOwner] \in Nat /\ token'[Fxrp][ScriptOwner] \in Nat
  BY <1>2, <1>4, RegistryAssumption DEF Holder, TypeOK
<1>7. token'[Fxrp][ScriptOwner] >= token[Fxrp][ScriptOwner]
  <2>1. \/ UNCHANGED token
        \/ Transfer(Fxrp, Registry, ScriptOwner, vaults[v].balance)
    BY <1>2, <1>3 DEF CancelVault
  <2>2. \/ UNCHANGED token
        \/ token'[Fxrp][ScriptOwner] = token[Fxrp][ScriptOwner] + vaults[v].balance
    BY <1>2, <1>6, <2>1, TransferEffect
  <2>3. QED
    BY <1>2, <1>6, <2>2
<1>8. /\ f.made = v /\ f.spent = e.spent /\ f.funded = e.funded /\ f.window = "open"
      /\ f.balance = 0 /\ e.spent \in Nat
  BY DEF On, Expectation
<1>9. token'[Fxrp][ScriptOwner] + f.spent >= InitialTokens
  BY <1>2, <1>6, <1>7, <1>8, RegistryAssumption
<1>10. ledger'[v].deposited = f.funded /\ mine' = v
  BY <1>2, <1>4, <1>8
<1>11. QED
  BY <1>1, <1>2, <1>4, <1>5, <1>8, <1>9, <1>10, HandedOn

\* A new vault of the script's, at an id that nothing was ever put into.
LEMMA CreateAsExpected ==
    ASSUME ScriptInv, Accounts, NEW e \in Expectation, NEW f \in Expectation, AsExpected(e),
           NEW d \in Deed, d.op = "createVault", Call(d),
           f = On("created", 0, 0, "open", e.spent, e.made + 1)
    PROVE  AsExpected(f)'
<1>1. PICK plan \in PlanHash :
         CreateVault(ScriptOwner, plan, Fxrp, DemoTimings, ScriptGuardian)
  BY DEF Call
<1>2. /\ ScriptOwner \in Account /\ Fxrp \in Asset /\ DemoTimings \in Timing
      /\ ScriptGuardian \in GuardianKey /\ TypeOK /\ now \in Nat
      /\ DemoTimings.checkInInterval \in Nat /\ nextVaultId \in Nat
  BY ScriptAssumption, RouterAssumption, RegistryAssumption, ScriptNumbers
  DEF ScriptInv, RouterInv, IInv, TypeOK, TimingType
<1> PICK v \in VaultId : v = nextVaultId
  BY <1>1, <1>2, CreateEffect
<1>3. /\ vaults'[v].owner = ScriptOwner /\ vaults'[v].fundingAsset = Fxrp
      /\ vaults'[v].timing = DemoTimings /\ vaults'[v].guardianHaltKey = ScriptGuardian
      /\ vaults'[v].state = "ACTIVE"
      /\ vaults'[v].windowDeadline = now + DemoTimings.checkInInterval
      /\ vaults'[v].balance = vaults[v].balance
  BY <1>1, <1>2, CreateEffect
<1>4. vaults[v].balance = 0 /\ ledger[v].deposited = 0
  <2>1. ~(v < nextVaultId)
    BY <1>2
  <2>2. IdentityOf(v)
    BY DEF ScriptInv, RouterInv, IInv, Sound
  <2>3. QED
    BY <2>1, <2>2 DEF IdentityOf, Accounts
<1>5. nextVaultId' = nextVaultId + 1 /\ UNCHANGED <<token, now, ledger>>
  BY <1>1 DEF CreateVault
<1>6. /\ nextVaultId = e.made + 1 /\ e.made \in Nat
      /\ token[Fxrp][ScriptOwner] + e.spent >= InitialTokens
  BY DEF AsExpected, Expectation
<1>7. /\ f.state = "created" /\ f.balance = 0 /\ f.funded = 0 /\ f.window = "open"
      /\ f.spent = e.spent /\ f.made = v
  BY <1>6 DEF On
<1>8. WindowOf[f.state] = DemoTimings.checkInInterval
  BY <1>7 DEF WindowOf
<1>9. InHand(v, f)'
  BY <1>2, <1>3, <1>4, <1>5, <1>7, <1>8 DEF InHand
<1>10. QED
  BY <1>5, <1>6, <1>7, <1>9 DEF AsExpected

\* What the theorem assumes: seven units and four ids are what the four scenarios
\* together spend and create, and four units the largest deposit.
Provided == InitialTokens >= 7 /\ MaxVaultId >= 4 /\ MaxDeposit >= 4

\* Gas estimation lets the script's calls pass.
LEMMA CallIsServed ==
    ASSUME Provided, ScriptInv, NEW e \in Expectation, NEW f \in Expectation, AsExpected(e),
           NEW d \in Deed, IsCall(d), Leads(e, d, f)
    PROVE  WouldSucceed(d)
<1>1. CASE d.op = "createVault"
  <2>1. e.made + 1 <= 4 /\ e.made \in Nat
    BY <1>1 DEF Leads, LooksOn, ActsOn, Moves, Expectation
  <2>2. nextVaultId <= MaxVaultId
    BY <2>1, RegistryAssumption DEF AsExpected, Provided
  <2>3. QED
    BY <1>1, <2>2 DEF WouldSucceed
<1>2. CASE d.op # "createVault"
  <2>1. ActsOn(e, d, f)
    BY <1>2 DEF Leads, LooksOn, IsCall
  <2>2. e.state \in VaultState
    BY <2>1 DEF ActsOn, Moves, VaultState
  <2>3. /\ mine = e.made /\ mine \in VaultId /\ InHand(mine, e) /\ TypeOK
        /\ vaults[mine].state = e.state
        /\ now \in Nat /\ vaults[mine].windowDeadline \in Nat /\ Fxrp \in Asset
        /\ ScriptOwner \in Account
    BY <2>2, HandFacts
  <2>4. /\ vaults[mine].owner = ScriptOwner /\ vaults[mine].guardianHaltKey = ScriptGuardian
        /\ vaults[mine].fundingAsset = Fxrp
        /\ ledger[mine].deposited = e.funded
        /\ e.window = "over" => now > vaults[mine].windowDeadline
    BY <2>3 DEF InHand
  <2>5. CASE d.op = "fundVault"
    <3>1. /\ e.state = "ACTIVE" /\ e.spent + d.n <= 7 /\ e.funded + d.n <= 4
          /\ d.n \in Nat /\ d.n > 0 /\ e.spent \in Nat /\ e.funded \in Nat
      BY <2>1, <2>5, RegistryAssumption DEF ActsOn, Moves, Deed, Expectation
    <3>2. token[Fxrp][ScriptOwner] \in Nat
      BY <2>3 DEF TypeOK, Holder
    <3>3. token[Fxrp][ScriptOwner] >= d.n
      BY <3>1, <3>2, RegistryAssumption DEF AsExpected, Provided
    <3>4. ledger[mine].deposited + d.n <= MaxDeposit
      BY <2>4, <3>1, RegistryAssumption DEF Provided
    <3>5. CanPay(vaults[mine].fundingAsset, ScriptOwner, d.n)
      BY <2>4, <3>3 DEF CanPay
    <3>6. QED
      BY <2>3, <2>4, <2>5, <3>1, <3>4, <3>5 DEF WouldSucceed
  <2>6. CASE d.op = "cancelVault"
    <3>1. e.state = "ACTIVE"
      BY <2>1, <2>6 DEF ActsOn, Moves
    <3>2. CanPay(vaults[mine].fundingAsset, Registry, vaults[mine].balance)
      <4>1. Solvency
        BY ExplainedIsSolvent DEF ScriptInv
      <4>2. CASE Fxrp \in LenientAsset
        BY <2>4, <4>2 DEF CanPay
      <4>3. CASE Fxrp \notin LenientAsset
        BY <2>3, <2>4, <4>1, <4>3, CanRefund DEF CanPay
      <4>4. QED
        BY <4>2, <4>3
    <3>3. QED
      BY <2>3, <2>4, <2>6, <3>1, <3>2 DEF WouldSucceed
  <2>7. CASE d.op \in {"finalizeDisputeWindow", "finalizeFinalWindow"}
    <3>1. /\ now > vaults[mine].windowDeadline
          /\ d.op = "finalizeDisputeWindow" => e.state = "DISPUTE_WINDOW"
          /\ d.op = "finalizeFinalWindow" => e.state = "FINAL_WINDOW"
      BY <2>1, <2>4, <2>7 DEF ActsOn, Moves
    <3>2. now >= vaults[mine].windowDeadline
      BY <2>3, <3>1
    <3>3. QED
      BY <2>3, <2>7, <3>1, <3>2 DEF WouldSucceed
  <2>8. CASE Moves(d.op, e.state, e.window, f.state)
    <3>1. now > vaults[mine].windowDeadline => now >= vaults[mine].windowDeadline
      BY <2>3
    <3>2. QED
      BY <2>3, <2>4, <2>8, <3>1 DEF WouldSucceed, Moves
  <2>9. QED
    BY <2>1, <2>5, <2>6, <2>7, <2>8 DEF ActsOn
<1>3. QED
  BY <1>1, <1>2

\* And the call does what is known of it.
LEMMA CallAsExpected ==
    ASSUME ScriptInv, Accounts, NEW e \in Expectation, NEW f \in Expectation, AsExpected(e),
           NEW d \in Deed, IsCall(d), Leads(e, d, f), Call(d), mine' = mine
    PROVE  AsExpected(f)'
<1>1. \/ /\ d.op = "createVault"
         /\ f = On("created", 0, 0, "open", e.spent, e.made + 1)
      \/ ActsOn(e, d, f)
  BY DEF Leads, LooksOn, IsCall
<1>2. QED
  BY <1>1, CreateAsExpected, FundAsExpected, MoveAsExpected, ReleaseAsExpected,
     CancelAsExpected DEF ActsOn

\* The id that is read back is the new vault's.
LEMMA ReadAsExpected ==
    ASSUME ScriptInv, NEW e \in Expectation, NEW f, AsExpected(e),
           UNCHANGED vars, mine' = nextVaultId - 1, e.state = "created",
           f = On("ACTIVE", e.balance, e.funded, e.window, e.spent, e.made)
    PROVE  AsExpected(f)'
<1>1. /\ InHand(e.made, e) /\ nextVaultId = e.made + 1 /\ e.made \in Nat
      /\ token[Fxrp][ScriptOwner] + e.spent >= InitialTokens
  BY DEF AsExpected, Expectation
<1>2. mine' = e.made
  BY <1>1
<1>3. /\ f.state = "ACTIVE" /\ f.balance = e.balance /\ f.funded = e.funded
      /\ f.window = e.window /\ f.spent = e.spent /\ f.made = e.made
      /\ WindowOf["ACTIVE"] = WindowOf["created"]
      /\ "created" \in Windowed
  BY DEF On, WindowOf, Windowed
<1>4. InHand(f.made, f)'
  BY <1>1, <1>3 DEF InHand, vars
<1>5. QED
  BY <1>1, <1>2, <1>3, <1>4 DEF AsExpected, vars

\* Time passes, by itself or because the script lets it.
LEMMA TimeAsExpected ==
    ASSUME ScriptInv, NEW e \in Expectation, NEW f \in Expectation, AsExpected(e),
           NEW n \in Nat, now' = now + n, mine' = mine, UNCHANGED <<registryVars, token, ledger>>,
           f = On(e.state, e.balance, e.funded, f.window, e.spent, e.made),
           f.window = "over" =>
              e.window = "over" \/ (e.state \in Windowed /\ n > WindowOf[e.state])
    PROVE  AsExpected(f)'
<1>1. /\ f.state = e.state /\ f.balance = e.balance /\ f.funded = e.funded
      /\ f.spent = e.spent /\ f.made = e.made
  BY DEF On
<1>2. ASSUME e.state # "none" PROVE InHand(f.made, f)'
  <2>1. InHand(e.made, e)
    BY <1>2 DEF AsExpected
  <2>2. /\ now \in Nat /\ vaults[e.made].windowDeadline \in Nat
    BY <2>1, TimingNat DEF InHand, ScriptInv, RouterInv, IInv, TypeOK
  <2>3. e.state \in Windowed => WindowOf[e.state] \in Nat
    BY ScriptNumbers DEF WindowOf, Windowed, TimingType
  <2>4. f.window = "over" => now' > vaults[e.made].windowDeadline
    BY <2>1, <2>2, <2>3 DEF InHand
  <2>5. e.state \in Windowed => vaults[e.made].windowDeadline <= now' + WindowOf[e.state]
    BY <2>1, <2>2, <2>3 DEF InHand
  <2>6. vaults' = vaults
    BY DEF registryVars
  <2>7. QED
    BY <1>1, <2>1, <2>4, <2>5, <2>6 DEF InHand
<1>3. QED
  BY <1>1, <1>2 DEF AsExpected, registryVars

\* An assertion finds what is known.
LEMMA AssertsAsExpected ==
    ASSUME ScriptInv, NEW e \in Expectation, NEW f \in Expectation, AsExpected(e),
           NEW d, d.op \in {"assertState", "assertBalance"}, Leads(e, d, f)
    PROVE  /\ d.op = "assertState" => vaults[mine].state = STATE_NAMES[d.n + 1]
           /\ d.op = "assertBalance" => vaults[mine].balance = d.n
           /\ UNCHANGED <<vars, mine>> => AsExpected(f)'
<1>1. /\ e.state \in VaultState /\ (f = e \/ f = Between(e.spent, e.made))
      /\ d.op = "assertState" => e.state = STATE_NAMES[d.n + 1]
      /\ d.op = "assertBalance" => d.n = e.balance
  BY DEF Leads, LooksOn, ActsOn, Moves
<1>2. vaults[mine].state = e.state /\ vaults[mine].balance = e.balance
  BY <1>1, HandFacts DEF InHand
<1>3. ASSUME UNCHANGED <<vars, mine>> PROVE AsExpected(f)'
  <2>1. CASE f = e
    BY <1>3, <2>1 DEF AsExpected, InHand, vars
  <2>2. CASE f = Between(e.spent, e.made)
    BY <1>3, <2>2 DEF AsExpected, Between, On, vars
  <2>3. QED
    BY <1>1, <2>1, <2>2
<1>4. QED
  BY <1>1, <1>2, <1>3

\* A step of the script finds what is known before it, and leaves what is known after
\* it, or stops at the text of a balance.
LEMMA StepAsExpected ==
    ASSUME Provided, ScriptInv, Accounts, NEW e \in Expectation, NEW f \in Expectation,
           AsExpected(e), NEW d \in Deed, d = Step, Leads(e, d, f),
           outcome = "running", pc > 0, ScriptStep
    PROVE  \/ /\ outcome' # "failed"
              /\ (pc' = pc /\ AsExpected(e)') \/ (pc' = pc + 1 /\ AsExpected(f)')
           \/ /\ outcome' = "failed" /\ UNCHANGED <<vars, mine, pc, scenario, prints>>
              /\ ~prints /\ d.op = "assertBalance" /\ vaults[mine].balance = d.n
<1>1. ASSUME UNCHANGED <<vars, mine>> PROVE AsExpected(e)'
  BY <1>1 DEF AsExpected, InHand, vars
<1>2. sent => IsCall(d)
  BY DEF ScriptInv, ScriptTypeOK
<1>3. ASSUME WriteContract PROVE outcome' = outcome /\ pc' = pc /\ AsExpected(e)'
  <2>1. IsCall(d) /\ UNCHANGED <<vars, mine, pc>>
    BY <1>3 DEF WriteContract
  <2>2. WouldSucceed(d)
    BY <2>1, CallIsServed
  <2>3. outcome' = outcome
    BY <1>3, <2>2 DEF WriteContract
  <2>4. QED
    BY <1>1, <2>1, <2>3
<1>4. ASSUME Mined PROVE Continue /\ AsExpected(f)'
  <2>1. IsCall(d) /\ Continue /\ mine' = mine
    BY <1>2, <1>4 DEF Mined
  <2>2. WouldSucceed(d)
    BY <2>1, CallIsServed
  <2>3. Call(d)
    BY <1>4, <2>2 DEF Mined
  <2>4. QED
    BY <2>1, <2>3, CallAsExpected
<1>5. ASSUME ReadVaultId PROVE Continue /\ AsExpected(f)'
  <2>1. d.op = "readId" /\ mine' = nextVaultId - 1 /\ Continue /\ UNCHANGED vars
    BY <1>5 DEF ReadVaultId, At
  <2>2. /\ e.state = "created"
        /\ f = On("ACTIVE", e.balance, e.funded, e.window, e.spent, e.made)
    BY <2>1 DEF Leads, LooksOn, ActsOn, Moves
  <2>3. QED
    BY <2>1, <2>2, ReadAsExpected
<1>6. ASSUME TimeAdvanced PROVE Continue /\ AsExpected(f)'
  <2>1. /\ d.op = "advanceTime" /\ now' = now + d.n /\ Continue
        /\ mine' = mine /\ UNCHANGED <<registryVars, token, ledger>>
    BY <1>6 DEF TimeAdvanced, At
  <2>2. /\ f = On(e.state, e.balance, e.funded, f.window, e.spent, e.made)
        /\ f.window = "over" =>
              e.window = "over" \/ (e.state \in Windowed /\ d.n > WindowOf[e.state])
    BY <2>1 DEF Leads, LooksOn, ActsOn, Moves
  <2>3. d.n \in Nat
    BY DEF Deed
  <2>4. QED
    BY <2>1, <2>2, <2>3, TimeAsExpected
<1>7. ASSUME AssertState PROVE Continue /\ AsExpected(f)'
  <2>1. /\ d.op = "assertState" /\ UNCHANGED <<vars, mine>>
        /\ AssertEqual(vaults[mine].state = STATE_NAMES[d.n + 1])
    BY <1>7 DEF AssertState, At
  <2>2. vaults[mine].state = STATE_NAMES[d.n + 1] /\ AsExpected(f)'
    BY <2>1, AssertsAsExpected
  <2>3. QED
    BY <2>1, <2>2 DEF AssertEqual
<1> DEFINE Stopped == /\ outcome' = "failed" /\ UNCHANGED <<vars, mine, pc, scenario, prints>>
                      /\ ~prints /\ d.op = "assertBalance" /\ vaults[mine].balance = d.n
<1>8. ASSUME AssertBalance PROVE (Continue /\ AsExpected(f)') \/ Stopped
  <2>1. /\ d.op = "assertBalance" /\ UNCHANGED <<vars, mine, scenario, prints>>
        /\ AssertEqual(prints /\ vaults[mine].balance = d.n)
    BY <1>8 DEF AssertBalance, At
  <2>2. vaults[mine].balance = d.n /\ AsExpected(f)'
    BY <2>1, AssertsAsExpected
  <2>3. CASE prints
    BY <2>1, <2>2, <2>3 DEF AssertEqual
  <2>4. CASE ~prints
    BY <2>1, <2>2, <2>4 DEF AssertEqual
  <2>5. QED
    BY <2>3, <2>4
<1>9. ~SetUp
  <2>1. pc # 0
    OBVIOUS
  <2>2. QED
    BY <2>1, Zenon DEF SetUp
<1>10. Continue => outcome' # "failed" /\ pc' = pc + 1
  BY DEF Continue
<1>11. WriteContract \/ (Continue /\ AsExpected(f)') \/ Stopped
  <2> HIDE DEF Stopped
  <2>1. QED
    BY <1>4, <1>5, <1>6, <1>7, <1>8, <1>9, Zenon DEF ScriptStep
<1>12. CASE WriteContract
  BY <1>3, <1>12
<1>13. CASE Continue /\ AsExpected(f)'
  BY <1>10, <1>13
<1>14. CASE Stopped
  BY <1>14
<1>15. QED
  BY <1>11, <1>12, <1>13, <1>14

\* The run is where the annotation of its program has it.
Foreseen ==
    \E e : /\ Annotates(e, Program) /\ e[1] = Between(0, 0)
           /\ AsExpected(e[IF pc = 0 THEN 1 ELSE pc])

\* Until others take a step the run is where it should be, or it was stopped by the text
\* of a balance.
Undisturbed ==
    /\ others \in Nat
    /\ others = 0 /\ outcome # "failed" => Foreseen
    /\ others = 0 /\ outcome = "failed" => FailedOnText

\* The script starts with nothing in hand.
LEMMA UndisturbedInit == ScriptInit => Undisturbed
<1> SUFFICES ASSUME ScriptInit PROVE Undisturbed
  OBVIOUS
<1>1. /\ others = 0 /\ outcome = "running" /\ pc = 0 /\ nextVaultId = 1
  BY DEF ScriptInit, Init
<1>2. token[Fxrp][ScriptOwner] = InitialTokens /\ InitialTokens \in Nat
  BY ScriptAssumption, RegistryAssumption, RouterAssumption
  DEF ScriptInit, Init, RouterInit, Holder
<1>3. ASSUME NEW b, b = Between(0, 0) PROVE AsExpected(b)
  BY <1>1, <1>2, <1>3 DEF AsExpected, Between, On
<1>4. PICK e : Annotates(e, Program) /\ e[1] = Between(0, 0)
  BY ProgramAnnotated
<1>5. Foreseen
  BY <1>1, <1>3, <1>4 DEF Foreseen
<1>6. QED
  BY <1>1, <1>5 DEF Undisturbed

\* No step but one of the others' takes the run off its annotation.
LEMMA UndisturbedHolds ==
    ASSUME Provided, ScriptInv, Accounts, Undisturbed, [ScriptNext]_allVars
    PROVE  Undisturbed'
<1>1. CASE OtherStep
  <2>1. others' \in Nat /\ others' # 0
    BY <1>1 DEF OtherStep, Undisturbed
  <2>2. QED
    BY <2>1 DEF Undisturbed
<1>2. CASE ScriptStep \/ TimePasses \/ UNCHANGED allVars
  <2>1. UNCHANGED <<scenario, prints, others>>
    BY <1>2 DEF ScriptStep, SetUp, WriteContract, Mined, ReadVaultId, TimeAdvanced,
                AssertState, AssertBalance, TimePasses, allVars, scriptVars
  <2>2. Program' = Program
    BY <2>1, ProgramKept
  <2>2a. CASE outcome = "failed" /\ others = 0
    <3>1. ~ScriptStep
      BY <2>2a DEF ScriptStep, SetUp, WriteContract, Mined, ReadVaultId, TimeAdvanced,
                   AssertState, AssertBalance, At, ScriptInv, ScriptTypeOK
    <3>2. UNCHANGED <<pc, mine, outcome, vaults>>
      BY <1>2, <3>1 DEF TimePasses, Tick, allVars, vars, registryVars, scriptVars
    <3>3. Step' = Step
      BY <2>2, <3>2 DEF Step
    <3>4. FailedOnText'
      BY <2>1, <2>2a, <3>2, <3>3 DEF Undisturbed, FailedOnText
    <3>5. QED
      BY <2>1, <2>2a, <3>2, <3>4 DEF Undisturbed
  <2>3. SUFFICES ASSUME others = 0, outcome # "failed"
                 PROVE  \/ outcome' # "failed" /\ Foreseen'
                        \/ outcome' = "failed" /\ FailedOnText'
    BY <2>1, <2>2a DEF Undisturbed
  <2>4. Foreseen
    BY <2>3 DEF Undisturbed
  <2>5. PICK e : /\ Annotates(e, Program) /\ e[1] = Between(0, 0)
                 /\ AsExpected(e[IF pc = 0 THEN 1 ELSE pc])
    BY <2>4 DEF Foreseen
  <2>6. Annotates(e, Program)'
    BY <2>2, <2>5 DEF Annotates
  <2>7. CASE TimePasses \/ UNCHANGED allVars
    <3>1. UNCHANGED <<pc, mine, outcome, registryVars, token, ledger>>
      BY <2>7 DEF TimePasses, Tick, allVars, vars, registryVars, scriptVars
    <3>2. PICK n \in Nat : now' = now + n
      <4>1. now \in Nat
        BY TimingNat DEF ScriptInv, RouterInv, IInv, TypeOK
      <4>2. CASE TimePasses
        BY <4>2 DEF TimePasses, Tick
      <4>3. CASE UNCHANGED allVars
        BY <4>1, <4>3 DEF allVars, vars
      <4>4. QED
        BY <2>7, <4>2, <4>3
    <3>3. PICK b \in Expectation : b = e[IF pc = 0 THEN 1 ELSE pc]
      <4>1. /\ pc \in 0..(Len(Program) + 1) /\ Len(Program) \in Nat
            /\ \A i \in 1..(Len(Program) + 1) : e[i] \in Expectation
        BY <2>5, ProgramSteps DEF Annotates, ScriptInv, ScriptTypeOK
      <4>2. PICK i \in 1..(Len(Program) + 1) : i = IF pc = 0 THEN 1 ELSE pc
        BY <4>1
      <4>3. e[i] \in Expectation
        BY <4>1, <4>2
      <4>4. QED
        BY <4>2, <4>3
    <3>4. b = On(b.state, b.balance, b.funded, b.window, b.spent, b.made)
      BY OnIsExpectation DEF Expectation, On
    <3>5. AsExpected(b)'
      BY <2>5, <3>1, <3>2, <3>3, <3>4, TimeAsExpected
    <3>6. b = e[IF pc' = 0 THEN 1 ELSE pc']
      BY <3>1, <3>3
    <3>7. Foreseen'
      BY <2>2, <2>5, <2>6, <3>5, <3>6 DEF Foreseen
    <3>8. QED
      BY <2>3, <3>1, <3>7
  <2>8. CASE SetUp
    <3>1. UNCHANGED <<nextVaultId, vaults, token, now, ledger, mine>> /\ pc = 0 /\ pc' = 1
      BY <2>8 DEF SetUp, Continue, SetQuorumThreshold, vars, registryVars
    <3>2. PICK b : b = Between(0, 0)
      OBVIOUS
    <3>3. AsExpected(b)'
      BY <2>5, <3>1, <3>2 DEF AsExpected, InHand
    <3>4. e[IF pc' = 0 THEN 1 ELSE pc'] = b
      BY <2>5, <3>1, <3>2
    <3>5. Foreseen'
      BY <2>2, <2>5, <2>6, <3>3, <3>4 DEF Foreseen
    <3>6. outcome' # "failed"
      BY <2>8 DEF SetUp, Continue
    <3>7. QED
      BY <3>5, <3>6
  <2>9. CASE ScriptStep /\ ~SetUp
    <3>1. outcome = "running" /\ pc > 0 /\ pc \in Nat
      BY <2>9, Places DEF ScriptStep, WriteContract, Mined, ReadVaultId, TimeAdvanced,
         AssertState, AssertBalance, At, ScriptInv, ScriptTypeOK, Position
    <3>2. pc \in 1..Len(Program) /\ Step = Program[pc] /\ Step \in Deed
          /\ Len(Program) \in Nat
      BY <3>1, WhereItRuns
    <3>3. /\ e[pc] \in Expectation /\ e[pc + 1] \in Expectation
          /\ Leads(e[pc], Step, e[pc + 1])
      BY <2>5, <3>2 DEF Annotates
    <3>4. PICK b \in Expectation, f \in Expectation, d \in Deed :
             b = e[pc] /\ f = e[pc + 1] /\ d = Step
      BY <3>2, <3>3
    <3>5. AsExpected(b) /\ Leads(b, d, f)
      BY <2>5, <3>1, <3>3, <3>4
    <3>6. \/ /\ outcome' # "failed"
             /\ (pc' = pc /\ AsExpected(b)') \/ (pc' = pc + 1 /\ AsExpected(f)')
          \/ /\ outcome' = "failed" /\ UNCHANGED <<vars, mine, pc, scenario, prints>>
             /\ ~prints /\ d.op = "assertBalance" /\ vaults[mine].balance = d.n
      BY <2>9, <3>1, <3>4, <3>5, StepAsExpected
    <3>7. CASE outcome' # "failed"
      <4>1. PICK c : AsExpected(c)' /\ c = e[IF pc' = 0 THEN 1 ELSE pc']
        BY <3>1, <3>4, <3>6, <3>7
      <4>2. Foreseen'
        BY <2>2, <2>5, <2>6, <4>1 DEF Foreseen
      <4>3. QED
        BY <3>7, <4>2
    <3>8. CASE outcome' = "failed"
      <4>1. UNCHANGED <<vars, mine, pc>> /\ ~prints
            /\ Step.op = "assertBalance" /\ vaults[mine].balance = Step.n
        BY <3>4, <3>6, <3>8
      <4>2. Step' = Step /\ vaults' = vaults
        BY <2>2, <4>1 DEF Step, vars, registryVars
      <4>3. FailedOnText'
        BY <2>1, <3>1, <4>1, <4>2 DEF FailedOnText
      <4>4. QED
        BY <3>8, <4>3
    <3>9. QED
      BY <3>7, <3>8
  <2>10. QED
    BY <1>2, <2>7, <2>8, <2>9
<1>3. QED
  BY <1>1, <1>2 DEF ScriptNext

\* Where there are tokens, ids and deposits enough for the scenarios together, a run that
\* others have not disturbed is refused nothing: for any windows, however time passes by
\* itself, and for any argument of --scenario, every call passes gas estimation, every
\* state is the one asserted and every balance the amount asserted.  What may stop the run
\* is a balance whose text has no fraction, as viem prints it; no other assertion can.
THEOREM UndisturbedIsServed ==
    ASSUME InitialTokens >= 7, MaxVaultId >= 4, MaxDeposit >= 4
    PROVE  ScriptSpec => []UndisturbedFailsOnText
<1> DEFINE J == ScriptInv /\ Accounts /\ InPlace /\ Undisturbed
<1>1. Provided
  BY DEF Provided
<1>2. ScriptInit => J
  BY ScriptInitHolds, InPlaceInit, UndisturbedInit
<1>3. J /\ [ScriptNext]_allVars => J'
  BY <1>1, ScriptNextHolds, InPlaceHolds, UndisturbedHolds
<1>4. J => UndisturbedFailsOnText
  BY DEF Undisturbed, UndisturbedFailsOnText
<1>5. QED
  BY <1>2, <1>3, <1>4, PTL DEF ScriptSpec
=============================================================================
