------------------------- MODULE VaultRegistryProofs -------------------------
(***************************************************************************)
(* Theorems about VaultRegistry, for every number of vaults, accounts,     *)
(* assets, windows and amounts that satisfy RegistryAssumption, after the  *)
(* lemmas on the sums it is stated with.                                   *)
(***************************************************************************)
EXTENDS VaultRegistry, WellFoundedInduction, TLAPS

-----------------------------------------------------------------------------
(* How Total changes when one summand does.  The induction is by the least *)
(* counterexample, a set, because the provers have no induction rule over  *)
(* formulas.                                                               *)

Less == {p \in Nat \X Nat : p[1] < p[2]}

\* Every non-empty set of naturals has a least element.
LEMMA LeastNatural ==
    ASSUME NEW T \in SUBSET Nat, T # {}
    PROVE  \E m \in T : \A k \in T : m <= k
<1>1. OpToRel(<, Nat) = Less
  BY Zenon DEF OpToRel, Less
<1>2. PICK m \in T : \A k \in T : ~(<<k, m>> \in Less)
  BY <1>1, WFMin, NatLessThanWellFounded
<1>3. ASSUME NEW k \in T PROVE m <= k
  <2>1. <<k, m>> \in Nat \X Nat /\ <<k, m>>[1] = k /\ <<k, m>>[2] = m
    OBVIOUS
  <2>2. ~(k < m)
    BY <1>2, <2>1 DEF Less
  <2>3. QED
    BY <2>2
<1>4. QED
  BY <1>3

\* Induction up to n over a set: what holds of 0 and is passed on by every step
\* holds of all.
LEMMA UpToInduction ==
    ASSUME NEW n \in Nat, NEW Good,
           0 \in Good,
           ASSUME NEW m \in 1..n, m - 1 \in Good PROVE m \in Good
    PROVE  \A m \in 0..n : m \in Good
<1> DEFINE Bad == {m \in 0..n : m \notin Good}
<1>1. SUFFICES ASSUME Bad # {} PROVE FALSE
  OBVIOUS
<1>2. Bad \in SUBSET Nat
  OBVIOUS
<1>3. PICK m \in Bad : \A k \in Bad : m <= k
  <2> HIDE DEF Bad
  <2>1. QED
    BY <1>1, <1>2, LeastNatural
<1>4. m \in 1..n
  BY <1>3
<1>5. m - 1 \in Good
  BY <1>3, <1>4
<1>6. QED
  BY <1>3, <1>4, <1>5

\* The partial sums exist: the recursive definition defines something.
LEMMA PartialSumsExist ==
    ASSUME NEW n \in Nat, NEW f \in [1..n -> Int]
    PROVE  \E s : PartialSums(s, f, n)
<1> DEFINE Upto(s, m) == /\ s \in [0..n -> Int]
                         /\ s[0] = 0
                         /\ \A i \in 1..m : s[i] = s[i - 1] + f[i]
           Good == {m \in 0..n : \E s : Upto(s, m)}
<1>1. 0 \in Good
  <2>1. Upto([i \in 0..n |-> 0], 0)
    OBVIOUS
  <2> HIDE DEF Upto
  <2>2. QED
    BY <2>1
<1>2. ASSUME NEW m \in 1..n, m - 1 \in Good PROVE m \in Good
  <2>1. PICK s : Upto(s, m - 1)
    BY <1>2
  <2> DEFINE t == [s EXCEPT ![m] = s[m - 1] + f[m]]
  <2>2. t \in [0..n -> Int] /\ t[0] = 0
    BY <2>1
  <2>3. t[m] = t[m - 1] + f[m]
    BY <2>1
  <2>4. ASSUME NEW i \in 1..(m - 1) PROVE t[i] = t[i - 1] + f[i]
    BY <2>1
  <2>5. Upto(t, m)
    BY <2>2, <2>3, <2>4
  <2> HIDE DEF Upto
  <2>6. QED
    BY <2>5
<1>3. \A m \in 0..n : m \in Good
  <2> HIDE DEF Good
  <2>1. QED
    BY <1>1, <1>2, UpToInduction
<1>4. n \in Good
  BY <1>3
<1>5. QED
  BY <1>4 DEF PartialSums

\* There is only one list of partial sums.
LEMMA PartialSumsUnique ==
    ASSUME NEW n \in Nat, NEW f, NEW s, NEW t,
           PartialSums(s, f, n), PartialSums(t, f, n)
    PROVE  s = t
<1> DEFINE Good == {m \in 0..n : s[m] = t[m]}
<1>1. 0 \in Good
  BY DEF PartialSums
<1>2. ASSUME NEW m \in 1..n, m - 1 \in Good PROVE m \in Good
  BY <1>2 DEF PartialSums
<1>3. \A m \in 0..n : m \in Good
  <2> HIDE DEF Good
  <2>1. QED
    BY <1>1, <1>2, UpToInduction
<1>4. \A m \in 0..n : s[m] = t[m]
  BY <1>3
<1>5. QED
  BY <1>4 DEF PartialSums

\* Total is the last partial sum.
LEMMA TotalIsLast ==
    ASSUME NEW n \in Nat, NEW f \in [1..n -> Int]
    PROVE  \E s : PartialSums(s, f, n) /\ Total(f, n) = s[n]
<1> DEFINE Rec(s) == s = [i \in 0..n |-> IF i = 0 THEN 0 ELSE s[i - 1] + f[i]]
           sum == CHOOSE s : Rec(s)
           Good == {m \in 0..n : sum[m] \in Int}
<1>1. PICK s : PartialSums(s, f, n)
  BY PartialSumsExist
<1>2. Rec(s)
  BY <1>1 DEF PartialSums
<1>3. Rec(sum)
  <2> HIDE DEF Rec
  <2>1. QED
    BY <1>2
<1>4. Total(f, n) = sum[n]
  BY DEF Total
<1> HIDE DEF sum
<1>5. 0 \in Good
  BY <1>3
<1>6. ASSUME NEW m \in 1..n, m - 1 \in Good PROVE m \in Good
  <2>1. sum[m] = sum[m - 1] + f[m]
    BY <1>3
  <2>2. QED
    BY <1>6, <2>1
<1>7. \A m \in 0..n : m \in Good
  <2> HIDE DEF Good
  <2>1. QED
    BY <1>5, <1>6, UpToInduction
<1>8. sum \in [0..n -> Int]
  BY <1>3, <1>7
<1>9. PartialSums(sum, f, n)
  <2>1. sum[0] = 0
    BY <1>3
  <2>2. ASSUME NEW i \in 1..n PROVE sum[i] = sum[i - 1] + f[i]
    BY <1>3
  <2>3. QED
    BY <1>8, <2>1, <2>2 DEF PartialSums
<1>10. QED
  BY <1>4, <1>9

\* A total of naturals is a natural, at least as large as each summand.
LEMMA TotalNat ==
    ASSUME NEW n \in Nat, NEW f \in [1..n -> Nat]
    PROVE  Total(f, n) \in Nat /\ \A v \in 1..n : f[v] <= Total(f, n)
<1>1. PICK s : PartialSums(s, f, n) /\ Total(f, n) = s[n]
  <2>1. f \in [1..n -> Int]
    OBVIOUS
  <2>2. QED
    BY <2>1, TotalIsLast
<1> DEFINE Good == {m \in 0..n : s[m] \in Nat /\ \A v \in 1..m : f[v] <= s[m]}
<1>2. 0 \in Good
  BY <1>1 DEF PartialSums
<1>3. ASSUME NEW m \in 1..n, m - 1 \in Good PROVE m \in Good
  <2>1. s[m] = s[m - 1] + f[m] /\ s[m - 1] \in Nat /\ f[m] \in Nat
    BY <1>1, <1>3 DEF PartialSums
  <2>2. ASSUME NEW v \in 1..m PROVE f[v] <= s[m]
    <3>1. CASE v = m
      BY <3>1, <2>1
    <3>2. CASE v \in 1..(m - 1)
      BY <3>2, <2>1, <1>3
    <3>3. QED
      BY <3>1, <3>2
  <2>3. QED
    BY <2>1, <2>2
<1>4. \A m \in 0..n : m \in Good
  <2> HIDE DEF Good
  <2>1. QED
    BY <1>2, <1>3, UpToInduction
<1>5. n \in Good
  BY <1>4
<1>6. QED
  BY <1>1, <1>5

\* Changing one summand changes the total by the difference.
LEMMA TotalUpdate ==
    ASSUME NEW n \in Nat, NEW f \in [1..n -> Int], NEW v \in 1..n, NEW x \in Int
    PROVE  Total([f EXCEPT ![v] = x], n) = Total(f, n) - f[v] + x
<1> DEFINE g == [f EXCEPT ![v] = x]
<1>1. PICK s : PartialSums(s, f, n) /\ Total(f, n) = s[n]
  BY TotalIsLast
<1>2. g \in [1..n -> Int]
  OBVIOUS
<1>3. PICK t : PartialSums(t, g, n) /\ Total(g, n) = t[n]
  <2> HIDE DEF g
  <2>1. QED
    BY <1>2, TotalIsLast
<1> DEFINE u == [i \in 0..n |-> IF i >= v THEN s[i] - f[v] + x ELSE s[i]]
<1>4. PartialSums(u, g, n)
  <2>1. s \in [0..n -> Int] /\ s[0] = 0 /\ \A i \in 1..n : s[i] = s[i - 1] + f[i]
    BY <1>1 DEF PartialSums
  <2>2. u \in [0..n -> Int] /\ u[0] = 0
    <3>1. f[v] \in Int /\ 0 \in 0..n /\ ~(0 >= v)
      OBVIOUS
    <3>2. u[0] = 0
      BY <2>1, <3>1
    <3>3. ASSUME NEW i \in 0..n PROVE u[i] \in Int
      <4>1. s[i] \in Int
        BY <2>1
      <4>2. u[i] = IF i >= v THEN s[i] - f[v] + x ELSE s[i]
        OBVIOUS
      <4> HIDE DEF u
      <4>3. QED
        BY <3>1, <4>1, <4>2
    <3>4. QED
      BY <3>2, <3>3
  <2>3. ASSUME NEW i \in 1..n PROVE u[i] = u[i - 1] + g[i]
    <3>1. s[i] = s[i - 1] + f[i] /\ s[i] \in Int /\ s[i - 1] \in Int /\ f[v] \in Int
      BY <2>1
    <3>2. CASE i < v
      BY <3>1, <3>2
    <3>3. CASE i = v
      BY <3>1, <3>3
    <3>4. CASE i > v
      BY <3>1, <3>4
    <3>5. QED
      BY <3>2, <3>3, <3>4
  <2> HIDE DEF u, g
  <2>4. QED
    BY <2>2, <2>3 DEF PartialSums
<1>5. u = t
  <2> HIDE DEF u, g
  <2>1. QED
    BY <1>3, <1>4, PartialSumsUnique
<1>6. u[n] = s[n] - f[v] + x
  OBVIOUS
<1>7. QED
  BY <1>1, <1>3, <1>5, <1>6

\* The empty total.
LEMMA TotalZero ==
    ASSUME NEW n \in Nat
    PROVE  Total([v \in 1..n |-> 0], n) = 0
<1> DEFINE f == [v \in 1..n |-> 0]
           z == [i \in 0..n |-> 0]
<1>1. f \in [1..n -> Int]
  OBVIOUS
<1>2. PartialSums(z, f, n)
  BY DEF PartialSums
<1>3. z[n] = 0
  OBVIOUS
<1> HIDE DEF f, z
<1>4. PICK s : PartialSums(s, f, n) /\ Total(f, n) = s[n]
  BY <1>1, TotalIsLast
<1>5. s = z
  BY <1>2, <1>4, PartialSumsUnique
<1>6. Total(f, n) = 0
  BY <1>3, <1>4, <1>5
<1>7. QED
  BY <1>6 DEF f

-----------------------------------------------------------------------------
(* The inductive invariant: the type, and for every vault what its owner,  *)
(* its funds and its timers satisfy.                                       *)

IdentityOf(v) ==
    IF v < nextVaultId
    THEN vaults[v].owner \in Account /\ vaults[v].fundingAsset \in Asset
    ELSE /\ vaults[v].owner = NoAddress
         /\ vaults[v].fundingAsset = NoAddress
         /\ vaults[v].guardianHaltKey = NoAddress
         /\ vaults[v].balance = 0

FundsOf(v) ==
    /\ ledger[v].deposited =
           vaults[v].balance + ledger[v].released + ledger[v].refunded
    /\ vaults[v].state = "FINAL_WINDOW" => vaults[v].balance >= ledger[v].tranche1
    /\ vaults[v].state \in {"FULLY_RELEASED", "CLOSED"} => vaults[v].balance = 0

\* A deadline lies at least a window after the silence that led to its state.
TimersOf(v) ==
    LET last == vaults[v].lastCheckIn
        deadline == vaults[v].windowDeadline
    IN  /\ vaults[v].state = "ACTIVE" => deadline >= last + ToWarning(v)
        /\ vaults[v].state = "WARNING" =>
              now >= last + ToWarning(v) /\ deadline >= last + ToQuorum(v)
        /\ vaults[v].state = "QUORUM_PENDING" => now >= last + ToQuorum(v)
        /\ vaults[v].state = "DISPUTE_WINDOW" =>
              now >= last + ToQuorum(v) /\ deadline >= last + ToHalf(v)
        /\ vaults[v].state = "FINAL_WINDOW" =>
              now >= last + ToHalf(v) /\ deadline >= last + ToRelease(v)
        /\ vaults[v].state = "FULLY_RELEASED" => now >= last + ToRelease(v)

Sound(v) == IdentityOf(v) /\ FundsOf(v) /\ TimersOf(v)

IInv == TypeOK /\ \A v \in VaultId : Sound(v)

-----------------------------------------------------------------------------
\* The windows createVault accepts are natural numbers.
LEMMA TimingTyped == Timing \subseteq TimingType
BY RegistryAssumption DEF TimingType, Window

(***************************************************************************)
(* What each kind of step does to the vaults, field by field, so that the  *)
(* proofs below need not open the records again.                           *)
(***************************************************************************)

\* Every other vault keeps its storage.
OthersKept(v) == \A w \in VaultId \ {v} : vaults'[w] = vaults[w]

\* What creation fixes stays as it is.
IdentityKept(v) ==
    /\ vaults'[v].owner = vaults[v].owner
    /\ vaults'[v].planCommitmentHash = vaults[v].planCommitmentHash
    /\ vaults'[v].fundingAsset = vaults[v].fundingAsset
    /\ vaults'[v].timing = vaults[v].timing
    /\ vaults'[v].guardianHaltKey = vaults[v].guardianHaltKey

ClockKept(v) ==
    /\ vaults'[v].lastCheckIn = vaults[v].lastCheckIn
    /\ vaults'[v].windowDeadline = vaults[v].windowDeadline

\* The vault's timings are numbers.
LEMMA TimingNat ==
    ASSUME TypeOK, NEW v \in VaultId
    PROVE  /\ vaults[v].timing.checkInInterval \in Nat
           /\ vaults[v].timing.graceWindow \in Nat
           /\ vaults[v].timing.disputeWindow \in Nat
           /\ vaults[v].timing.finalWindow \in Nat
           /\ vaults[v].windowDeadline \in Nat
           /\ vaults[v].lastCheckIn \in Nat
           /\ vaults[v].balance \in Nat
           /\ vaults[v].state \in VaultState
           /\ now \in Nat
BY DEF TypeOK, Vault, TimingType

\* Entering a state moves one vault, sets its deadline and leaves its funds.
LEMMA EnterEffect ==
    ASSUME TypeOK, NEW v \in VaultId, NEW s \in VaultState, NEW d \in Nat,
           vaults' = Entered(v, s, d)
    PROVE  /\ vaults' \in [VaultId -> Vault]
           /\ OthersKept(v)
           /\ IdentityKept(v)
           /\ vaults'[v].state = s
           /\ vaults'[v].windowDeadline = d
           /\ vaults'[v].lastCheckIn = vaults[v].lastCheckIn
           /\ vaults'[v].balance = vaults[v].balance
<1> DEFINE r == [vaults[v] EXCEPT !.state = s, !.windowDeadline = d]
<1>1. vaults[v] \in Vault
  BY DEF TypeOK
<1>2. r \in Vault
  BY <1>1 DEF Vault
<1>3. vaults' = [vaults EXCEPT ![v] = r]
  BY DEF Entered
<1>4. vaults' \in [VaultId -> Vault] /\ OthersKept(v) /\ vaults'[v] = r
  <2> HIDE DEF r
  <2>1. QED
    BY <1>2, <1>3 DEF TypeOK, OthersKept
<1>5. QED
  BY <1>1, <1>4 DEF Vault, IdentityKept

\* A sign of life restarts the timer of one vault.
LEMMA RestartEffect ==
    ASSUME TypeOK, NEW v \in VaultId, vaults' = Restarted(v)
    PROVE  /\ vaults' \in [VaultId -> Vault]
           /\ OthersKept(v)
           /\ IdentityKept(v)
           /\ vaults'[v].state = "ACTIVE"
           /\ vaults'[v].windowDeadline = now + vaults[v].timing.checkInInterval
           /\ vaults'[v].lastCheckIn = now
           /\ vaults'[v].balance = vaults[v].balance
<1> DEFINE r == [vaults[v] EXCEPT !.state = "ACTIVE", !.lastCheckIn = now,
                     !.windowDeadline = now + vaults[v].timing.checkInInterval]
<1>1. vaults[v] \in Vault
  BY DEF TypeOK
<1>2. now \in Nat /\ now + vaults[v].timing.checkInInterval \in Nat
  BY TimingNat
<1>3. r \in Vault
  BY <1>1, <1>2 DEF Vault, VaultState
<1>4. vaults' = [vaults EXCEPT ![v] = r]
  BY DEF Restarted
<1>5. vaults' \in [VaultId -> Vault] /\ OthersKept(v) /\ vaults'[v] = r
  <2> HIDE DEF r
  <2>1. QED
    BY <1>3, <1>4 DEF TypeOK, OthersKept
<1>6. QED
  BY <1>1, <1>5 DEF Vault, IdentityKept

\* createVault writes the next id and no other.
LEMMA CreateEffect ==
    ASSUME TypeOK, NEW caller \in Account, NEW plan \in PlanHash, NEW asset \in Asset,
           NEW timing \in Timing, NEW guardian \in GuardianKey,
           CreateVault(caller, plan, asset, timing, guardian)
    PROVE  /\ nextVaultId \in VaultId
           /\ vaults' \in [VaultId -> Vault]
           /\ OthersKept(nextVaultId)
           /\ vaults'[nextVaultId].owner = caller
           /\ vaults'[nextVaultId].fundingAsset = asset
           /\ vaults'[nextVaultId].timing = timing
           /\ vaults'[nextVaultId].guardianHaltKey = guardian
           /\ vaults'[nextVaultId].state = "ACTIVE"
           /\ vaults'[nextVaultId].lastCheckIn = now
           /\ vaults'[nextVaultId].windowDeadline = now + timing.checkInInterval
           /\ vaults'[nextVaultId].balance = vaults[nextVaultId].balance
<1> DEFINE v == nextVaultId
           r == [vaults[v] EXCEPT !.owner = caller, !.planCommitmentHash = plan,
                     !.fundingAsset = asset, !.timing = timing,
                     !.guardianHaltKey = guardian, !.state = "ACTIVE",
                     !.lastCheckIn = now,
                     !.windowDeadline = now + timing.checkInInterval]
<1>1. v \in VaultId
  BY RegistryAssumption DEF CreateVault, TypeOK, VaultId
<1>2. vaults[v] \in Vault
  BY <1>1 DEF TypeOK
<1>3. now \in Nat /\ timing \in TimingType /\ now + timing.checkInInterval \in Nat
  BY TimingTyped DEF TypeOK, TimingType
<1>4. guardian \in Account
  BY RegistryAssumption
<1>5. r \in Vault
  BY <1>2, <1>3, <1>4 DEF Vault, VaultState
<1>6. vaults' = [vaults EXCEPT ![v] = r]
  BY DEF CreateVault
<1>7. vaults' \in [VaultId -> Vault] /\ OthersKept(v) /\ vaults'[v] = r
  <2> HIDE DEF r
  <2>1. QED
    BY <1>1, <1>5, <1>6 DEF TypeOK, OthersKept
<1>8. QED
  BY <1>1, <1>2, <1>7 DEF Vault

\* A step that replaces one vault by a record of the right type.
LEMMA ReplaceEffect ==
    ASSUME TypeOK, NEW v \in VaultId, NEW r \in Vault, vaults' = [vaults EXCEPT ![v] = r]
    PROVE  /\ vaults' \in [VaultId -> Vault]
           /\ OthersKept(v)
           /\ vaults'[v] = r
BY DEF TypeOK, OthersKept

\* A step that replaces one vault's totals.
LEMMA LedgerEffect ==
    ASSUME TypeOK, NEW v \in VaultId, NEW r \in Ledger, ledger' = [ledger EXCEPT ![v] = r]
    PROVE  /\ ledger' \in [VaultId -> Ledger]
           /\ \A w \in VaultId \ {v} : ledger'[w] = ledger[w]
           /\ ledger'[v] = r
BY DEF TypeOK

\* What a transfer between two different holders does to the balances.
LEMMA TransferEffect ==
    ASSUME TypeOK, NEW a \in Asset, NEW f \in Holder, NEW h \in Holder, NEW n \in Nat,
           f # h, Transfer(a, f, h, n)
    PROVE  /\ token' \in [Asset -> [Holder -> Nat]]
           /\ \/ a \in LenientAsset /\ UNCHANGED token
              \/ /\ token'[a][f] = token[a][f] - n
                 /\ token'[a][h] = token[a][h] + n
           /\ \A b \in Asset \ {a} : token'[b] = token[b]
           /\ \A g \in Holder \ {f, h} : token'[a][g] = token[a][g]
<1>1. CASE a \in LenientAsset /\ UNCHANGED token
  BY <1>1 DEF TypeOK
<1>2. CASE /\ token[a][f] >= n
           /\ token' = [token EXCEPT ![a] = Paid(token[a], f, h, n)]
  <2> DEFINE row == Paid(token[a], f, h, n)
  <2>1. token[a] \in [Holder -> Nat]
    BY DEF TypeOK
  <2>2. token[a][f] \in Nat /\ token[a][h] \in Nat
    BY <2>1
  <2>3. token[a][f] - n \in Nat /\ token[a][h] + n \in Nat
    BY <1>2, <2>2
  <2>4. /\ row \in [Holder -> Nat]
        /\ row[f] = token[a][f] - n
        /\ row[h] = token[a][h] + n
        /\ \A g \in Holder \ {f, h} : row[g] = token[a][g]
    BY <2>1, <2>3 DEF Paid
  <2>5. token' = [token EXCEPT ![a] = row]
    BY <1>2
  <2> HIDE DEF row
  <2>6. QED
    BY <2>4, <2>5 DEF TypeOK
<1>3. QED
  BY <1>1, <1>2 DEF Transfer

\* The account that calls as a vault's owner owns a vault that exists.
LEMMA OwnerIsReal ==
    ASSUME NEW v \in VaultId, IdentityOf(v), NEW caller \in Account,
           caller = vaults[v].owner
    PROVE  v < nextVaultId /\ vaults[v].fundingAsset \in Asset
BY RegistryAssumption DEF IdentityOf

\* fundVault credits one vault, and in a strict asset the contract receives it.
LEMMA FundEffect ==
    ASSUME TypeOK, NEW caller \in Account, NEW v \in VaultId, IdentityOf(v),
           NEW amount \in Amount, FundVault(caller, v, amount)
    PROVE  /\ vaults' \in [VaultId -> Vault]
           /\ OthersKept(v) /\ IdentityKept(v) /\ ClockKept(v)
           /\ vaults'[v].state = vaults[v].state
           /\ vaults'[v].balance = vaults[v].balance + amount
           /\ ledger' \in [VaultId -> Ledger]
           /\ \A w \in VaultId \ {v} : ledger'[w] = ledger[w]
           /\ ledger'[v].deposited = ledger[v].deposited + amount
           /\ ledger'[v].released = ledger[v].released
           /\ ledger'[v].refunded = ledger[v].refunded
           /\ ledger'[v].tranche1 = ledger[v].tranche1
           /\ token' \in [Asset -> [Holder -> Nat]]
           /\ \A a \in Asset \ LenientAsset :
                 token'[a][Registry] = token[a][Registry] +
                     (IF vaults[v].fundingAsset = a THEN amount ELSE 0)
<1> DEFINE b == vaults[v].balance + amount
           d == ledger[v].deposited + amount
           r == [vaults[v] EXCEPT !.balance = b]
           l == [ledger[v] EXCEPT !.deposited = d]
<1>1. vaults[v] \in Vault /\ ledger[v] \in Ledger
  BY DEF TypeOK
<1>2. amount \in Nat /\ b \in Nat /\ d \in Nat
  BY <1>1, RegistryAssumption DEF Vault, Ledger
<1>3. vaults' = [vaults EXCEPT ![v] = r] /\ ledger' = [ledger EXCEPT ![v] = l]
  BY DEF FundVault
<1>4. r \in Vault /\ l \in Ledger
  <2> HIDE DEF b, d
  <2>1. QED
    BY <1>1, <1>2 DEF Vault, Ledger
<1>5. /\ vaults' \in [VaultId -> Vault] /\ OthersKept(v) /\ vaults'[v] = r
      /\ ledger' \in [VaultId -> Ledger] /\ ledger'[v] = l
      /\ \A w \in VaultId \ {v} : ledger'[w] = ledger[w]
  <2> HIDE DEF r, l
  <2>1. QED
    BY <1>3, <1>4, ReplaceEffect, LedgerEffect
<1>6. /\ token' \in [Asset -> [Holder -> Nat]]
      /\ \A a \in Asset \ LenientAsset :
            token'[a][Registry] = token[a][Registry] +
                (IF vaults[v].fundingAsset = a THEN amount ELSE 0)
  <2>1. vaults[v].fundingAsset \in Asset
    BY OwnerIsReal DEF FundVault
  <2>2. caller \in Holder /\ Registry \in Holder /\ caller # Registry
    BY RegistryAssumption DEF Holder
  <2>3. Transfer(vaults[v].fundingAsset, caller, Registry, amount)
    BY DEF FundVault
  <2>4. \A a \in Asset : token[a][Registry] \in Nat
    BY <2>2 DEF TypeOK
  <2>5. QED
    BY <1>2, <2>1, <2>2, <2>3, <2>4, TransferEffect
<1>7. QED
  BY <1>1, <1>5, <1>6 DEF Vault, Ledger, IdentityKept, ClockKept

\* cancelVault closes one vault and books its balance as refunded.
LEMMA CancelEffect ==
    ASSUME TypeOK, NEW caller \in Account, NEW v \in VaultId, IdentityOf(v),
           CancelVault(caller, v)
    PROVE  /\ vaults' \in [VaultId -> Vault]
           /\ OthersKept(v) /\ IdentityKept(v) /\ ClockKept(v)
           /\ vaults'[v].state = "CLOSED"
           /\ vaults'[v].balance = 0
           /\ ledger' \in [VaultId -> Ledger]
           /\ \A w \in VaultId \ {v} : ledger'[w] = ledger[w]
           /\ ledger'[v].deposited = ledger[v].deposited
           /\ ledger'[v].released = ledger[v].released
           /\ ledger'[v].refunded = ledger[v].refunded + vaults[v].balance
           /\ ledger'[v].tranche1 = ledger[v].tranche1
           /\ token' \in [Asset -> [Holder -> Nat]]
           /\ \A a \in Asset \ LenientAsset :
                 token'[a][Registry] = token[a][Registry] -
                     (IF vaults[v].fundingAsset = a THEN vaults[v].balance ELSE 0)
<1> DEFINE d == ledger[v].refunded + vaults[v].balance
           r == [vaults[v] EXCEPT !.balance = 0, !.state = "CLOSED"]
           l == [ledger[v] EXCEPT !.refunded = d]
<1>1. vaults[v] \in Vault /\ ledger[v] \in Ledger
  BY DEF TypeOK
<1>2. d \in Nat /\ vaults[v].balance \in Nat
  BY <1>1 DEF Vault, Ledger
<1>3. vaults' = [vaults EXCEPT ![v] = r] /\ ledger' = [ledger EXCEPT ![v] = l]
  BY DEF CancelVault
<1>4. r \in Vault /\ l \in Ledger
  <2> HIDE DEF d
  <2>1. QED
    BY <1>1, <1>2 DEF Vault, Ledger, VaultState
<1>5. /\ vaults' \in [VaultId -> Vault] /\ OthersKept(v) /\ vaults'[v] = r
      /\ ledger' \in [VaultId -> Ledger] /\ ledger'[v] = l
      /\ \A w \in VaultId \ {v} : ledger'[w] = ledger[w]
  <2> HIDE DEF r, l
  <2>1. QED
    BY <1>3, <1>4, ReplaceEffect, LedgerEffect
<1>6. /\ token' \in [Asset -> [Holder -> Nat]]
      /\ \A a \in Asset \ LenientAsset :
            token'[a][Registry] = token[a][Registry] -
                (IF vaults[v].fundingAsset = a THEN vaults[v].balance ELSE 0)
  <2>1. vaults[v].fundingAsset \in Asset
    BY OwnerIsReal DEF CancelVault
  <2>2. caller \in Holder /\ Registry \in Holder /\ caller # Registry
    BY RegistryAssumption DEF Holder
  <2>3. \/ Transfer(vaults[v].fundingAsset, Registry, caller, vaults[v].balance)
        \/ vaults[v].balance = 0 /\ UNCHANGED token
    BY <1>2 DEF CancelVault
  <2>4. \A a \in Asset : token[a][Registry] \in Nat
    BY <2>2 DEF TypeOK
  <2>5. CASE Transfer(vaults[v].fundingAsset, Registry, caller, vaults[v].balance)
    BY <1>2, <2>1, <2>2, <2>4, <2>5, TransferEffect
  <2>6. CASE vaults[v].balance = 0 /\ UNCHANGED token
    BY <2>4, <2>6 DEF TypeOK
  <2>7. QED
    BY <2>3, <2>5, <2>6
<1>7. QED
  BY <1>1, <1>5, <1>6 DEF Vault, Ledger, IdentityKept, ClockKept

\* anchorLegalDoc touches nothing but the document.
LEMMA AnchorEffect ==
    ASSUME TypeOK, NEW caller \in Account, NEW v \in VaultId, NEW hash \in LegalDoc,
           AnchorLegalDoc(caller, v, hash)
    PROVE  /\ vaults' \in [VaultId -> Vault]
           /\ OthersKept(v) /\ IdentityKept(v) /\ ClockKept(v)
           /\ vaults'[v].state = vaults[v].state
           /\ vaults'[v].balance = vaults[v].balance
<1> DEFINE r == [vaults[v] EXCEPT !.legalDocHash = hash]
<1>1. vaults[v] \in Vault
  BY DEF TypeOK
<1>2. r \in Vault
  BY <1>1 DEF Vault
<1>3. vaults' \in [VaultId -> Vault] /\ OthersKept(v) /\ vaults'[v] = r
  <2>1. vaults' = [vaults EXCEPT ![v] = r]
    BY DEF AnchorLegalDoc
  <2> HIDE DEF r
  <2>2. QED
    BY <1>2, <2>1, ReplaceEffect
<1>4. QED
  BY <1>1, <1>3 DEF Vault, IdentityKept, ClockKept

\* Half of a balance, rounded down, is a balance.
LEMMA HalfNat ==
    ASSUME NEW n \in Nat
    PROVE  /\ n \div 2 \in Nat
           /\ n - n \div 2 \in Nat
           /\ n - n \div 2 >= n \div 2
           /\ n - n \div 2 <= n
OBVIOUS

\* finalizeDisputeWindow releases half of one vault.
LEMMA FinalizeDisputeEffect ==
    ASSUME TypeOK, NEW v \in VaultId, FinalizeDisputeWindow(v)
    PROVE  /\ vaults' \in [VaultId -> Vault]
           /\ OthersKept(v) /\ IdentityKept(v)
           /\ vaults'[v].lastCheckIn = vaults[v].lastCheckIn
           /\ vaults'[v].windowDeadline = now + vaults[v].timing.finalWindow
           /\ vaults'[v].state = "FINAL_WINDOW"
           /\ vaults'[v].balance = vaults[v].balance - vaults[v].balance \div 2
           /\ ledger' \in [VaultId -> Ledger]
           /\ \A w \in VaultId \ {v} : ledger'[w] = ledger[w]
           /\ ledger'[v].deposited = ledger[v].deposited
           /\ ledger'[v].released = ledger[v].released + vaults[v].balance \div 2
           /\ ledger'[v].refunded = ledger[v].refunded
           /\ ledger'[v].tranche1 = vaults[v].balance \div 2
<1> DEFINE half == vaults[v].balance \div 2
           b == vaults[v].balance - half
           d == now + vaults[v].timing.finalWindow
           p == ledger[v].released + half
           r == [vaults[v] EXCEPT !.balance = b, !.state = "FINAL_WINDOW",
                                  !.windowDeadline = d]
           l == [ledger[v] EXCEPT !.released = p, !.tranche1 = half]
<1>1. vaults[v] \in Vault /\ ledger[v] \in Ledger /\ ledger[v].released \in Nat
  BY DEF TypeOK, Ledger
<1>2. half \in Nat /\ b \in Nat
  BY HalfNat, TimingNat
<1>3. d \in Nat /\ p \in Nat
  BY <1>1, <1>2, TimingNat
<1>4. vaults' = [vaults EXCEPT ![v] = r] /\ ledger' = [ledger EXCEPT ![v] = l]
  BY DEF FinalizeDisputeWindow
<1>5. r \in Vault /\ l \in Ledger
  <2> HIDE DEF half, b, d, p
  <2>1. QED
    BY <1>1, <1>2, <1>3 DEF Vault, Ledger, VaultState
<1>6. /\ vaults' \in [VaultId -> Vault] /\ OthersKept(v) /\ vaults'[v] = r
      /\ ledger' \in [VaultId -> Ledger] /\ ledger'[v] = l
      /\ \A w \in VaultId \ {v} : ledger'[w] = ledger[w]
  <2> HIDE DEF r, l
  <2>1. QED
    BY <1>4, <1>5, ReplaceEffect, LedgerEffect
<1>7. QED
  BY <1>1, <1>6 DEF Vault, Ledger, IdentityKept

\* finalizeFinalWindow releases what is left of one vault.
LEMMA FinalizeFinalEffect ==
    ASSUME TypeOK, NEW v \in VaultId, FinalizeFinalWindow(v)
    PROVE  /\ vaults' \in [VaultId -> Vault]
           /\ OthersKept(v) /\ IdentityKept(v) /\ ClockKept(v)
           /\ vaults'[v].state = "FULLY_RELEASED"
           /\ vaults'[v].balance = 0
           /\ ledger' \in [VaultId -> Ledger]
           /\ \A w \in VaultId \ {v} : ledger'[w] = ledger[w]
           /\ ledger'[v].deposited = ledger[v].deposited
           /\ ledger'[v].released = ledger[v].released + vaults[v].balance
           /\ ledger'[v].refunded = ledger[v].refunded
           /\ ledger'[v].tranche1 = ledger[v].tranche1
<1> DEFINE p == ledger[v].released + vaults[v].balance
           r == [vaults[v] EXCEPT !.balance = 0, !.state = "FULLY_RELEASED"]
           l == [ledger[v] EXCEPT !.released = p]
<1>1. vaults[v] \in Vault /\ ledger[v] \in Ledger /\ ledger[v].released \in Nat
  BY DEF TypeOK, Ledger
<1>2. p \in Nat
  BY <1>1, TimingNat
<1>3. vaults' = [vaults EXCEPT ![v] = r] /\ ledger' = [ledger EXCEPT ![v] = l]
  BY DEF FinalizeFinalWindow
<1>4. r \in Vault /\ l \in Ledger
  <2> HIDE DEF p
  <2>1. QED
    BY <1>1, <1>2 DEF Vault, Ledger, VaultState
<1>5. /\ vaults' \in [VaultId -> Vault] /\ OthersKept(v) /\ vaults'[v] = r
      /\ ledger' \in [VaultId -> Ledger] /\ ledger'[v] = l
      /\ \A w \in VaultId \ {v} : ledger'[w] = ledger[w]
  <2> HIDE DEF r, l
  <2>1. QED
    BY <1>3, <1>4, ReplaceEffect, LedgerEffect
<1>6. QED
  BY <1>1, <1>5 DEF Vault, Ledger, IdentityKept, ClockKept

\* The types hold at deployment.
LEMMA InitType == Init => TypeOK
<1> SUFFICES ASSUME Init PROVE TypeOK
  OBVIOUS
<1> DEFINE zero == [deposited |-> 0, released |-> 0, refunded |-> 0, tranche1 |-> 0]
<1>1. ZeroVault \in Vault
  BY DEF ZeroVault, Vault, VaultState, TimingType
<1>2. zero \in Ledger
  BY DEF Ledger
<1>3. \A h \in Holder : (IF h = Registry THEN 0 ELSE InitialTokens) \in Nat
  BY RegistryAssumption
<1>4. QED
  BY <1>1, <1>2, <1>3, RegistryAssumption DEF Init, TypeOK

-----------------------------------------------------------------------------
(* The invariant is inductive.                                             *)

\* Every id is sound at deployment.
LEMMA InitSound == Init => IInv
<1> SUFFICES ASSUME Init PROVE IInv
  OBVIOUS
<1>1. TypeOK
  BY InitType
<1>2. ASSUME NEW v \in VaultId PROVE Sound(v)
  <2>1. vaults[v] = ZeroVault /\ nextVaultId = 1 /\ v >= 1 /\ now = 1
    BY DEF Init, VaultId
  <2>2. ledger[v] = [deposited |-> 0, released |-> 0, refunded |-> 0, tranche1 |-> 0]
    BY DEF Init
  <2>3. IdentityOf(v)
    BY <2>1, RegistryAssumption DEF IdentityOf, ZeroVault, VaultId
  <2>4. FundsOf(v)
    BY <2>1, <2>2 DEF FundsOf, ZeroVault
  <2>5. TimersOf(v)
    BY <2>1 DEF TimersOf, ZeroVault, ToWarning
  <2>6. QED
    BY <2>3, <2>4, <2>5 DEF Sound
<1>3. QED
  BY <1>1, <1>2 DEF IInv

\* A vault a step does not touch stays sound, however late it becomes.
LEMMA UntouchedSound ==
    ASSUME TypeOK, NEW w \in VaultId, Sound(w),
           vaults'[w] = vaults[w], ledger'[w] = ledger[w],
           now' \in Nat, now' >= now, (w < nextVaultId') <=> (w < nextVaultId)
    PROVE  Sound(w)'
<1>1. IdentityOf(w)' /\ FundsOf(w)'
  BY DEF Sound, IdentityOf, FundsOf
<1>2. TimersOf(w)'
  BY TimingNat DEF Sound, TimersOf, ToWarning, ToQuorum, ToHalf, ToRelease
<1>3. QED
  BY <1>1, <1>2 DEF Sound

\* So a step on vault v needs to be looked at only there.
LEMMA OneVaultSound ==
    ASSUME IInv, TypeOK', NEW v \in VaultId, Sound(v)', OthersKept(v),
           \A w \in VaultId \ {v} : ledger'[w] = ledger[w],
           now' = now,
           \A w \in VaultId \ {v} : (w < nextVaultId') <=> (w < nextVaultId)
    PROVE  IInv'
<1>1. ASSUME NEW w \in VaultId \ {v} PROVE Sound(w)'
  <2>1. now' \in Nat /\ now' >= now
    BY DEF IInv, TypeOK
  <2>2. QED
    BY <2>1, UntouchedSound DEF IInv, OthersKept
<1>2. QED
  BY <1>1 DEF IInv

\* Administration and the clock.
LEMMA AdminSound ==
    ASSUME IInv, AdminStep \/ Tick \/ UNCHANGED vars
    PROVE  IInv'
<1>1. TypeOK'
  <2>1. CASE UNCHANGED vars
    BY <2>1 DEF IInv, TypeOK, vars
  <2>2. CASE Tick
    BY <2>2 DEF IInv, TypeOK, Tick, registryVars
  <2>3. ASSUME NEW caller \in Account, NEW verifier \in Verifier,
               SetFdcVerifier(caller, verifier)
        PROVE  TypeOK'
    BY <2>3, RegistryAssumption DEF IInv, TypeOK, SetFdcVerifier
  <2>4. ASSUME NEW caller \in Account, NEW threshold \in Threshold,
               SetQuorumThreshold(caller, threshold)
        PROVE  TypeOK'
    BY <2>4, RegistryAssumption DEF IInv, TypeOK, SetQuorumThreshold
  <2>5. QED
    BY <2>1, <2>2, <2>3, <2>4 DEF AdminStep
<1>2. vaults' = vaults /\ ledger' = ledger /\ nextVaultId' = nextVaultId
  BY DEF AdminStep, SetFdcVerifier, SetQuorumThreshold, Tick, registryVars, vars
<1>3. now' \in Nat /\ now' >= now
  BY DEF IInv, TypeOK, AdminStep, SetFdcVerifier, SetQuorumThreshold, Tick, vars
<1>4. QED
  BY <1>1, <1>2, <1>3, UntouchedSound DEF IInv

\* checkIn, ownerOverride and guardianHalt restart the timers.
LEMMA RestartSound ==
    ASSUME IInv, NEW caller \in Account, NEW v \in VaultId,
           CheckIn(caller, v) \/ OwnerOverride(caller, v) \/ GuardianHalt(caller, v)
    PROVE  IInv'
<1>1. /\ vaults' = Restarted(v)
      /\ UNCHANGED <<nextVaultId, vaultAttestationCount, quorumThreshold,
                     fdcVerifier, token, now, ledger>>
  BY DEF CheckIn, OwnerOverride, GuardianHalt
<1>2. TypeOK'
  BY <1>1, RestartEffect DEF IInv, TypeOK
<1>3. Sound(v)'
  <2>1. IdentityOf(v)'
    BY <1>1, RestartEffect DEF IInv, Sound, IdentityOf, IdentityKept
  <2>2. FundsOf(v)'
    BY <1>1, RestartEffect DEF IInv, Sound, FundsOf
  <2>3. TimersOf(v)'
    BY <1>1, RestartEffect, TimingNat DEF IInv, TimersOf, IdentityKept, ToWarning
  <2>4. QED
    BY <2>1, <2>2, <2>3 DEF Sound
<1>4. QED
  BY <1>1, <1>2, <1>3, RestartEffect, OneVaultSound DEF IInv

\* A vault enters a later state without its balance being touched, late enough
\* and with a deadline far enough ahead.
LEMMA EnterSound ==
    ASSUME IInv, TypeOK', NEW v \in VaultId, NEW s \in VaultState, NEW d \in Nat,
           vaults' = Entered(v, s, d),
           UNCHANGED <<nextVaultId, now, ledger>>,
           \/ s = "WARNING" /\ now >= vaults[v].lastCheckIn + ToWarning(v)
                            /\ d >= vaults[v].lastCheckIn + ToQuorum(v)
           \/ s = "QUORUM_PENDING" /\ now >= vaults[v].lastCheckIn + ToQuorum(v)
           \/ s = "DISPUTE_WINDOW" /\ now >= vaults[v].lastCheckIn + ToQuorum(v)
                                   /\ d >= vaults[v].lastCheckIn + ToHalf(v)
    PROVE  IInv'
<1>1. Sound(v)'
  <2>1. IdentityOf(v)'
    BY EnterEffect DEF IInv, Sound, IdentityOf, IdentityKept
  <2>2. FundsOf(v)'
    BY EnterEffect DEF IInv, Sound, FundsOf
  <2>3. TimersOf(v)'
    BY EnterEffect
    DEF IInv, TimersOf, IdentityKept, ToWarning, ToQuorum, ToHalf, ToRelease
  <2>4. QED
    BY <2>1, <2>2, <2>3 DEF Sound
<1>2. QED
  BY <1>1, EnterEffect, OneVaultSound DEF IInv

\* markWarning and requestAttestation.
LEMMA WaitSound ==
    ASSUME IInv, NEW v \in VaultId, MarkWarning(v) \/ RequestAttestation(v)
    PROVE  IInv'
<1>1. {"WARNING", "QUORUM_PENDING"} \subseteq VaultState
  BY DEF VaultState
<1>2. TypeOK /\ TimersOf(v)
  BY DEF IInv, Sound
<1>3. CASE MarkWarning(v)
  <2> DEFINE d == now + vaults[v].timing.graceWindow
  <2>1. d \in Nat
    BY <1>2, TimingNat
  <2>2. vaults' = Entered(v, "WARNING", d)
    BY <1>3 DEF MarkWarning
  <2>3. TypeOK'
    BY <1>1, <1>2, <1>3, <2>1, <2>2, EnterEffect DEF TypeOK, MarkWarning
  <2>4. /\ now >= vaults[v].lastCheckIn + ToWarning(v)
        /\ d >= vaults[v].lastCheckIn + ToQuorum(v)
    BY <1>2, <1>3, TimingNat DEF MarkWarning, TimersOf, ToWarning, ToQuorum
  <2> HIDE DEF d
  <2>5. QED
    BY <1>1, <1>3, <2>1, <2>2, <2>3, <2>4, EnterSound DEF MarkWarning
<1>4. CASE RequestAttestation(v)
  <2> DEFINE d == vaults[v].windowDeadline
  <2>1. d \in Nat
    BY <1>2, TimingNat
  <2>2. vaults' = Entered(v, "QUORUM_PENDING", d)
    BY <1>4 DEF RequestAttestation
  <2>3. TypeOK'
    BY <1>1, <1>2, <1>4, <2>1, <2>2, EnterEffect DEF TypeOK, RequestAttestation
  <2>4. now >= vaults[v].lastCheckIn + ToQuorum(v)
    BY <1>2, <1>4, TimingNat DEF RequestAttestation, TimersOf, ToWarning, ToQuorum
  <2> HIDE DEF d
  <2>5. QED
    BY <1>1, <1>4, <2>1, <2>2, <2>3, <2>4, EnterSound DEF RequestAttestation
<1>5. QED
  BY <1>3, <1>4

\* The two ways a quorum reaches the contract.
LEMMA QuorumSound ==
    ASSUME IInv, NEW caller \in Account, NEW v \in VaultId, NEW quorumMet \in BOOLEAN,
           \/ SubmitQuorumResult(caller, v, quorumMet)
           \/ SubmitVerifiedAttestation(caller, v)
    PROVE  IInv'
<1> DEFINE d == now + vaults[v].timing.disputeWindow
<1>1. "DISPUTE_WINDOW" \in VaultState
  BY DEF VaultState
<1>2. TypeOK /\ TimersOf(v)
  BY DEF IInv, Sound
<1>3. d \in Nat
  BY <1>2, TimingNat
<1>4. /\ UNCHANGED <<nextVaultId, quorumThreshold, fdcVerifier, token, now, ledger>>
      /\ \/ vaults' = vaults
         \/ /\ vaults[v].state = "QUORUM_PENDING"
            /\ vaults' = Entered(v, "DISPUTE_WINDOW", d)
  BY DEF SubmitQuorumResult, SubmitVerifiedAttestation
<1>5. vaults' \in [VaultId -> Vault]
  BY <1>1, <1>2, <1>3, <1>4, EnterEffect DEF TypeOK
<1>6. vaultAttestationCount' \in [VaultId -> Nat]
  BY <1>2 DEF TypeOK, SubmitQuorumResult, SubmitVerifiedAttestation
<1>7. TypeOK'
  BY <1>2, <1>4, <1>5, <1>6 DEF TypeOK
<1>8. CASE vaults' = vaults
  <2>1. now \in Nat
    BY <1>2 DEF TypeOK
  <2>2. QED
    BY <1>4, <1>7, <1>8, <2>1, UntouchedSound DEF IInv
<1>9. CASE vaults[v].state = "QUORUM_PENDING" /\ vaults' = Entered(v, "DISPUTE_WINDOW", d)
  <2>1. /\ now >= vaults[v].lastCheckIn + ToQuorum(v)
        /\ d >= vaults[v].lastCheckIn + ToHalf(v)
    BY <1>2, <1>9, TimingNat DEF TimersOf, ToWarning, ToQuorum, ToHalf
  <2> HIDE DEF d
  <2>2. QED
    BY <1>1, <1>3, <1>4, <1>7, <1>9, <2>1, EnterSound
<1>10. QED
  BY <1>4, <1>8, <1>9

\* A new vault starts sound.
LEMMA CreateSound ==
    ASSUME IInv, NEW caller \in Account, NEW plan \in PlanHash, NEW asset \in Asset,
           NEW timing \in Timing, NEW guardian \in GuardianKey,
           CreateVault(caller, plan, asset, timing, guardian)
    PROVE  IInv'
<1> PICK v \in VaultId : v = nextVaultId
  BY CreateEffect DEF IInv
<1>1. TypeOK /\ Sound(v) /\ now \in Nat /\ nextVaultId \in Nat
  BY DEF IInv, TypeOK
<1>2. /\ nextVaultId' = nextVaultId + 1
      /\ UNCHANGED <<vaultAttestationCount, quorumThreshold, fdcVerifier,
                     token, now, ledger>>
  BY DEF CreateVault
<1>3. vaults[v].balance = 0
  BY <1>1 DEF Sound, IdentityOf
<1>4. TypeOK'
  <2>1. nextVaultId' \in 1..(MaxVaultId + 1)
    BY <1>1, <1>2, RegistryAssumption DEF VaultId
  <2>2. QED
    BY <1>1, <1>2, <2>1, CreateEffect DEF TypeOK
<1>5. Sound(v)'
  <2>1. IdentityOf(v)'
    BY <1>1, <1>2, CreateEffect DEF IdentityOf
  <2>2. FundsOf(v)'
    BY <1>1, <1>2, CreateEffect DEF Sound, FundsOf
  <2>3. TimersOf(v)'
    BY <1>1, <1>2, CreateEffect, TimingTyped DEF TimersOf, ToWarning, TimingType
  <2>4. QED
    BY <2>1, <2>2, <2>3 DEF Sound
<1>6. \A w \in VaultId \ {v} : (w < nextVaultId') <=> (w < nextVaultId)
  BY <1>1, <1>2 DEF VaultId
<1>7. QED
  BY <1>1, <1>2, <1>4, <1>5, <1>6, CreateEffect, OneVaultSound

\* A deposit keeps the vault sound.
LEMMA FundSound ==
    ASSUME IInv, NEW caller \in Account, NEW v \in VaultId, NEW amount \in Amount,
           FundVault(caller, v, amount)
    PROVE  IInv'
<1>1. TypeOK /\ Sound(v) /\ IdentityOf(v) /\ amount \in Nat /\ ledger[v] \in Ledger
  BY RegistryAssumption DEF IInv, Sound, TypeOK
<1>2. UNCHANGED <<nextVaultId, vaultAttestationCount, quorumThreshold, fdcVerifier, now>>
  BY DEF FundVault
<1>3. TypeOK'
  BY <1>1, <1>2, FundEffect DEF TypeOK
<1>4. Sound(v)'
  <2>1. IdentityOf(v)'
    BY <1>1, <1>2, FundEffect, OwnerIsReal DEF FundVault, IdentityOf, IdentityKept
  <2>2. FundsOf(v)'
    <3>1. /\ vaults'[v].balance = vaults[v].balance + amount
          /\ vaults'[v].state = vaults[v].state
          /\ ledger'[v].deposited = ledger[v].deposited + amount
          /\ ledger'[v].released = ledger[v].released
          /\ ledger'[v].refunded = ledger[v].refunded
          /\ ledger'[v].tranche1 = ledger[v].tranche1
      BY <1>1, FundEffect
    <3>2. vaults[v].state \notin {"FULLY_RELEASED", "CLOSED"}
      BY DEF FundVault
    <3>3. vaults[v].balance \in Nat
      BY <1>1, TimingNat
    <3>4. QED
      BY <1>1, <3>1, <3>2, <3>3 DEF Sound, FundsOf, Ledger
  <2>3. TimersOf(v)'
    BY <1>1, <1>2, FundEffect
    DEF Sound, TimersOf, IdentityKept, ClockKept, ToWarning, ToQuorum, ToHalf, ToRelease
  <2>4. QED
    BY <2>1, <2>2, <2>3 DEF Sound
<1>5. QED
  BY <1>1, <1>2, <1>3, <1>4, FundEffect, OneVaultSound

\* An anchored document keeps the vault sound.
LEMMA AnchorSound ==
    ASSUME IInv, NEW caller \in Account, NEW v \in VaultId, NEW hash \in LegalDoc,
           AnchorLegalDoc(caller, v, hash)
    PROVE  IInv'
<1>1. TypeOK /\ Sound(v)
  BY DEF IInv
<1>2. UNCHANGED <<nextVaultId, vaultAttestationCount, quorumThreshold, fdcVerifier,
                 token, now, ledger>>
  BY DEF AnchorLegalDoc
<1>3. TypeOK'
  BY <1>1, <1>2, AnchorEffect DEF TypeOK
<1>4. Sound(v)'
  <2>1. IdentityOf(v)'
    BY <1>1, <1>2, AnchorEffect DEF Sound, IdentityOf, IdentityKept
  <2>2. FundsOf(v)'
    BY <1>1, <1>2, AnchorEffect DEF Sound, FundsOf
  <2>3. TimersOf(v)'
    BY <1>1, <1>2, AnchorEffect
    DEF Sound, TimersOf, IdentityKept, ClockKept, ToWarning, ToQuorum, ToHalf, ToRelease
  <2>4. QED
    BY <2>1, <2>2, <2>3 DEF Sound
<1>5. QED
  BY <1>1, <1>2, <1>3, <1>4, AnchorEffect, OneVaultSound

\* A cancelled vault is sound.
LEMMA CancelSound ==
    ASSUME IInv, NEW caller \in Account, NEW v \in VaultId, CancelVault(caller, v)
    PROVE  IInv'
<1>1. TypeOK /\ Sound(v) /\ IdentityOf(v) /\ ledger[v] \in Ledger
  BY DEF IInv, Sound, TypeOK
<1>2. UNCHANGED <<nextVaultId, vaultAttestationCount, quorumThreshold, fdcVerifier, now>>
  BY DEF CancelVault
<1>3. TypeOK'
  BY <1>1, <1>2, CancelEffect DEF TypeOK
<1>4. Sound(v)'
  <2>1. IdentityOf(v)'
    BY <1>1, <1>2, CancelEffect DEF IdentityOf, IdentityKept
  <2>2. FundsOf(v)'
    <3>1. /\ vaults'[v].balance = 0
          /\ vaults'[v].state = "CLOSED"
          /\ ledger'[v].deposited = ledger[v].deposited
          /\ ledger'[v].released = ledger[v].released
          /\ ledger'[v].refunded = ledger[v].refunded + vaults[v].balance
      BY <1>1, CancelEffect
    <3>2. vaults[v].balance \in Nat
      BY <1>1, TimingNat
    <3>3. QED
      BY <1>1, <3>1, <3>2 DEF Sound, FundsOf, Ledger
  <2>3. TimersOf(v)'
    BY <1>1, <1>2, CancelEffect DEF TimersOf
  <2>4. QED
    BY <2>1, <2>2, <2>3 DEF Sound
<1>5. QED
  BY <1>1, <1>2, <1>3, <1>4, CancelEffect, OneVaultSound

\* Both finalize calls keep the vault sound.
LEMMA FinalizeSound ==
    ASSUME IInv, NEW v \in VaultId, FinalizeDisputeWindow(v) \/ FinalizeFinalWindow(v)
    PROVE  IInv'
<1>1. TypeOK /\ Sound(v) /\ ledger[v] \in Ledger
  BY DEF IInv, TypeOK
<1>2. UNCHANGED <<nextVaultId, vaultAttestationCount, quorumThreshold, fdcVerifier,
                 token, now>>
  BY DEF FinalizeDisputeWindow, FinalizeFinalWindow
<1>3. CASE FinalizeDisputeWindow(v)
  <2>1. TypeOK'
    BY <1>1, <1>2, <1>3, FinalizeDisputeEffect DEF TypeOK
  <2>2. IdentityOf(v)'
    <3>1. vaults[v].balance = 0 => vaults'[v].balance = 0
      BY <1>1, <1>3, FinalizeDisputeEffect, HalfNat
    <3>2. QED
      BY <1>1, <1>2, <1>3, <3>1, FinalizeDisputeEffect DEF Sound, IdentityOf, IdentityKept
  <2>3. FundsOf(v)'
    <3> DEFINE half == vaults[v].balance \div 2
    <3>1. /\ half \in Nat
          /\ vaults[v].balance \in Nat
          /\ vaults[v].balance - half >= half
      BY <1>1, TimingNat, HalfNat
    <3>2. /\ vaults'[v].balance = vaults[v].balance - half
          /\ vaults'[v].state = "FINAL_WINDOW"
          /\ ledger'[v].deposited = ledger[v].deposited
          /\ ledger'[v].released = ledger[v].released + half
          /\ ledger'[v].refunded = ledger[v].refunded
          /\ ledger'[v].tranche1 = half
      BY <1>1, <1>3, FinalizeDisputeEffect
    <3> HIDE DEF half
    <3>3. QED
      BY <1>1, <3>1, <3>2 DEF Sound, FundsOf, Ledger
  <2>4. TimersOf(v)'
    <3>1. /\ now >= vaults[v].windowDeadline
          /\ vaults[v].windowDeadline >= vaults[v].lastCheckIn + ToHalf(v)
      BY <1>1, <1>3 DEF Sound, TimersOf, FinalizeDisputeWindow
    <3>2. now >= vaults[v].lastCheckIn + ToHalf(v)
      BY <1>1, <3>1, TimingNat DEF ToWarning, ToQuorum, ToHalf
    <3>3. /\ vaults'[v].state = "FINAL_WINDOW"
          /\ vaults'[v].lastCheckIn = vaults[v].lastCheckIn
          /\ vaults'[v].timing = vaults[v].timing
          /\ vaults'[v].windowDeadline = now + vaults[v].timing.finalWindow
      BY <1>1, <1>3, FinalizeDisputeEffect DEF IdentityKept
    <3>4. ToHalf(v)' = ToHalf(v) /\ ToRelease(v)' = ToRelease(v)
      BY <3>3 DEF ToWarning, ToQuorum, ToHalf, ToRelease
    <3>5. vaults'[v].windowDeadline >= vaults[v].lastCheckIn + ToRelease(v)
      BY <1>1, <3>2, <3>3, TimingNat DEF ToWarning, ToQuorum, ToHalf, ToRelease
    <3>6. QED
      BY <1>2, <3>2, <3>3, <3>4, <3>5 DEF TimersOf
  <2>5. QED
    BY <1>1, <1>2, <1>3, <2>1, <2>2, <2>3, <2>4, FinalizeDisputeEffect, OneVaultSound
    DEF Sound
<1>4. CASE FinalizeFinalWindow(v)
  <2>1. TypeOK'
    BY <1>1, <1>2, <1>4, FinalizeFinalEffect DEF TypeOK
  <2>2. IdentityOf(v)'
    BY <1>1, <1>2, <1>4, FinalizeFinalEffect DEF Sound, IdentityOf, IdentityKept
  <2>3. FundsOf(v)'
    BY <1>1, <1>4, FinalizeFinalEffect, TimingNat DEF Sound, FundsOf, Ledger
  <2>4. TimersOf(v)'
    <3>1. /\ now >= vaults[v].windowDeadline
          /\ vaults[v].windowDeadline >= vaults[v].lastCheckIn + ToRelease(v)
      BY <1>1, <1>4 DEF Sound, TimersOf, FinalizeFinalWindow
    <3>2. now >= vaults[v].lastCheckIn + ToRelease(v)
      BY <1>1, <3>1, TimingNat DEF ToWarning, ToQuorum, ToHalf, ToRelease
    <3>3. /\ vaults'[v].state = "FULLY_RELEASED"
          /\ vaults'[v].lastCheckIn = vaults[v].lastCheckIn
          /\ vaults'[v].timing = vaults[v].timing
      BY <1>1, <1>4, FinalizeFinalEffect DEF IdentityKept, ClockKept
    <3>4. ToRelease(v)' = ToRelease(v)
      BY <3>3 DEF ToWarning, ToQuorum, ToHalf, ToRelease
    <3>5. QED
      BY <1>2, <3>2, <3>3, <3>4 DEF TimersOf
  <2>5. QED
    BY <1>1, <1>2, <1>4, <2>1, <2>2, <2>3, <2>4, FinalizeFinalEffect, OneVaultSound
    DEF Sound
<1>5. QED
  BY <1>3, <1>4

\* Every step preserves the invariant.
LEMMA NextSound == IInv /\ [Next]_vars => IInv'
<1> SUFFICES ASSUME IInv, [Next]_vars PROVE IInv'
  OBVIOUS
<1>1. CASE OwnerStep
  BY <1>1, CreateSound, RestartSound, FundSound, AnchorSound, CancelSound DEF OwnerStep
<1>2. CASE GuardianStep
  BY <1>2, RestartSound DEF GuardianStep
<1>3. CASE OracleStep
  BY <1>3, QuorumSound DEF OracleStep
<1>4. CASE VerifierStep
  BY <1>4, QuorumSound DEF VerifierStep
<1>5. CASE KeeperStep
  BY <1>5, WaitSound, FinalizeSound DEF KeeperStep
<1>6. CASE AdminStep \/ Tick \/ UNCHANGED vars
  BY <1>6, AdminSound
<1>7. QED
  BY <1>1, <1>2, <1>3, <1>4, <1>5, <1>6 DEF Next

-----------------------------------------------------------------------------

\* Every state the contract reaches satisfies the inductive invariant.
THEOREM InvariantHolds == Spec => []IInv
<1>1. QED
  BY InitSound, NextSound, PTL DEF Spec

\* Every variable keeps its type whatever the windows, amounts and callers.
THEOREM TypeCorrect == Spec => []TypeOK
<1>1. IInv => TypeOK
  BY DEF IInv
<1>2. QED
  BY <1>1, InvariantHolds, PTL

\* No unit deposited into a vault is lost or paid twice.
THEOREM FundsConserved == Spec => []Conservation
<1>1. IInv => Conservation
  BY DEF IInv, Sound, FundsOf, Conservation
<1>2. QED
  BY <1>1, InvariantHolds, PTL

\* A halt in the final window saves at least the amount of the first tranche.
THEOREM HalfIsSaved == Spec => []HaltSavesHalf
<1>1. IInv => HaltSavesHalf
  BY DEF IInv, Sound, FundsOf, HaltSavesHalf
<1>2. QED
  BY <1>1, InvariantHolds, PTL

\* No vault is released before its windows have run out in silence.
THEOREM ReleaseNeedsSilence == Spec => []SilenceBeforeRelease
<1>1. IInv => SilenceBeforeRelease
  BY TimingNat DEF IInv, Sound, TimersOf, SilenceBeforeRelease,
     ToWarning, ToQuorum, ToHalf, ToRelease
<1>2. QED
  BY <1>1, InvariantHolds, PTL

-----------------------------------------------------------------------------
(* Solvency.                                                               *)

\* What is credited in an asset is a natural number for every id.
LEMMA CreditedType ==
    ASSUME TypeOK, NEW a
    PROVE  Credited(a) \in [1..MaxVaultId -> Nat]
BY DEF Credited, TypeOK, Vault, VaultId

\* One vault's credit and the contract's tokens change together.
LEMMA CreditStep ==
    ASSUME TypeOK, TypeOK', Solvency, NEW v \in VaultId, OthersKept(v),
           NEW a \in Asset \ LenientAsset,
           Credited(a)'[v] - Credited(a)[v] <= token'[a][Registry] - token[a][Registry]
    PROVE  Total(Credited(a), MaxVaultId)' <= token'[a][Registry]
<1> DEFINE f == Credited(a)
           g == Credited(a)'
<1>1. f \in [1..MaxVaultId -> Nat] /\ g \in [1..MaxVaultId -> Nat]
  <2>1. (Credited(a) \in [1..MaxVaultId -> Nat])'
    BY DEF Credited, TypeOK, Vault, VaultId
  <2>2. QED
    BY <2>1, CreditedType
<1>2. \A w \in VaultId \ {v} : g[w] = f[w]
  BY DEF Credited, OthersKept
<1>3. Total(f, MaxVaultId) <= token[a][Registry]
  BY DEF Solvency
<1>4. token[a][Registry] \in Nat /\ token'[a][Registry] \in Nat
  BY DEF TypeOK, Holder
<1>5. g[v] - f[v] <= token'[a][Registry] - token[a][Registry]
  OBVIOUS
<1> HIDE DEF f, g
<1>6. g = [f EXCEPT ![v] = g[v]]
  BY <1>1, <1>2 DEF VaultId
<1>7. Total(g, MaxVaultId) = Total(f, MaxVaultId) - f[v] + g[v]
  <2>1. f \in [1..MaxVaultId -> Int] /\ g[v] \in Int /\ v \in 1..MaxVaultId
    BY <1>1 DEF VaultId
  <2>2. MaxVaultId \in Nat
    BY RegistryAssumption
  <2>3. Total([f EXCEPT ![v] = g[v]], MaxVaultId) = Total(f, MaxVaultId) - f[v] + g[v]
    BY <2>1, <2>2, TotalUpdate
  <2>4. QED
    BY <1>6, <2>3
<1>8. Total(f, MaxVaultId) \in Nat /\ f[v] \in Nat /\ g[v] \in Nat
  BY <1>1, TotalNat, RegistryAssumption DEF VaultId
<1>9. Total(g, MaxVaultId) <= token'[a][Registry]
  BY <1>3, <1>4, <1>5, <1>7, <1>8
<1>10. QED
  BY <1>9 DEF f, g

\* Nothing is credited at deployment.
LEMMA InitSolvent == Init => Solvency
<1> SUFFICES ASSUME Init, NEW a \in Asset \ LenientAsset
             PROVE  Total(Credited(a), MaxVaultId) <= token[a][Registry]
  BY DEF Solvency
<1>1. Credited(a) = [v \in 1..MaxVaultId |-> 0]
  BY DEF Init, Credited, ZeroVault, VaultId
<1>2. token[a][Registry] = 0
  BY DEF Init, Holder
<1>3. QED
  BY <1>1, <1>2, TotalZero, RegistryAssumption

\* The steps that touch neither a balance nor a token.
LEMMA UnfundedSolvent ==
    ASSUME TypeOK, TypeOK', Solvency, UNCHANGED token,
           \A v \in VaultId : /\ vaults'[v].balance = vaults[v].balance
                              /\ vaults'[v].fundingAsset = vaults[v].fundingAsset
    PROVE  Solvency'
<1>1. ASSUME NEW a \in Asset PROVE Credited(a)' = Credited(a)
  BY DEF Credited
<1>2. QED
  BY <1>1 DEF Solvency

\* Creating a vault credits nothing.
LEMMA CreateSolvent ==
    ASSUME IInv, IInv', Solvency, NEW caller \in Account, NEW plan \in PlanHash,
           NEW asset \in Asset, NEW timing \in Timing, NEW guardian \in GuardianKey,
           CreateVault(caller, plan, asset, timing, guardian)
    PROVE  Solvency'
<1> PICK v \in VaultId : v = nextVaultId
  BY CreateEffect DEF IInv
<1>1. TypeOK /\ TypeOK' /\ nextVaultId \in Nat
  BY DEF IInv, TypeOK
<1>2. vaults[v].balance = 0 /\ vaults'[v].balance = 0 /\ OthersKept(v)
  BY <1>1, CreateEffect DEF IInv, Sound, IdentityOf
<1>3. UNCHANGED token
  BY DEF CreateVault
<1>4. ASSUME NEW a \in Asset PROVE Credited(a)' = Credited(a)
  <2>1. \A w \in VaultId :
           (IF vaults'[w].fundingAsset = a THEN vaults'[w].balance ELSE 0)
           = (IF vaults[w].fundingAsset = a THEN vaults[w].balance ELSE 0)
    BY <1>2 DEF OthersKept
  <2>2. QED
    BY <2>1 DEF Credited
<1>5. QED
  BY <1>3, <1>4 DEF Solvency

\* Deposits, refunds and tranches keep every asset covered.
LEMMA FundsSolvent ==
    ASSUME IInv, IInv', Solvency, NEW caller \in Account, NEW v \in VaultId,
           \/ \E amount \in Amount : FundVault(caller, v, amount)
           \/ CancelVault(caller, v)
           \/ FinalizeDisputeWindow(v)
           \/ FinalizeFinalWindow(v)
    PROVE  Solvency'
<1>1. TypeOK /\ IdentityOf(v)
  BY DEF IInv, Sound
<1> TypeOK'
  BY DEF IInv
<1>2. SUFFICES ASSUME NEW a \in Asset \ LenientAsset
               PROVE  Total(Credited(a), MaxVaultId)' <= token'[a][Registry]
  BY DEF Solvency
<1>3. vaults[v].balance \in Nat /\ token[a][Registry] \in Nat
  <2>1. vaults[v].balance \in Nat
    BY <1>1, TimingNat
  <2>2. token[a][Registry] \in Nat
    BY <1>1 DEF TypeOK, Holder
  <2>3. QED
    BY <2>1, <2>2
<1>4. /\ Credited(a)[v] = IF vaults[v].fundingAsset = a THEN vaults[v].balance ELSE 0
      /\ Credited(a)'[v] = IF vaults'[v].fundingAsset = a THEN vaults'[v].balance ELSE 0
  BY DEF Credited
<1>5. CASE \E amount \in Amount : FundVault(caller, v, amount)
  <2>1. PICK amount \in Amount : FundVault(caller, v, amount)
    BY <1>5
  <2>2. amount \in Nat
    BY RegistryAssumption
  <2>3. /\ OthersKept(v)
        /\ vaults'[v].fundingAsset = vaults[v].fundingAsset
        /\ vaults'[v].balance = vaults[v].balance + amount
        /\ token'[a][Registry] = token[a][Registry] +
               (IF vaults[v].fundingAsset = a THEN amount ELSE 0)
    BY <1>1, <2>1, FundEffect DEF IdentityKept
  <2>4. Credited(a)'[v] - Credited(a)[v] <= token'[a][Registry] - token[a][Registry]
    BY <1>3, <1>4, <2>2, <2>3
  <2>5. QED
    BY <1>1, <2>3, <2>4, CreditStep
<1>6. CASE CancelVault(caller, v)
  <2>1. /\ OthersKept(v)
        /\ vaults'[v].fundingAsset = vaults[v].fundingAsset
        /\ vaults'[v].balance = 0
        /\ token'[a][Registry] = token[a][Registry] -
               (IF vaults[v].fundingAsset = a THEN vaults[v].balance ELSE 0)
    BY <1>1, <1>6, CancelEffect DEF IdentityKept
  <2>2. Credited(a)'[v] - Credited(a)[v] <= token'[a][Registry] - token[a][Registry]
    BY <1>3, <1>4, <2>1
  <2>3. QED
    BY <1>1, <2>1, <2>2, CreditStep
<1>7. CASE FinalizeDisputeWindow(v) \/ FinalizeFinalWindow(v)
  <2>1. /\ OthersKept(v)
        /\ vaults'[v].fundingAsset = vaults[v].fundingAsset
        /\ vaults'[v].balance \in Nat
        /\ vaults'[v].balance <= vaults[v].balance
        /\ token' = token
    <3>1. CASE FinalizeDisputeWindow(v)
      <4>1. /\ vaults[v].balance - vaults[v].balance \div 2 \in Nat
            /\ vaults[v].balance - vaults[v].balance \div 2 <= vaults[v].balance
        BY <1>3, HalfNat
      <4>2. /\ OthersKept(v)
            /\ vaults'[v].fundingAsset = vaults[v].fundingAsset
            /\ vaults'[v].balance = vaults[v].balance - vaults[v].balance \div 2
        BY <1>1, <3>1, FinalizeDisputeEffect DEF IdentityKept
      <4>3. token' = token
        BY <3>1 DEF FinalizeDisputeWindow
      <4>4. QED
        BY <4>1, <4>2, <4>3
    <3>2. CASE FinalizeFinalWindow(v)
      <4>1. /\ OthersKept(v)
            /\ vaults'[v].fundingAsset = vaults[v].fundingAsset
            /\ vaults'[v].balance = 0
        BY <1>1, <3>2, FinalizeFinalEffect DEF IdentityKept
      <4>2. token' = token
        BY <3>2 DEF FinalizeFinalWindow
      <4>3. QED
        BY <1>3, <4>1, <4>2
    <3>3. QED
      BY <1>7, <3>1, <3>2
  <2>2. Credited(a)'[v] - Credited(a)[v] <= token'[a][Registry] - token[a][Registry]
    BY <1>3, <1>4, <2>1
  <2>3. QED
    BY <1>1, <2>1, <2>2, CreditStep
<1>8. QED
  BY <1>5, <1>6, <1>7

\* The steps that move a vault along, or restart it, keep its identity and its
\* balance.
LEMMA MoveEffect ==
    ASSUME TypeOK, NEW caller \in Account, NEW v \in VaultId, NEW quorumMet \in BOOLEAN,
           \/ CheckIn(caller, v) \/ OwnerOverride(caller, v) \/ GuardianHalt(caller, v)
           \/ MarkWarning(v) \/ RequestAttestation(v)
           \/ SubmitQuorumResult(caller, v, quorumMet)
           \/ SubmitVerifiedAttestation(caller, v)
           \/ \E hash \in LegalDoc : AnchorLegalDoc(caller, v, hash)
    PROVE  /\ OthersKept(v) /\ IdentityKept(v)
           /\ vaults'[v].balance = vaults[v].balance
           /\ UNCHANGED <<nextVaultId, token, now, ledger>>
<1>1. /\ {"WARNING", "QUORUM_PENDING", "DISPUTE_WINDOW"} \subseteq VaultState
      /\ now + vaults[v].timing.graceWindow \in Nat
      /\ now + vaults[v].timing.disputeWindow \in Nat
      /\ vaults[v].windowDeadline \in Nat
  BY TimingNat DEF VaultState
<1>2. CASE CheckIn(caller, v) \/ OwnerOverride(caller, v) \/ GuardianHalt(caller, v)
  BY <1>2, RestartEffect DEF CheckIn, OwnerOverride, GuardianHalt
<1>3. CASE MarkWarning(v)
  BY <1>1, <1>3, EnterEffect DEF MarkWarning
<1>4. CASE RequestAttestation(v)
  BY <1>1, <1>4, EnterEffect DEF RequestAttestation
<1>5. CASE SubmitQuorumResult(caller, v, quorumMet) \/ SubmitVerifiedAttestation(caller, v)
  <2>1. /\ UNCHANGED <<nextVaultId, token, now, ledger>>
        /\ \/ vaults' = vaults
           \/ vaults' = Entered(v, "DISPUTE_WINDOW", now + vaults[v].timing.disputeWindow)
    BY <1>5 DEF SubmitQuorumResult, SubmitVerifiedAttestation
  <2>2. QED
    BY <1>1, <2>1, EnterEffect DEF OthersKept, IdentityKept
<1>6. CASE \E hash \in LegalDoc : AnchorLegalDoc(caller, v, hash)
  BY <1>6, AnchorEffect DEF AnchorLegalDoc
<1>7. QED
  BY <1>2, <1>3, <1>4, <1>5, <1>6

\* Every step keeps every asset covered.
LEMMA NextSolvent == IInv /\ IInv' /\ Solvency /\ [Next]_vars => Solvency'
<1> SUFFICES ASSUME IInv, IInv', Solvency, [Next]_vars PROVE Solvency'
  OBVIOUS
<1>1. TypeOK /\ TypeOK'
  BY DEF IInv
<1>2. ASSUME NEW caller \in Account, NEW v \in VaultId, NEW quorumMet \in BOOLEAN,
             \/ CheckIn(caller, v) \/ OwnerOverride(caller, v) \/ GuardianHalt(caller, v)
             \/ MarkWarning(v) \/ RequestAttestation(v)
             \/ SubmitQuorumResult(caller, v, quorumMet)
             \/ SubmitVerifiedAttestation(caller, v)
             \/ \E hash \in LegalDoc : AnchorLegalDoc(caller, v, hash)
      PROVE  Solvency'
  <2>1. /\ OthersKept(v) /\ IdentityKept(v)
        /\ vaults'[v].balance = vaults[v].balance
        /\ UNCHANGED token
    BY <1>1, <1>2, MoveEffect
  <2>2. \A w \in VaultId : /\ vaults'[w].balance = vaults[w].balance
                           /\ vaults'[w].fundingAsset = vaults[w].fundingAsset
    BY <2>1 DEF OthersKept, IdentityKept
  <2>3. QED
    BY <1>1, <2>1, <2>2, UnfundedSolvent
<1>3. CASE AdminStep \/ Tick \/ UNCHANGED vars
  <2>1. vaults' = vaults /\ token' = token
    BY <1>3 DEF AdminStep, SetFdcVerifier, SetQuorumThreshold, Tick, registryVars, vars
  <2>2. QED
    BY <1>1, <2>1, UnfundedSolvent
<1>4. CASE OwnerStep
  BY <1>2, <1>4, CreateSolvent, FundsSolvent DEF OwnerStep
<1>5. CASE GuardianStep
  BY <1>2, <1>5 DEF GuardianStep
<1>6. CASE OracleStep
  BY <1>2, <1>6 DEF OracleStep
<1>7. CASE VerifierStep
  BY <1>2, <1>7 DEF VerifierStep
<1>8. CASE KeeperStep
  <2>1. Admin \in Account
    BY RegistryAssumption
  <2>2. QED
    BY <1>2, <1>8, <2>1, FundsSolvent DEF KeeperStep
<1>9. QED
  BY <1>3, <1>4, <1>5, <1>6, <1>7, <1>8 DEF Next

\* The contract holds the tokens it owes to its vaults, over any order of calls.
THEOREM StaysSolvent == Spec => []Solvency
<1>1. QED
  BY InitSolvent, NextSolvent, InvariantHolds, PTL DEF Spec

\* A solvent registry can pay back what it credits to one vault.
LEMMA CanRefund ==
    ASSUME TypeOK, Solvency, NEW v \in VaultId, vaults[v].fundingAsset \in Asset \ LenientAsset
    PROVE  token[vaults[v].fundingAsset][Registry] >= vaults[v].balance
<1> DEFINE a == vaults[v].fundingAsset
           f == Credited(a)
<1>1. f \in [1..MaxVaultId -> Nat] /\ f[v] = vaults[v].balance
  BY TimingNat DEF Credited, VaultId
<1>2. Total(f, MaxVaultId) <= token[a][Registry]
  BY DEF Solvency
<1>3. token[a][Registry] \in Nat /\ MaxVaultId \in Nat /\ v \in 1..MaxVaultId
  BY RegistryAssumption DEF TypeOK, Holder, VaultId
<1> HIDE DEF f
<1>4. Total(f, MaxVaultId) \in Nat /\ f[v] <= Total(f, MaxVaultId) /\ f[v] \in Nat
  BY <1>1, <1>3, TotalNat
<1>5. QED
  BY <1>1, <1>2, <1>3, <1>4

\* A cancellation is never short of money: whatever the other vaults of an asset have
\* been through, the contract holds what it credits to each one of them.
THEOREM EveryVaultIsCovered ==
    Spec => [](\A v \in VaultId : vaults[v].fundingAsset \in Asset \ LenientAsset =>
                   token[vaults[v].fundingAsset][Registry] >= vaults[v].balance)
<1>1. TypeOK /\ Solvency =>
        \A v \in VaultId : vaults[v].fundingAsset \in Asset \ LenientAsset =>
            token[vaults[v].fundingAsset][Registry] >= vaults[v].balance
  BY CanRefund
<1>2. QED
  BY <1>1, TypeCorrect, StaysSolvent, PTL

-----------------------------------------------------------------------------
(* What no step may do.                                                    *)

\* A step on one vault leaves the record and the totals of the others alone; what
\* creation fixed is kept by every step but a creation, which has an id of its own.
LEMMA VaultStep ==
    ASSUME IInv, NEW caller \in Account, NEW w \in VaultId,
           \/ \E quorumMet \in BOOLEAN : SubmitQuorumResult(caller, w, quorumMet)
           \/ \E hash \in LegalDoc : AnchorLegalDoc(caller, w, hash)
           \/ \E amount \in Amount : FundVault(caller, w, amount)
           \/ CheckIn(caller, w) \/ OwnerOverride(caller, w) \/ GuardianHalt(caller, w)
           \/ CancelVault(caller, w) \/ SubmitVerifiedAttestation(caller, w)
           \/ MarkWarning(w) \/ RequestAttestation(w)
           \/ FinalizeDisputeWindow(w) \/ FinalizeFinalWindow(w)
    PROVE  /\ OthersKept(w) /\ IdentityKept(w)
           /\ \A v \in VaultId \ {w} : ledger'[v] = ledger[v]
<1>1. TypeOK /\ IdentityOf(w)
  BY DEF IInv, Sound
<1>2. CASE \E amount \in Amount : FundVault(caller, w, amount)
  BY <1>1, <1>2, FundEffect
<1>3. CASE CancelVault(caller, w)
  BY <1>1, <1>3, CancelEffect
<1>4. CASE FinalizeDisputeWindow(w)
  BY <1>1, <1>4, FinalizeDisputeEffect
<1>5. CASE FinalizeFinalWindow(w)
  BY <1>1, <1>5, FinalizeFinalEffect
<1>6. ASSUME NEW quorumMet \in BOOLEAN,
             \/ CheckIn(caller, w) \/ OwnerOverride(caller, w) \/ GuardianHalt(caller, w)
             \/ MarkWarning(w) \/ RequestAttestation(w)
             \/ SubmitQuorumResult(caller, w, quorumMet)
             \/ SubmitVerifiedAttestation(caller, w)
             \/ \E hash \in LegalDoc : AnchorLegalDoc(caller, w, hash)
      PROVE  OthersKept(w) /\ IdentityKept(w) /\ ledger' = ledger
  BY <1>1, <1>6, MoveEffect
<1>7. QED
  BY <1>2, <1>3, <1>4, <1>5, <1>6

\* Every step is a creation, a step on one vault, or leaves all vaults alone.
LEMMA StepKinds ==
    ASSUME [Next]_vars
    PROVE  \/ vaults' = vaults /\ ledger' = ledger /\ nextVaultId' = nextVaultId
           \/ \E caller \in Account, plan \in PlanHash, asset \in Asset,
                 timing \in Timing, guardian \in GuardianKey :
                 CreateVault(caller, plan, asset, timing, guardian)
           \/ \E caller \in Account, w \in VaultId :
                 \/ \E quorumMet \in BOOLEAN : SubmitQuorumResult(caller, w, quorumMet)
                 \/ \E hash \in LegalDoc : AnchorLegalDoc(caller, w, hash)
                 \/ \E amount \in Amount : FundVault(caller, w, amount)
                 \/ CheckIn(caller, w) \/ OwnerOverride(caller, w)
                 \/ GuardianHalt(caller, w)
                 \/ CancelVault(caller, w) \/ SubmitVerifiedAttestation(caller, w)
                 \/ MarkWarning(w) \/ RequestAttestation(w)
                 \/ FinalizeDisputeWindow(w) \/ FinalizeFinalWindow(w)
<1>1. CASE AdminStep \/ Tick \/ UNCHANGED vars
  BY <1>1 DEF AdminStep, SetFdcVerifier, SetQuorumThreshold, Tick, registryVars, vars
<1>2. CASE OwnerStep
  BY <1>2 DEF OwnerStep
<1>3. CASE GuardianStep
  BY <1>3 DEF GuardianStep
<1>4. CASE OracleStep
  BY <1>4 DEF OracleStep
<1>5. CASE VerifierStep
  BY <1>5 DEF VerifierStep
<1>6. CASE KeeperStep
  <2>1. Admin \in Account
    BY RegistryAssumption
  <2>2. QED
    BY <1>6, <2>1 DEF KeeperStep
<1>7. QED
  BY <1>1, <1>2, <1>3, <1>4, <1>5, <1>6 DEF Next

\* No step changes what createVault wrote for an id.
LEMMA StepKeepsConfig ==
    ASSUME IInv, [Next]_vars, NEW v \in VaultId, v < nextVaultId
    PROVE  IdentityKept(v)
<1>1. CASE vaults' = vaults
  BY <1>1 DEF IdentityKept
<1>2. ASSUME NEW caller \in Account, NEW plan \in PlanHash, NEW asset \in Asset,
             NEW timing \in Timing, NEW guardian \in GuardianKey,
             CreateVault(caller, plan, asset, timing, guardian)
      PROVE  IdentityKept(v)
  <2>1. OthersKept(nextVaultId) /\ v # nextVaultId
    BY <1>2, CreateEffect DEF IInv, TypeOK, VaultId
  <2>2. QED
    BY <2>1 DEF OthersKept, IdentityKept
<1>3. ASSUME NEW w \in VaultId, OthersKept(w), IdentityKept(w)
      PROVE  IdentityKept(v)
  BY <1>3 DEF OthersKept, IdentityKept
<1>4. QED
  BY <1>1, <1>2, <1>3, StepKinds, VaultStep

\* No later creation takes over an id and no call re-targets a vault: what its
\* owner committed to at creation is what is executed.
THEOREM ConfigNeverChanges == Spec => ConfigFixed
<1> DEFINE Kept == \A v \in VaultId : v < nextVaultId =>
                       /\ vaults'[v].owner = vaults[v].owner
                       /\ vaults'[v].planCommitmentHash = vaults[v].planCommitmentHash
                       /\ vaults'[v].fundingAsset = vaults[v].fundingAsset
                       /\ vaults'[v].timing = vaults[v].timing
                       /\ vaults'[v].guardianHaltKey = vaults[v].guardianHaltKey
<1>1. IInv /\ [Next]_vars => [Kept]_vars
  BY StepKeepsConfig DEF IdentityKept
<1>2. QED
  BY <1>1, InvariantHolds, PTL DEF Spec, ConfigFixed

\* No step moves a vault that is over.
LEMMA FinishedStays ==
    ASSUME IInv, [Next]_vars, NEW v \in VaultId, v < nextVaultId,
           vaults[v].state \in {"FULLY_RELEASED", "CLOSED"}
    PROVE  /\ vaults'[v].state = vaults[v].state
           /\ vaults'[v].balance = vaults[v].balance
           /\ ledger'[v] = ledger[v]
<1> DEFINE Done == /\ vaults'[v].state = vaults[v].state
                   /\ vaults'[v].balance = vaults[v].balance
                   /\ ledger'[v] = ledger[v]
<1>1. CASE vaults' = vaults /\ ledger' = ledger
  BY <1>1
<1>2. ASSUME NEW caller \in Account, NEW plan \in PlanHash, NEW asset \in Asset,
             NEW timing \in Timing, NEW guardian \in GuardianKey,
             CreateVault(caller, plan, asset, timing, guardian)
      PROVE  Done
  <2>1. OthersKept(nextVaultId) /\ v # nextVaultId
    BY <1>2, CreateEffect DEF IInv, TypeOK, VaultId
  <2>2. ledger' = ledger
    BY <1>2 DEF CreateVault
  <2>3. QED
    BY <2>1, <2>2 DEF OthersKept
<1>3. ASSUME NEW caller \in Account, NEW w \in VaultId,
             \/ \E quorumMet \in BOOLEAN : SubmitQuorumResult(caller, w, quorumMet)
             \/ \E hash \in LegalDoc : AnchorLegalDoc(caller, w, hash)
             \/ \E amount \in Amount : FundVault(caller, w, amount)
             \/ CheckIn(caller, w) \/ OwnerOverride(caller, w) \/ GuardianHalt(caller, w)
             \/ CancelVault(caller, w) \/ SubmitVerifiedAttestation(caller, w)
             \/ MarkWarning(w) \/ RequestAttestation(w)
             \/ FinalizeDisputeWindow(w) \/ FinalizeFinalWindow(w)
      PROVE  Done
  <2>1. CASE w # v
    BY <1>3, <2>1, VaultStep DEF OthersKept
  <2>2. CASE w = v
    \* Of the calls that concern the vault itself only two do not look at the state
    \* first, and neither writes it.
    <3>1. CASE \E hash \in LegalDoc : AnchorLegalDoc(caller, v, hash)
      BY <3>1, AnchorEffect DEF IInv, AnchorLegalDoc
    <3>2. CASE SubmitVerifiedAttestation(caller, v)
      BY <3>2 DEF SubmitVerifiedAttestation
    <3>3. QED
      BY <1>3, <2>2, <3>1, <3>2
      DEF SubmitQuorumResult, FundVault, CheckIn, OwnerOverride, GuardianHalt,
          CancelVault, MarkWarning, RequestAttestation, FinalizeDisputeWindow,
          FinalizeFinalWindow
  <2>3. QED
    BY <2>1, <2>2
<1>4. QED
  BY <1>1, <1>2, <1>3, StepKinds

\* A released or cancelled vault holds nothing and is never moved again.
THEOREM TerminalStays == Spec => TerminalIsFinal
<1> DEFINE Over == \A v \in VaultId :
                      v < nextVaultId /\ vaults[v].state \in {"FULLY_RELEASED", "CLOSED"} =>
                         /\ vaults[v].balance = 0
                         /\ vaults'[v].state = vaults[v].state
                         /\ vaults'[v].balance = 0
                         /\ ledger'[v] = ledger[v]
<1>1. IInv /\ [Next]_vars => [Over]_vars
  BY FinishedStays DEF IInv, Sound, FundsOf
<1>2. QED
  BY <1>1, InvariantHolds, PTL DEF Spec, TerminalIsFinal
=============================================================================
