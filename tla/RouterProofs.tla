---------------------------- MODULE RouterProofs ----------------------------
(***************************************************************************)
(* The custody account of registry and router together, for any number of  *)
(* vaults, assets, accounts and amounts.                                   *)
(***************************************************************************)
EXTENDS FAssetsRouter, VaultRegistryProofs

-----------------------------------------------------------------------------
(* The inductive invariant: the registry's, the router's own types, and    *)
(* that nothing was released from an id before a vault was created there.  *)

RouterTypeOK == routed \in [VaultId \X Asset -> Nat] /\ donated \in [Asset -> Nat]

UnbornReleasedNothing ==
    \A v \in VaultId : ~(v < nextVaultId) => ledger[v].released = 0

RouterInv == IInv /\ RouterTypeOK /\ UnbornReleasedNothing /\ CustodyExplained

\* The three sums are over natural numbers.
LEMMA CustodyTyped ==
    ASSUME TypeOK, RouterTypeOK, NEW a \in Asset
    PROVE  /\ Credited(a) \in [VaultId -> Nat]
           /\ ReleasedFrom(a) \in [VaultId -> Nat]
           /\ RoutedTo(a) \in [VaultId -> Nat]
           /\ token[a][Registry] \in Nat /\ donated[a] \in Nat
<1>1. \A v \in VaultId : /\ vaults[v].balance \in Nat
                         /\ ledger[v].released \in Nat
                         /\ routed[<<v, a>>] \in Nat
  <2> SUFFICES ASSUME NEW v \in VaultId
               PROVE  /\ vaults[v].balance \in Nat
                      /\ ledger[v].released \in Nat
                      /\ routed[<<v, a>>] \in Nat
    OBVIOUS
  <2>1. ledger[v] \in Ledger
    BY DEF TypeOK
  <2>2. routed[<<v, a>>] \in Nat
    BY DEF RouterTypeOK
  <2>3. QED
    BY <2>1, <2>2, TimingNat DEF Ledger
<1>2. token[a][Registry] \in Nat /\ donated[a] \in Nat
  BY DEF TypeOK, Holder, RouterTypeOK
<1>3. QED
  BY <1>1, <1>2 DEF Credited, ReleasedFrom, RoutedTo

\* A sum over the vaults whose term changes at one of them.
LEMMA OneTermChanges ==
    ASSUME NEW f \in [VaultId -> Nat], NEW g \in [VaultId -> Nat], NEW v \in VaultId,
           \A w \in VaultId \ {v} : g[w] = f[w]
    PROVE  /\ Total(g, MaxVaultId) = Total(f, MaxVaultId) - f[v] + g[v]
           /\ Total(f, MaxVaultId) \in Nat /\ Total(g, MaxVaultId) \in Nat
           /\ f[v] \in Nat /\ g[v] \in Nat
<1>1. g = [f EXCEPT ![v] = g[v]]
  OBVIOUS
<1>2. /\ MaxVaultId \in Nat /\ f \in [1..MaxVaultId -> Nat] /\ g \in [1..MaxVaultId -> Nat]
      /\ v \in 1..MaxVaultId
  BY RegistryAssumption DEF VaultId
<1>3. f \in [1..MaxVaultId -> Int] /\ g[v] \in Int
  BY <1>2
<1>4. Total([f EXCEPT ![v] = g[v]], MaxVaultId) = Total(f, MaxVaultId) - f[v] + g[v]
  BY <1>2, <1>3, TotalUpdate
<1>5. Total(f, MaxVaultId) \in Nat /\ Total(g, MaxVaultId) \in Nat
  BY <1>2, TotalNat
<1>6. QED
  BY <1>1, <1>4, <1>5

\* Custody stays explained when one vault's terms and the tokens move together.
LEMMA CustodyMoves ==
    ASSUME RouterInv, TypeOK', RouterTypeOK', UNCHANGED donated, NEW v \in VaultId,
           OthersKept(v), \A w \in VaultId \ {v} : ledger'[w] = ledger[w],
           NEW a \in Asset \ LenientAsset,
           \A w \in VaultId \ {v} : routed'[<<w, a>>] = routed[<<w, a>>],
           token'[a][Registry] - token[a][Registry] =
               (Credited(a)'[v] - Credited(a)[v])
               + (ReleasedFrom(a)'[v] - ReleasedFrom(a)[v])
               + (RoutedTo(a)'[v] - RoutedTo(a)[v])
    PROVE  token'[a][Registry] = Total(Credited(a), MaxVaultId)'
                                     + Total(ReleasedFrom(a), MaxVaultId)'
                                     + Total(RoutedTo(a), MaxVaultId)'
                                     + donated'[a]
<1> DEFINE c == Credited(a)
           r == ReleasedFrom(a)
           t == RoutedTo(a)
           C == Credited(a)'
           R == ReleasedFrom(a)'
           T == RoutedTo(a)'
<1>1. /\ c \in [VaultId -> Nat] /\ r \in [VaultId -> Nat] /\ t \in [VaultId -> Nat]
      /\ token[a][Registry] \in Nat /\ donated[a] \in Nat
  BY CustodyTyped DEF RouterInv, IInv
<1>2. /\ C \in [VaultId -> Nat] /\ R \in [VaultId -> Nat] /\ T \in [VaultId -> Nat]
      /\ token'[a][Registry] \in Nat
  <2>1. \A w \in VaultId : /\ vaults'[w].balance \in Nat
                           /\ ledger'[w].released \in Nat
                           /\ routed'[<<w, a>>] \in Nat
    BY DEF TypeOK, RouterTypeOK, Vault, Ledger
  <2>2. token'[a][Registry] \in Nat
    BY DEF TypeOK, Holder
  <2>3. QED
    BY <2>1, <2>2 DEF Credited, ReleasedFrom, RoutedTo
<1>3. \A w \in VaultId \ {v} : C[w] = c[w] /\ R[w] = r[w] /\ T[w] = t[w]
  BY DEF Credited, ReleasedFrom, RoutedTo, OthersKept
<1>4. token[a][Registry] =
          Total(c, MaxVaultId) + Total(r, MaxVaultId) + Total(t, MaxVaultId) + donated[a]
  BY DEF RouterInv, CustodyExplained
<1>5. token'[a][Registry] - token[a][Registry] = (C[v] - c[v]) + (R[v] - r[v]) + (T[v] - t[v])
  OBVIOUS
<1> HIDE DEF c, r, t, C, R, T
<1>6. /\ Total(C, MaxVaultId) = Total(c, MaxVaultId) - c[v] + C[v]
      /\ Total(c, MaxVaultId) \in Nat /\ c[v] \in Nat /\ C[v] \in Nat
  BY <1>1, <1>2, <1>3, OneTermChanges
<1>7. /\ Total(R, MaxVaultId) = Total(r, MaxVaultId) - r[v] + R[v]
      /\ Total(r, MaxVaultId) \in Nat /\ r[v] \in Nat /\ R[v] \in Nat
  BY <1>1, <1>2, <1>3, OneTermChanges
<1>8. /\ Total(T, MaxVaultId) = Total(t, MaxVaultId) - t[v] + T[v]
      /\ Total(t, MaxVaultId) \in Nat /\ t[v] \in Nat /\ T[v] \in Nat
  BY <1>1, <1>2, <1>3, OneTermChanges
<1>9. token'[a][Registry] =
          Total(C, MaxVaultId) + Total(R, MaxVaultId) + Total(T, MaxVaultId) + donated[a]
  BY <1>1, <1>2, <1>4, <1>5, <1>6, <1>7, <1>8
<1>10. QED
  BY <1>9 DEF C, R, T

\* One vault's terms, before and after a step that keeps its asset.
LEMMA TermsOf ==
    ASSUME NEW v \in VaultId, NEW a \in Asset
    PROVE  /\ Credited(a)[v] = (IF vaults[v].fundingAsset = a THEN vaults[v].balance ELSE 0)
           /\ Credited(a)'[v] =
                  (IF vaults'[v].fundingAsset = a THEN vaults'[v].balance ELSE 0)
           /\ ReleasedFrom(a)[v] =
                  (IF vaults[v].fundingAsset = a THEN ledger[v].released ELSE 0)
           /\ ReleasedFrom(a)'[v] =
                  (IF vaults'[v].fundingAsset = a THEN ledger'[v].released ELSE 0)
           /\ RoutedTo(a)[v] = routed[<<v, a>>]
           /\ RoutedTo(a)'[v] = routed'[<<v, a>>]
BY DEF Credited, ReleasedFrom, RoutedTo

-----------------------------------------------------------------------------
(* Every step of the two contracts keeps custody explained.                *)

\* The account starts empty.
LEMMA RouterInitHolds == Init /\ RouterInit => RouterInv
<1> SUFFICES ASSUME Init, RouterInit PROVE RouterInv
  OBVIOUS
<1>1. IInv /\ RouterTypeOK
  BY InitSound DEF RouterInit, RouterTypeOK
<1>2. \A v \in VaultId : ledger[v].released = 0 /\ vaults[v].balance = 0
  BY DEF Init, ZeroVault
<1>3. UnbornReleasedNothing
  BY <1>2 DEF UnbornReleasedNothing
<1>4. ASSUME NEW a \in Asset
      PROVE  token[a][Registry] = Total(Credited(a), MaxVaultId)
                 + Total(ReleasedFrom(a), MaxVaultId) + Total(RoutedTo(a), MaxVaultId)
                 + donated[a]
  <2> DEFINE zero == [v \in 1..MaxVaultId |-> 0]
  <2>1. Credited(a) = zero /\ ReleasedFrom(a) = zero /\ RoutedTo(a) = zero
    BY <1>2 DEF Credited, ReleasedFrom, RoutedTo, RouterInit, VaultId
  <2>2. Total(zero, MaxVaultId) = 0
    BY TotalZero, RegistryAssumption
  <2>3. token[a][Registry] = 0 /\ donated[a] = 0
    BY DEF Init, Holder, RouterInit
  <2> HIDE DEF zero
  <2>4. QED
    BY <2>1, <2>2, <2>3
<1>5. QED
  BY <1>1, <1>3, <1>4 DEF RouterInv, CustodyExplained

\* The steps that leave tokens, balances and tranches alone.
LEMMA QuietHolds ==
    ASSUME RouterInv, IInv', UNCHANGED <<token, routed, donated, ledger>>,
           \A v \in VaultId : /\ vaults'[v].balance = vaults[v].balance
                              /\ vaults'[v].fundingAsset = vaults[v].fundingAsset,
           nextVaultId' >= nextVaultId, nextVaultId' \in Nat
    PROVE  RouterInv'
<1>1. RouterTypeOK'
  BY DEF RouterInv, RouterTypeOK
<1>2. UnbornReleasedNothing'
  BY DEF RouterInv, UnbornReleasedNothing, IInv, TypeOK, VaultId
<1>3. ASSUME NEW a \in Asset
      PROVE  /\ Credited(a)' = Credited(a) /\ ReleasedFrom(a)' = ReleasedFrom(a)
             /\ RoutedTo(a)' = RoutedTo(a)
  BY DEF Credited, ReleasedFrom, RoutedTo
<1>4. CustodyExplained'
  BY <1>3 DEF RouterInv, CustodyExplained
<1>5. QED
  BY <1>1, <1>2, <1>4 DEF RouterInv

\* createVault gives an asset to an id that holds nothing and released nothing.
LEMMA CreateCustody ==
    ASSUME RouterInv, IInv', UNCHANGED <<routed, donated>>, NEW caller \in Account,
           NEW plan \in PlanHash, NEW asset \in Asset, NEW timing \in Timing,
           NEW guardian \in GuardianKey,
           CreateVault(caller, plan, asset, timing, guardian)
    PROVE  RouterInv'
<1> PICK v \in VaultId : v = nextVaultId
  BY CreateEffect DEF RouterInv, IInv
<1>1. nextVaultId \in Nat /\ nextVaultId' = nextVaultId + 1
  BY DEF RouterInv, IInv, TypeOK, CreateVault
<1>2. /\ vaults[v].balance = 0 /\ vaults'[v].balance = 0 /\ OthersKept(v)
      /\ ledger[v].released = 0
  BY <1>1, CreateEffect
  DEF RouterInv, IInv, Sound, IdentityOf, UnbornReleasedNothing
<1>3. UNCHANGED <<token, ledger>>
  BY DEF CreateVault
<1>4. UnbornReleasedNothing' /\ RouterTypeOK'
  BY <1>1, <1>3 DEF RouterInv, UnbornReleasedNothing, RouterTypeOK, VaultId
<1>5. ASSUME NEW a \in Asset
      PROVE  /\ Credited(a)' = Credited(a) /\ ReleasedFrom(a)' = ReleasedFrom(a)
             /\ RoutedTo(a)' = RoutedTo(a)
  <2>1. \A w \in VaultId :
           /\ (IF vaults'[w].fundingAsset = a THEN vaults'[w].balance ELSE 0)
              = (IF vaults[w].fundingAsset = a THEN vaults[w].balance ELSE 0)
           /\ (IF vaults'[w].fundingAsset = a THEN ledger'[w].released ELSE 0)
              = (IF vaults[w].fundingAsset = a THEN ledger[w].released ELSE 0)
    BY <1>2, <1>3 DEF OthersKept
  <2>2. QED
    BY <2>1 DEF Credited, ReleasedFrom, RoutedTo
<1>6. CustodyExplained'
  BY <1>3, <1>5 DEF RouterInv, CustodyExplained
<1>7. QED
  BY <1>4, <1>6 DEF RouterInv

\* Deposits and refunds move balance and tokens, tranches move balance to what was
\* released.
LEMMA FundsCustody ==
    ASSUME RouterInv, IInv', UNCHANGED <<routed, donated>>, NEW caller \in Account, NEW v \in VaultId,
           \/ \E amount \in Amount : FundVault(caller, v, amount)
           \/ CancelVault(caller, v)
           \/ FinalizeDisputeWindow(v)
           \/ FinalizeFinalWindow(v)
    PROVE  RouterInv'
<1>1. TypeOK /\ IdentityOf(v) /\ TypeOK' /\ RouterTypeOK /\ RouterTypeOK'
  BY DEF RouterInv, IInv, Sound, RouterTypeOK
<1>2. /\ OthersKept(v) /\ \A w \in VaultId \ {v} : ledger'[w] = ledger[w]
      /\ vaults'[v].fundingAsset = vaults[v].fundingAsset
  BY VaultStep DEF RouterInv, IdentityKept
<1>3. nextVaultId' = nextVaultId
  BY DEF FundVault, CancelVault, FinalizeDisputeWindow, FinalizeFinalWindow
<1>4. /\ vaults[v].balance \in Nat /\ ledger[v].released \in Nat
      /\ \A a \in Asset : token[a][Registry] \in Nat
  <2>1. vaults[v].balance \in Nat
    BY <1>1, TimingNat
  <2>2. QED
    BY <1>1, <2>1, CustodyTyped DEF TypeOK, Ledger
<1> DEFINE Together ==
               \A a \in Asset \ LenientAsset :
                   token'[a][Registry] - token[a][Registry] =
                       IF vaults[v].fundingAsset = a
                       THEN (vaults'[v].balance - vaults[v].balance)
                                + (ledger'[v].released - ledger[v].released)
                       ELSE 0
           Unborn == ~(v < nextVaultId) => ledger'[v].released = 0
\* Tokens, balance and what was released move together.
<1>5. Together /\ Unborn
  <2>1. ASSUME NEW amount \in Amount, FundVault(caller, v, amount) PROVE Together /\ Unborn
    <3>1. /\ vaults'[v].balance = vaults[v].balance + amount
          /\ ledger'[v].released = ledger[v].released /\ amount \in Nat
          /\ \A a \in Asset \ LenientAsset :
                token'[a][Registry] = token[a][Registry] +
                    (IF vaults[v].fundingAsset = a THEN amount ELSE 0)
      BY <1>1, <2>1, FundEffect, RegistryAssumption
    <3>2. QED
      BY <1>4, <3>1 DEF RouterInv, UnbornReleasedNothing
  <2>2. CASE CancelVault(caller, v)
    <3>1. /\ vaults'[v].balance = 0
          /\ ledger'[v].released = ledger[v].released
          /\ \A a \in Asset \ LenientAsset :
                token'[a][Registry] = token[a][Registry] -
                    (IF vaults[v].fundingAsset = a THEN vaults[v].balance ELSE 0)
      BY <1>1, <2>2, CancelEffect
    <3>2. QED
      BY <1>4, <3>1 DEF RouterInv, UnbornReleasedNothing
  <2>3. ASSUME NEW n \in Nat,
               \/ FinalizeDisputeWindow(v) /\ n = vaults[v].balance \div 2
               \/ FinalizeFinalWindow(v) /\ n = vaults[v].balance
        PROVE  Together /\ Unborn
    <3>1. /\ vaults'[v].balance = vaults[v].balance - n
          /\ ledger'[v].released = ledger[v].released + n
      BY <1>1, <1>4, <2>3, FinalizeDisputeEffect, FinalizeFinalEffect
    <3>2. token' = token
      BY <2>3 DEF FinalizeDisputeWindow, FinalizeFinalWindow
    <3>3. ~(v < nextVaultId) => n = 0 /\ ledger[v].released = 0
      BY <1>1, <2>3 DEF IdentityOf, RouterInv, UnbornReleasedNothing
    <3>4. QED
      BY <1>4, <3>1, <3>2, <3>3
  <2>4. vaults[v].balance \div 2 \in Nat
    BY <1>4, HalfNat
  <2>5. QED
    BY <1>4, <2>1, <2>2, <2>3, <2>4
<1>6. UnbornReleasedNothing'
  <2> SUFFICES ASSUME NEW w \in VaultId, ~(w < nextVaultId)
               PROVE  ledger'[w].released = 0
    BY <1>3 DEF UnbornReleasedNothing
  <2>1. CASE w = v
    BY <1>5, <2>1
  <2>2. CASE w # v
    BY <1>2, <2>2 DEF RouterInv, UnbornReleasedNothing
  <2>3. QED
    BY <2>1, <2>2
<1>7. ASSUME NEW a \in Asset \ LenientAsset
      PROVE  token'[a][Registry] = Total(Credited(a), MaxVaultId)'
                                       + Total(ReleasedFrom(a), MaxVaultId)'
                                       + Total(RoutedTo(a), MaxVaultId)'
                                       + donated'[a]
  <2>1. routed[<<v, a>>] \in Nat /\ routed' = routed
    BY <1>1 DEF RouterTypeOK
  <2>2. vaults'[v].balance \in Nat /\ ledger'[v].released \in Nat
    BY <1>1 DEF TypeOK, Vault, Ledger
  <2>3. token'[a][Registry] - token[a][Registry] =
            (Credited(a)'[v] - Credited(a)[v])
            + (ReleasedFrom(a)'[v] - ReleasedFrom(a)[v])
            + (RoutedTo(a)'[v] - RoutedTo(a)[v])
    <3>1. /\ routed'[<<v, a>>] - routed[<<v, a>>] = 0
          /\ vaults[v].balance \in Nat /\ ledger[v].released \in Nat
          /\ RoutedTo(a)'[v] - RoutedTo(a)[v] = 0
      BY <1>4, <2>1, TermsOf
    <3>2. CASE vaults[v].fundingAsset = a
      <4>1. /\ Credited(a)'[v] = vaults'[v].balance /\ Credited(a)[v] = vaults[v].balance
            /\ ReleasedFrom(a)'[v] = ledger'[v].released
            /\ ReleasedFrom(a)[v] = ledger[v].released
        BY <1>2, <3>2, TermsOf
      <4>2. token'[a][Registry] - token[a][Registry] =
                (vaults'[v].balance - vaults[v].balance)
                + (ledger'[v].released - ledger[v].released)
        BY <1>5, <3>2
      <4>3. QED
        BY <2>2, <3>1, <4>1, <4>2
    <3>3. CASE vaults[v].fundingAsset # a
      <4>1. /\ Credited(a)'[v] = 0 /\ Credited(a)[v] = 0
            /\ ReleasedFrom(a)'[v] = 0 /\ ReleasedFrom(a)[v] = 0
        BY <1>2, <3>3, TermsOf
      <4>2. token'[a][Registry] - token[a][Registry] = 0
        BY <1>5, <3>3
      <4>3. QED
        BY <3>1, <4>1, <4>2
    <3>4. QED
      BY <3>2, <3>3
  <2>4. QED
    BY <1>1, <1>2, <2>1, <2>3, CustodyMoves
<1>8. QED
  BY <1>1, <1>6, <1>7 DEF RouterInv, CustodyExplained

\* Every step of the registry keeps custody explained.
LEMMA NextCustody ==
    ASSUME RouterInv, Next, UNCHANGED routerVars
    PROVE  RouterInv'
<1>1. IInv /\ IInv' /\ UNCHANGED <<routed, donated>>
  BY NextSound DEF RouterInv, routerVars
<1>2. nextVaultId \in Nat /\ nextVaultId' \in Nat
  BY <1>1 DEF IInv, TypeOK
<1>3. ASSUME NEW caller \in Account, NEW w \in VaultId, NEW quorumMet \in BOOLEAN,
             \/ CheckIn(caller, w) \/ OwnerOverride(caller, w) \/ GuardianHalt(caller, w)
             \/ MarkWarning(w) \/ RequestAttestation(w)
             \/ SubmitQuorumResult(caller, w, quorumMet)
             \/ SubmitVerifiedAttestation(caller, w)
             \/ \E hash \in LegalDoc : AnchorLegalDoc(caller, w, hash)
      PROVE  RouterInv'
  <2>1. /\ OthersKept(w) /\ IdentityKept(w)
        /\ vaults'[w].balance = vaults[w].balance
        /\ UNCHANGED <<nextVaultId, token, now, ledger>>
    BY <1>1, <1>3, MoveEffect DEF IInv
  <2>2. \A v \in VaultId : /\ vaults'[v].balance = vaults[v].balance
                           /\ vaults'[v].fundingAsset = vaults[v].fundingAsset
    BY <2>1 DEF OthersKept, IdentityKept
  <2>3. QED
    BY <1>1, <1>2, <2>1, <2>2, QuietHolds
<1>4. CASE AdminStep \/ Tick
  <2>1. UNCHANGED <<vaults, token, ledger, nextVaultId>>
    BY <1>4 DEF AdminStep, SetFdcVerifier, SetQuorumThreshold, Tick, registryVars
  <2>2. QED
    BY <1>1, <1>2, <2>1, QuietHolds
<1>5. CASE OwnerStep
  BY <1>1, <1>3, <1>5, CreateCustody, FundsCustody DEF OwnerStep
<1>6. CASE GuardianStep \/ OracleStep \/ VerifierStep
  BY <1>3, <1>6 DEF GuardianStep, OracleStep, VerifierStep
<1>7. CASE KeeperStep
  <2>1. Admin \in Account
    BY RegistryAssumption
  <2>2. QED
    BY <1>1, <1>3, <1>7, <2>1, FundsCustody DEF KeeperStep
<1>8. QED
  BY <1>4, <1>5, <1>6, <1>7 DEF Next

\* The router's calls leave the registry's own storage alone.
LEMMA RouterKeepsRegistry ==
    ASSUME IInv, UNCHANGED <<registryVars, now, ledger>>,
           token' \in [Asset -> [Holder -> Nat]]
    PROVE  IInv'
<1>1. TypeOK'
  BY DEF IInv, TypeOK, registryVars
<1>2. ASSUME NEW w \in VaultId PROVE Sound(w)'
  <2>1. /\ vaults'[w] = vaults[w] /\ ledger'[w] = ledger[w]
        /\ now' \in Nat /\ now' >= now /\ nextVaultId' = nextVaultId
    BY DEF registryVars, IInv, TypeOK
  <2>2. QED
    BY <2>1, UntouchedSound DEF IInv
<1>3. QED
  BY <1>1, <1>2 DEF IInv

\* What is routed is credited to no vault, but the account of it is kept.
LEMMA FundWithFAssetHolds ==
    ASSUME RouterInv, NEW caller \in Account, NEW v \in VaultId, NEW asset \in Asset,
           NEW amount \in Amount, FundWithFAsset(caller, v, asset, amount)
    PROVE  RouterInv'
<1>1. /\ Transfer(asset, caller, Registry, amount)
      /\ UNCHANGED <<registryVars, now, ledger>>
      /\ routed' = [routed EXCEPT ![<<v, asset>>] = routed[<<v, asset>>] + amount]
      /\ donated' = donated
  BY DEF FundWithFAsset
<1>2. /\ caller \in Holder /\ Registry \in Holder /\ caller # Registry
      /\ amount \in Nat /\ TypeOK /\ RouterTypeOK
  BY RegistryAssumption DEF Holder, RouterInv, IInv
<1>3. /\ token' \in [Asset -> [Holder -> Nat]]
      /\ asset \notin LenientAsset =>
             token'[asset][Registry] = token[asset][Registry] + amount
      /\ \A b \in Asset \ {asset} : token'[b] = token[b]
  BY <1>1, <1>2, TransferEffect
<1>4. IInv' /\ TypeOK'
  BY <1>1, <1>3, RouterKeepsRegistry DEF RouterInv, IInv
<1>5. routed[<<v, asset>>] \in Nat /\ <<v, asset>> \in VaultId \X Asset
  BY <1>2 DEF RouterTypeOK
<1>6. /\ RouterTypeOK'
      /\ routed'[<<v, asset>>] = routed[<<v, asset>>] + amount
      /\ \A w \in VaultId, a \in Asset :
            w # v \/ a # asset => routed'[<<w, a>>] = routed[<<w, a>>]
  BY <1>1, <1>2, <1>5 DEF RouterTypeOK
<1>7. UnbornReleasedNothing'
  BY <1>1 DEF RouterInv, UnbornReleasedNothing, registryVars
<1>8. ASSUME NEW a \in Asset \ LenientAsset
      PROVE  token'[a][Registry] = Total(Credited(a), MaxVaultId)'
                                       + Total(ReleasedFrom(a), MaxVaultId)'
                                       + Total(RoutedTo(a), MaxVaultId)'
                                       + donated'[a]
  <2>1. /\ OthersKept(v) /\ \A w \in VaultId \ {v} : ledger'[w] = ledger[w]
        /\ Credited(a)'[v] = Credited(a)[v] /\ ReleasedFrom(a)'[v] = ReleasedFrom(a)[v]
    BY <1>1 DEF registryVars, OthersKept, Credited, ReleasedFrom
  <2>2. /\ Credited(a)[v] \in Nat /\ ReleasedFrom(a)[v] \in Nat
        /\ token[a][Registry] \in Nat /\ routed[<<v, a>>] \in Nat
    BY <1>2, CustodyTyped DEF RouterTypeOK
  <2>3. token'[a][Registry] - token[a][Registry] = routed'[<<v, a>>] - routed[<<v, a>>]
    <3>1. CASE a = asset
      BY <1>2, <1>3, <1>6, <2>2, <3>1
    <3>2. CASE a # asset
      BY <1>3, <1>6, <2>2, <3>2
    <3>3. QED
      BY <3>1, <3>2
  <2>4. routed'[<<v, a>>] \in Nat /\ token'[a][Registry] \in Nat
    BY <1>2, <1>3, <1>6 DEF RouterTypeOK
  <2>5. token'[a][Registry] - token[a][Registry] =
            (Credited(a)'[v] - Credited(a)[v])
            + (ReleasedFrom(a)'[v] - ReleasedFrom(a)[v])
            + (RoutedTo(a)'[v] - RoutedTo(a)[v])
    BY <2>1, <2>2, <2>3, <2>4, TermsOf
  <2>6. QED
    BY <1>1, <1>4, <1>6, <2>1, <2>5, CustodyMoves
<1>9. QED
  BY <1>4, <1>6, <1>7, <1>8 DEF RouterInv, CustodyExplained

\* Redemption moves tokens between accounts, never the registry's.
LEMMA RedeemHolds ==
    ASSUME RouterInv, NEW caller \in Account, NEW v \in VaultId, NEW asset \in Asset,
           NEW amount \in Amount, RedeemToNative(caller, v, asset, amount)
    PROVE  RouterInv'
<1>1. /\ Transfer(asset, caller, Router, amount)
      /\ UNCHANGED <<routerVars, registryVars, now, ledger>>
  BY DEF RedeemToNative
<1>2. /\ caller \in Holder /\ Router \in Holder /\ Registry \in Holder
      /\ caller # Registry /\ Router # Registry
      /\ amount \in Nat /\ TypeOK
  BY RegistryAssumption, RouterAssumption DEF Holder, RouterInv, IInv
<1>3. /\ token' \in [Asset -> [Holder -> Nat]]
      /\ \A a \in Asset : token'[a][Registry] = token[a][Registry]
  <2>1. CASE caller # Router
    BY <1>1, <1>2, <2>1, TransferEffect
  <2>2. CASE caller = Router
    <3>1. token[asset] \in [Holder -> Nat]
      BY <1>2 DEF TypeOK
    <3>2. Paid(token[asset], caller, Router, amount) = token[asset]
      BY <1>2, <2>2, <3>1 DEF Paid
    <3>3. token' = token
      BY <1>1, <1>2, <3>2 DEF Transfer, TypeOK
    <3>4. QED
      BY <1>2, <3>3 DEF TypeOK
  <2>3. QED
    BY <2>1, <2>2
<1>4. IInv'
  BY <1>1, <1>3, RouterKeepsRegistry DEF RouterInv
<1>5. RouterTypeOK' /\ UnbornReleasedNothing'
  BY <1>1 DEF RouterInv, RouterTypeOK, UnbornReleasedNothing, routerVars, registryVars
<1>6. \A a \in Asset : /\ Credited(a)' = Credited(a) /\ ReleasedFrom(a)' = ReleasedFrom(a)
                       /\ RoutedTo(a)' = RoutedTo(a)
  BY <1>1 DEF Credited, ReleasedFrom, RoutedTo, routerVars, registryVars
<1>7. CustodyExplained'
  BY <1>1, <1>3, <1>6 DEF RouterInv, CustodyExplained, routerVars
<1>8. QED
  BY <1>4, <1>5, <1>7 DEF RouterInv

\* What is sent straight to the registry is credited to no vault either.
LEMMA TransferDirectlyHolds ==
    ASSUME RouterInv, NEW caller \in Account, NEW asset \in Asset,
           NEW amount \in Amount, TransferDirectly(caller, asset, amount)
    PROVE  RouterInv'
<1>1. /\ Transfer(asset, caller, Registry, amount)
      /\ UNCHANGED <<routed, registryVars, now, ledger>>
      /\ donated' = [donated EXCEPT ![asset] = donated[asset] + amount]
  BY DEF TransferDirectly
<1>2. /\ caller \in Holder /\ Registry \in Holder /\ caller # Registry
      /\ amount \in Nat /\ TypeOK /\ RouterTypeOK
  BY RegistryAssumption DEF Holder, RouterInv, IInv
<1>3. /\ token' \in [Asset -> [Holder -> Nat]]
      /\ asset \notin LenientAsset =>
             token'[asset][Registry] = token[asset][Registry] + amount
      /\ \A b \in Asset \ {asset} : token'[b] = token[b]
  BY <1>1, <1>2, TransferEffect
<1>4. IInv'
  BY <1>1, <1>3, RouterKeepsRegistry DEF RouterInv
<1>5. RouterTypeOK' /\ UnbornReleasedNothing'
  BY <1>1, <1>2 DEF RouterInv, RouterTypeOK, UnbornReleasedNothing, registryVars
<1>6. \A a \in Asset : /\ Credited(a)' = Credited(a) /\ ReleasedFrom(a)' = ReleasedFrom(a)
                       /\ RoutedTo(a)' = RoutedTo(a)
  BY <1>1 DEF Credited, ReleasedFrom, RoutedTo, registryVars
<1>7. ASSUME NEW a \in Asset \ LenientAsset
      PROVE  token'[a][Registry] = Total(Credited(a), MaxVaultId)'
                                       + Total(ReleasedFrom(a), MaxVaultId)'
                                       + Total(RoutedTo(a), MaxVaultId)'
                                       + donated'[a]
  <2>1. token[a][Registry] = Total(Credited(a), MaxVaultId)
                                 + Total(ReleasedFrom(a), MaxVaultId)
                                 + Total(RoutedTo(a), MaxVaultId) + donated[a]
    BY DEF RouterInv, CustodyExplained
  <2>2. /\ Total(Credited(a), MaxVaultId) \in Nat
        /\ Total(ReleasedFrom(a), MaxVaultId) \in Nat
        /\ Total(RoutedTo(a), MaxVaultId) \in Nat
        /\ donated[a] \in Nat
    BY <1>2, CustodyTyped, TotalNat, RegistryAssumption DEF VaultId
  <2>3. token'[a][Registry] - token[a][Registry] = donated'[a] - donated[a]
    BY <1>1, <1>2, <1>3, <2>2, CustodyTyped DEF RouterTypeOK
  <2>4. token'[a][Registry] \in Nat /\ donated'[a] \in Nat
    BY <1>2, <1>3, <1>5 DEF RouterTypeOK
  <2>5. /\ Total(Credited(a), MaxVaultId)' = Total(Credited(a), MaxVaultId)
        /\ Total(ReleasedFrom(a), MaxVaultId)' = Total(ReleasedFrom(a), MaxVaultId)
        /\ Total(RoutedTo(a), MaxVaultId)' = Total(RoutedTo(a), MaxVaultId)
    BY <1>6
  <2>6. token[a][Registry] \in Nat
    BY <1>2, CustodyTyped
  <2>7. QED
    BY <2>1, <2>2, <2>3, <2>4, <2>5, <2>6
<1>8. QED
  BY <1>4, <1>5, <1>7 DEF RouterInv, CustodyExplained

\* Every step of router or registry preserves the invariant.
LEMMA RouterNextHolds == RouterInv /\ [RouterNext]_<<vars, routerVars>> => RouterInv'
<1> SUFFICES ASSUME RouterInv, [RouterNext]_<<vars, routerVars>> PROVE RouterInv'
  OBVIOUS
<1>1. ASSUME UNCHANGED <<vars, routed, donated>> PROVE RouterInv'
  <2>1. IInv'
    BY <1>1, NextSound DEF RouterInv
  <2>2. /\ UNCHANGED <<token, routed, donated, ledger, vaults>>
        /\ nextVaultId' = nextVaultId /\ nextVaultId \in Nat
    BY <1>1 DEF vars, RouterInv, IInv, TypeOK
  <2>3. QED
    BY <2>1, <2>2, QuietHolds
<1>2. ASSUME NEW caller \in Account, NEW asset \in Asset, AllowlistFAsset(caller, asset)
      PROVE  RouterInv'
  BY <1>1, <1>2 DEF AllowlistFAsset
<1>3. QED
  BY <1>1, <1>2, NextCustody, FundWithFAssetHolds, RedeemHolds, TransferDirectlyHolds
  DEF RouterNext, routerVars

-----------------------------------------------------------------------------

\* Custody is accounted for to the unit whatever the router, the registry's callers and
\* those who send it tokens do, and redemption never draws on it.
THEOREM CustodyAccounted == RouterSpec => []CustodyExplained
<1>1. RouterInv => CustodyExplained
  BY DEF RouterInv
<1>2. QED
  BY <1>1, RouterInitHolds, RouterNextHolds, PTL DEF RouterSpec

\* Explained custody covers what is owed.
LEMMA ExplainedIsSolvent == RouterInv => Solvency
<1> SUFFICES ASSUME RouterInv, NEW a \in Asset \ LenientAsset
             PROVE  Total(Credited(a), MaxVaultId) <= token[a][Registry]
  BY DEF Solvency
<1>1. /\ Credited(a) \in [1..MaxVaultId -> Nat]
      /\ ReleasedFrom(a) \in [1..MaxVaultId -> Nat]
      /\ RoutedTo(a) \in [1..MaxVaultId -> Nat]
  BY CustodyTyped DEF RouterInv, IInv, VaultId
<1>2. /\ Total(Credited(a), MaxVaultId) \in Nat
      /\ Total(ReleasedFrom(a), MaxVaultId) \in Nat
      /\ Total(RoutedTo(a), MaxVaultId) \in Nat /\ donated[a] \in Nat
  BY <1>1, TotalNat, RegistryAssumption DEF RouterInv, RouterTypeOK
<1>3. QED
  BY <1>2 DEF RouterInv, CustodyExplained

\* The registry stays solvent although the router moves its tokens too.
THEOREM SolventWithRouter == RouterSpec => []Solvency
<1>1. QED
  BY ExplainedIsSolvent, RouterInitHolds, RouterNextHolds, PTL DEF RouterSpec
=============================================================================
