----------------------------- MODULE FAssetsRouter -----------------------------
(***************************************************************************)
(* contracts/src/FAssetsRouter.sol beside the registry.  The two contracts *)
(* share nothing but the tokens: the router never calls the registry.      *)
(* Tokens can also be sent to the registry without either contract.        *)
(***************************************************************************)
EXTENDS VaultRegistry

CONSTANTS Router,      \* the router's address, one of Account
          RouterAdmin, \* the router's deployer
          Fxrp         \* the asset the constructor allowlists

ASSUME RouterAssumption ==
    /\ Router \in Account \ (VaultOwner \cup GuardianKey)
    /\ RouterAdmin \in Account
    /\ Fxrp \in Asset

VARIABLES allowlistedFAssets,  \* assets the router accepts
          routed,              \* <<v, asset>> -> what FAssetFunded events add up to
          donated              \* history: asset -> what came by plain transfers

routerVars == <<allowlistedFAssets, routed, donated>>

RouterInit ==
    /\ allowlistedFAssets = {Fxrp}
    /\ routed = [p \in VaultId \X Asset |-> 0]
    /\ donated = [asset \in Asset |-> 0]

AllowlistFAsset(caller, asset) ==
    /\ caller = RouterAdmin
    /\ asset # NoAddress
    /\ allowlistedFAssets' = allowlistedFAssets \cup {asset}
    /\ UNCHANGED <<routed, donated, vars>>

\* The tokens go to the registry under a vault id that nobody looks up.
FundWithFAsset(caller, v, asset, amount) ==
    /\ asset \in allowlistedFAssets
    /\ amount > 0
    /\ Transfer(asset, caller, Registry, amount)
    /\ routed' = [routed EXCEPT ![<<v, asset>>] = @ + amount]
    /\ UNCHANGED <<allowlistedFAssets, donated, registryVars, now, ledger>>

\* Mutant: what is redeemed is taken from the registry's custody.
RedeemFromCustody(caller, v, asset, amount) ==
    /\ asset \in allowlistedFAssets
    /\ amount > 0
    /\ Transfer(asset, Registry, Router, amount)
    /\ UNCHANGED <<routerVars, registryVars, now, ledger>>

\* The caller's own tokens are locked in the router.
RedeemToNative(caller, v, asset, amount) ==
    /\ asset \in allowlistedFAssets
    /\ amount > 0
    /\ Transfer(asset, caller, Router, amount)
    /\ UNCHANGED <<routerVars, registryVars, now, ledger>>

\* The token's own transfer (external) to the registry's address.
TransferDirectly(caller, asset, amount) ==
    /\ Transfer(asset, caller, Registry, amount)
    /\ donated' = [donated EXCEPT ![asset] = @ + amount]
    /\ UNCHANGED <<allowlistedFAssets, routed, registryVars, now, ledger>>

RouterNext ==
    \/ Next /\ UNCHANGED routerVars
    \/ \E caller \in Account :
          \/ \E asset \in Asset : AllowlistFAsset(caller, asset)
          \/ \E asset \in Asset, amount \in Amount : TransferDirectly(caller, asset, amount)
          \/ \E v \in VaultId, asset \in Asset, amount \in Amount :
                \/ FundWithFAsset(caller, v, asset, amount)
                \/ RedeemToNative(caller, v, asset, amount)

RouterSpec == Init /\ RouterInit /\ [][RouterNext]_<<vars, routerVars>>

-----------------------------------------------------------------------------

ReleasedFrom(asset) ==
    [v \in VaultId |-> IF vaults[v].fundingAsset = asset THEN ledger[v].released ELSE 0]

RoutedTo(asset) == [v \in VaultId |-> routed[<<v, asset>>]]

\* Custody is accounted for to the unit: what the registry holds of an asset is
\* what it owes to its vaults, plus every tranche it declared released, plus what
\* came in without a call of it, through the router or sent by somebody straight to its
\* address.  Redemption never draws on it.
CustodyExplained ==
    \A asset \in Asset \ LenientAsset :
        token[asset][Registry] =
            Total(Credited(asset), MaxVaultId)
                + Total(ReleasedFrom(asset), MaxVaultId)
                + Total(RoutedTo(asset), MaxVaultId)
                + donated[asset]
=============================================================================
