--------------------------- MODULE VaultLifecycle ---------------------------
(***************************************************************************)
(* What a vault promises, without clocks, callers, tokens or quorum counts:*)
(* the state machine of IVaultRegistry.sol's VaultState and what each      *)
(* transition does to the vault's funds.  Funds are paid out only along    *)
(* living, missing, questioned, disputed, halfPaid, paid, in this order;   *)
(* every phase before the last can be left for living again.               *)
(***************************************************************************)
EXTENDS Integers

CONSTANTS Vault,    \* vault ids
          Deposit   \* amounts an owner adds at once, natural numbers

VARIABLES phase,    \* id -> where the vault is in its life
          held,     \* id -> funds under the vault's control
          paid      \* id -> funds released towards the beneficiaries

lifecycleVars == <<phase, held, paid>>

Phase == {"unborn", "living", "missing", "questioned", "disputed", "halfPaid",
          "paid", "cancelled"}

LifecycleTypeOK ==
    /\ phase \in [Vault -> Phase]
    /\ held \in [Vault -> Nat]
    /\ paid \in [Vault -> Nat]

LifecycleInit ==
    /\ phase = [v \in Vault |-> "unborn"]
    /\ held = [v \in Vault |-> 0]
    /\ paid = [v \in Vault |-> 0]

Move(v, from, to) ==
    /\ phase[v] \in from
    /\ phase' = [phase EXCEPT ![v] = to]

Open(v) == Move(v, {"unborn"}, "living") /\ UNCHANGED <<held, paid>>

Miss(v) == Move(v, {"living"}, "missing") /\ UNCHANGED <<held, paid>>

Question(v) == Move(v, {"missing"}, "questioned") /\ UNCHANGED <<held, paid>>

Agree(v) == Move(v, {"questioned"}, "disputed") /\ UNCHANGED <<held, paid>>

\* The owner shows life, overrides the question, or the guardian halts.
Revive(v) ==
    /\ Move(v, {"missing", "questioned", "disputed", "halfPaid"}, "living")
    /\ UNCHANGED <<held, paid>>

Add(v, amount) ==
    /\ phase[v] \notin {"unborn", "paid", "cancelled"}
    /\ held' = [held EXCEPT ![v] = @ + amount]
    /\ UNCHANGED <<phase, paid>>

PayHalf(v) ==
    /\ Move(v, {"disputed"}, "halfPaid")
    /\ held' = [held EXCEPT ![v] = @ - held[v] \div 2]
    /\ paid' = [paid EXCEPT ![v] = @ + held[v] \div 2]

PayRest(v) ==
    /\ Move(v, {"halfPaid"}, "paid")
    /\ held' = [held EXCEPT ![v] = 0]
    /\ paid' = [paid EXCEPT ![v] = @ + held[v]]

Cancel(v) ==
    /\ Move(v, {"living"}, "cancelled")
    /\ held' = [held EXCEPT ![v] = 0]
    /\ UNCHANGED paid

LifecycleNext ==
    \E v \in Vault :
        \/ Open(v) \/ Miss(v) \/ Question(v) \/ Agree(v) \/ Revive(v)
        \/ PayHalf(v) \/ PayRest(v) \/ Cancel(v)
        \/ \E amount \in Deposit : Add(v, amount)

LifecycleSpec == LifecycleInit /\ [][LifecycleNext]_lifecycleVars
=============================================================================
