----------------------------- MODULE WebDisplay -----------------------------
(***************************************************************************)
(* What the pages do with a vault's state once they have read it: the      *)
(* tables of web/src/lib/constants.ts, the timeline of StateTimeline.tsx   *)
(* and the buttons of web/src/app/vault/[id]/page.tsx.  The contract       *)
(* answers with the number of an enum member; the pages compare numbers.   *)
(***************************************************************************)
EXTENDS Naturals, Sequences

\* enum VaultState of the contract, in the order of declaration.
EnumOrder == <<"ACTIVE", "WARNING", "QUORUM_PENDING", "DISPUTE_WINDOW",
               "SLASHING_REVIEW", "TRANCHE_1_RELEASED", "FINAL_WINDOW",
               "FULLY_RELEASED", "CLOSED">>

\* The number getVaultState returns.
Encoded(state) == (CHOOSE i \in DOMAIN EnumOrder : EnumOrder[i] = state) - 1

VAULT_STATES == <<"ACTIVE", "WARNING", "QUORUM_PENDING", "DISPUTE_WINDOW",
                  "SLASHING_REVIEW", "TRANCHE_1_RELEASED", "FINAL_WINDOW",
                  "FULLY_RELEASED", "CLOSED">>

\* An unknown number is shown as a closed vault.
getStateName(number) ==
    IF number + 1 \in DOMAIN VAULT_STATES THEN VAULT_STATES[number + 1] ELSE "CLOSED"

\* Mutant: the final window is listed before the dispute that leads to it.
LIFECYCLE_STEPS_BY_NAME == <<"ACTIVE", "WARNING", "QUORUM_PENDING", "FINAL_WINDOW",
                             "DISPUTE_WINDOW", "TRANCHE_1_RELEASED", "FULLY_RELEASED">>

LIFECYCLE_STEPS == <<"ACTIVE", "WARNING", "QUORUM_PENDING", "DISPUTE_WINDOW",
                     "TRANCHE_1_RELEASED", "FINAL_WINDOW", "FULLY_RELEASED">>

\* How the timeline draws each step; a state that is no step leaves them all open.
Timeline(number) ==
    LET name == getStateName(number)
        current == {i \in DOMAIN LIFECYCLE_STEPS : LIFECYCLE_STEPS[i] = name} IN
    [i \in DOMAIN LIFECYCLE_STEPS |->
        IF \E c \in current : i < c THEN "completed"
        ELSE IF i \in current THEN "current" ELSE "future"]

\* Mutant: the guardian's button is tied to the number of TRANCHE_1_RELEASED.
ButtonsHaltingTranche(isOwner, isGuardian, state) ==
    [checkIn |-> isOwner /\ state \in {0, 1},
     ownerOverride |-> isOwner /\ state = 2,
     guardianHalt |-> isGuardian /\ state \in {3, 5},
     finalizeDisputeWindow |-> state = 3,
     finalizeFinalWindow |-> state = 6,
     cancelVault |-> isOwner /\ state = 0,
     fundVault |-> isOwner /\ state < 7,
     anchorLegalDoc |-> isOwner /\ state < 7]

\* The buttons inside the panel, by the contract function they call.
Buttons(isOwner, isGuardian, state) ==
    [checkIn |-> isOwner /\ state \in {0, 1},
     ownerOverride |-> isOwner /\ state = 2,
     guardianHalt |-> isGuardian /\ state \in {3, 6},
     finalizeDisputeWindow |-> state = 3,
     finalizeFinalWindow |-> state = 6,
     cancelVault |-> isOwner /\ state = 0,
     fundVault |-> isOwner /\ state < 7,
     anchorLegalDoc |-> isOwner /\ state < 7]

\* The panel is there for the owner and the guardian only.
Offers(isOwner, isGuardian, state) ==
    LET buttons == Buttons(isOwner, isGuardian, state)
    IN  {f \in DOMAIN buttons : (isOwner \/ isGuardian) /\ buttons[f]}
=============================================================================
