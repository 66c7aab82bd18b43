----------------------- MODULE MCFdcAttestationVerifier -----------------------
EXTENDS FdcAttestationVerifier, TLC

ShortWindows == [checkInInterval |-> 1, graceWindow |-> 1,
                 disputeWindow |-> 1, finalWindow |-> 1]

OneTiming == {ShortWindows}

\* Nothing tells two trustees or two cases apart; used for safety only.
Interchangeable == Permutations(Attestor) \cup Permutations(Case)

Attested(v) == vaultAttestationCount'[v] # vaultAttestationCount[v]

\* The behaviours in which nobody attests to a vault before it exists: those whose
\* shortest example is about somebody's vault.
ForExistingSpec ==
    Init /\ FdcInit
      /\ [][FdcNext /\ \A v \in VaultId : Attested(v) => v < nextVaultId]_<<vars, fdcVars>>

\* The behaviours in which attestations come only when they are asked for, while a
\* vault waits for a quorum.
OnRequestSpec ==
    Init /\ FdcInit
      /\ [][/\ FdcNext
            /\ \A v \in VaultId : Attested(v) =>
                  /\ v < nextVaultId
                  /\ vaults[v].state = "QUORUM_PENDING"]_<<vars, fdcVars>>
=============================================================================
