---------------------------- MODULE MCVaultEnclave ----------------------------
EXTENDS VaultEnclave

\* A plan that needs one signal of one type, and one that needs two of any.
CONSTANTS death, incapacity

Plans == {[quorumThreshold |-> 1, attestationTypes |-> {death}],
          [quorumThreshold |-> 2, attestationTypes |-> {death, incapacity}]}

Types == {death, incapacity}
=============================================================================
