--------------------------- MODULE MCVaultRegistry ---------------------------
EXTENDS VaultRegistry

ShortWindows == [checkInInterval |-> 1, graceWindow |-> 1,
                 disputeWindow |-> 1, finalWindow |-> 1]

\* The grace and final windows are longer than the two others.
UnevenWindows == [checkInInterval |-> 1, graceWindow |-> 2,
                  disputeWindow |-> 1, finalWindow |-> 2]

OneTiming == {ShortWindows}

TwoTimings == {ShortWindows, UnevenWindows}
=============================================================================
