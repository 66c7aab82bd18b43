--------------------------- MODULE MCAttestationFlow ---------------------------
EXTENDS AttestationFlow

ShortWindows == [checkInInterval |-> 1, graceWindow |-> 1,
                 disputeWindow |-> 1, finalWindow |-> 1]

OneTiming == {ShortWindows}
=============================================================================
