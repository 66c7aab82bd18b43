----------------------------- MODULE MCRelayer -----------------------------
EXTENDS Relayer

OneTiming == {[checkInInterval |-> 1, graceWindow |-> 1,
               disputeWindow |-> 1, finalWindow |-> 1]}
=============================================================================
