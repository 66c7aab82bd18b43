-------------------------- MODULE MCLifecycleScript --------------------------
EXTENDS LifecycleScript

\* 30, 15, 20 and 15 seconds on a clock of 30 seconds, rounded up.
ScaledTimings == [checkInInterval |-> 1, graceWindow |-> 1,
                  disputeWindow |-> 1, finalWindow |-> 1]

OneTiming == {ScaledTimings}

Arguments == {"happy", "halt", "override", "cancel", "all", "none"}
=============================================================================
