---------------------------- MODULE MCWebFrontEnd ----------------------------
EXTENDS WebFrontEnd

CONSTANTS alice, bob, carol

ShortWindows == [checkInInterval |-> 1, graceWindow |-> 1,
                 disputeWindow |-> 1, finalWindow |-> 1]

NoCheckIns == [ShortWindows EXCEPT !.checkInInterval = 0]

OneTiming == {ShortWindows}

Typed == {ShortWindows, NoCheckIns}

At(page, account, until, taps) ==
    [page |-> page, account |-> account, v |-> 1, until |-> until, clicks |-> taps,
     timed |-> FALSE]

\* Follows the countdown.
Timed(visitor) == [visitor EXCEPT !.timed = TRUE]

\* The owner at his vault's page, long with one click and short with three, the
\* guardian, an owner's dashboard, an observer, two who follow the countdown, a new
\* owner's form and a trustee.
Visits == {At("vault", alice, 6, 1), At("vault", alice, 2, 3), At("vault", bob, 6, 2),
           At("dashboard", alice, 3, 0), At("observe", carol, 6, 0),
           Timed(At("observe", carol, 7, 0)), Timed(At("vault", alice, 6, 0)),
           At("create", alice, 1, 2), At("trustee", carol, 1, 0)}

Creators == [dashboard |-> <<{alice, carol}, {alice, carol}>>, vault |-> <<{alice}>>,
             create |-> <<{carol}, {carol}>>, observe |-> <<{alice}>>, trustee |-> <<>>]
=============================================================================
