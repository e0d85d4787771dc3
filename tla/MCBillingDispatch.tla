--------------------------- MODULE MCBillingDispatch ---------------------------
EXTENDS BillingDispatch

\* Three months, the second too short for the bill day.
ShortMonths == <<3, 2, 3>>

\* One behind UTC; one ahead by most of a day; and one whose clock jumps
\* over the run hour of the second month's bill day.
ThreeZones == {[ahead |-> -1, jumpAt |-> 0, jump |-> 0],
               [ahead |-> 2, jumpAt |-> 0, jump |-> 0],
               [ahead |-> 0, jumpAt |-> 13, jump |-> 1]}

\* A tenant whose clock is UTC.
Utc == {[ahead |-> 0, jumpAt |-> 0, jump |-> 0]}
=============================================================================
