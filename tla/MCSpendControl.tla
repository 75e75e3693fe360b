--------------------------- MODULE MCSpendControl ---------------------------
EXTENDS SpendControl, TLC

CONSTANTS reset, low, low2, high

\* A change of the user's, and claims of two levels, one of them by two windows.
LevelOf == (reset :> 0) @@ (low :> 1) @@ (low2 :> 1) @@ (high :> 2)

\* Only the highest claim is tried a second time.
OneRetry == attempts[low] = 1 /\ attempts[low2] = 1
TwoLows == Permutations({low, low2})
=============================================================================
