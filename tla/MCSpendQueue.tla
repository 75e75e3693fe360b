---------------------------- MODULE MCSpendQueue ----------------------------
EXTENDS SpendQueue, TLC

CONSTANTS a, b, first, second

\* Two units of one window, and a second window that finds them.
OwnerOf == [u \in Units |-> a]

\* The second window stays, and has no units of its own: its beat says nothing.
Witness == b \notin beat /\ life[b] = "open"
=============================================================================
