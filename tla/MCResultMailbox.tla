-------------------------- MODULE MCResultMailbox --------------------------
EXTENDS ResultMailbox, TLC

CONSTANTS brief, long

\* A reservation takes as much as the longest text, a brief one half of it.
SizeOf == (brief :> 1) @@ (long :> 2)
Alike == Permutations(Keys) \union Permutations(Completions)
=============================================================================
