--------------------------- MODULE SpendRegister ---------------------------
(***************************************************************************)
(* What the control of the spend tracking promises to the windows of a     *)
(* project: one value that every change builds on.  A claimed level only   *)
(* rises, and what the user decided once stays.                            *)
(***************************************************************************)
EXTENDS Naturals

CONSTANTS
  Changes,  \* changes that windows make
  Level     \* the level of the reminder that a change claims; 0: the user's own change

VARIABLE value  \* the level claimed so far, and the user's changes that are in force

Init == value = [claimed |-> 0, entries |-> {}]

\* A reminder is claimed above all that was claimed before.
Claim(t) ==
  /\ Level[t] > value.claimed
  /\ value' = [value EXCEPT !.claimed = Level[t]]

\* The user's change is added, once.
Enter(t) ==
  /\ Level[t] = 0 /\ t \notin value.entries
  /\ value' = [value EXCEPT !.entries = @ \union {t}]

Next == \E t \in Changes : Claim(t) \/ Enter(t)
Spec == Init /\ [][Next]_value
=============================================================================
