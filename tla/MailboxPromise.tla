--------------------------- MODULE MailboxPromise ---------------------------
(***************************************************************************)
(* What the mailbox of delegated results promises its host: a slot per     *)
(* result, a bound on the slots, one text per slot and at most one         *)
(* delivery of it.                                                         *)
(***************************************************************************)
EXTENDS Naturals, FiniteSets

CONSTANTS
  Keys,     \* results: a coordinator, a handle and a revision
  Texts,    \* what a result may say
  None,     \* no text
  MaxSlots  \* slots of the mailbox

VARIABLE slots  \* per key: its state, and its text once it has one

Slot(state, text) == [state |-> state, text |-> text]
Free == Slot("free", None)

Taken == {k \in Keys : slots[k].state # "free"}

\* A slot is taken for a result to come, or for one that an earlier host has kept.
Take(k) ==
  /\ slots[k] = Free /\ Cardinality(Taken) < MaxSlots
  /\ \E taken \in {Slot("reserved", None)} \union {Slot("pending", t) : t \in Texts} :
       slots' = [slots EXCEPT ![k] = taken]

\* The text arrives, once.
Fill(k) ==
  /\ slots[k].state = "reserved"
  /\ \E t \in Texts : slots' = [slots EXCEPT ![k] = Slot("pending", t)]

\* The text is delivered, once.
Deliver(k) ==
  /\ slots[k].state = "pending"
  /\ slots' = [slots EXCEPT ![k].state = "delivered"]

\* Two completions of one result contradict each other: it is never delivered from then on.
Dispute(k) ==
  /\ slots[k].state \in {"reserved", "pending", "delivered"}
  /\ slots' = [slots EXCEPT ![k].state = "disputed"]

Give(k) ==
  /\ slots[k].state # "free"
  /\ slots' = [slots EXCEPT ![k] = Free]

Init == slots = [k \in Keys |-> Free]
Next == \E k \in Keys : Take(k) \/ Fill(k) \/ Deliver(k) \/ Dispute(k) \/ Give(k)
Spec == Init /\ [][Next]_slots
=============================================================================
