---------------------------- MODULE SpendControl ----------------------------
(***************************************************************************)
(* The control of the spend tracking that the windows of a project share   *)
(* (src/src/state/SpendStore.ts: transact and the maintenance lock;        *)
(* src/src/host/SpendCoordinator.ts: the claims of reminders).  Every      *)
(* change is a process of its own: several windows make changes, and each  *)
(* may stall between any two calls of the file system, for good where its  *)
(* window crashes: nothing is fair here.                                   *)
(*                                                                         *)
(* The lock is a directory that whoever finds it expired moves aside, and  *)
(* what is moved may by then be another one's.  The control is a series of *)
(* numbered files; a name is never replaced, and old names are removed.    *)
(*                                                                         *)
(* Files are linked whole (no file system without hard links), and none is *)
(* unreadable or of a newer version.                                       *)
(***************************************************************************)
EXTENDS Integers, FiniteSets

CONSTANTS
  Changes,      \* transactions: claims of reminders, resets, repairs
  Level,        \* the level a claim is about; 0: a change of the user's
  None,         \* no owner
  Kept,         \* revisions that pruning keeps
  LockTries,    \* tries at the lock
  ClaimRetries  \* transactions that a claim tries while the lock is busy

ASSUME ControlAssumption ==
  /\ Level \in [Changes -> Nat] /\ None \notin Changes
  /\ Kept \in Nat \ {0} /\ LockTries \in Nat \ {0} /\ ClaimRetries \in Nat

VARIABLES
  lock,      \* the directory of the lock: its owner, whether it was released, whether its lease runs
  files,     \* the revisions in the directory: by their number, what they say
  pc,        \* where a change is
  tries,     \* tries at the lock so far
  attempts,  \* transactions it has begun
  slot,      \* the newest number it read under the lock
  base,      \* the control it read under the lock
  result,    \* what its transaction came to
  behind     \* history: by how many revisions it was late when it published

disk   == <<lock, files>>
memory == <<tries, attempts, slot, base, result>>
vars   == <<disk, memory, pc, behind>>

Empty == [claimed |-> 0, entries |-> {}]
Control == [claimed : Nat, entries : SUBSET Changes]

NoLock == [there |-> FALSE, owner |-> None, released |-> FALSE, live |-> FALSE]
NewLock == [there |-> TRUE, owner |-> None, released |-> FALSE, live |-> TRUE]

\* The newest name in the directory is the control.
Numbers == DOMAIN files
Newest == CHOOSE n \in Numbers \union {0} : \A m \in Numbers : m <= n
Current == IF Newest \in Numbers THEN files[Newest] ELSE Empty

\* Mutant: a level that was claimed is claimed again.
FreshOrEqual(t, c) == Level[t] = 0 \/ Level[t] >= c.claimed

Fresh(t, c) == Level[t] = 0 \/ Level[t] > c.claimed
With(t, c) ==
  IF Level[t] = 0 THEN [c EXCEPT !.entries = @ \union {t}] ELSE [c EXCEPT !.claimed = Level[t]]

At(t, step) == pc[t] = step
Goes(t, step) == pc' = [pc EXCEPT ![t] = step]
Ends(t, how) == result' = [result EXCEPT ![t] = how]

-----------------------------------------------------------------------------
(* The lock *)

\* The directory is made, or there is one.
Make(t) ==
  /\ At(t, "making")
  /\ lock' = IF lock.there THEN lock ELSE NewLock
  /\ Goes(t, IF lock.there THEN "checking" ELSE "naming")
  /\ UNCHANGED <<files, memory, behind>>

\* The owner's name is written once, into the directory that is there by now.
Name(t) ==
  /\ At(t, "naming") /\ lock.there /\ lock.owner = None
  /\ lock' = [lock EXCEPT !.owner = t, !.live = TRUE]
  /\ Goes(t, "reading")
  /\ UNCHANGED <<files, memory, behind>>

NotNamed(t) ==
  /\ At(t, "naming") /\ (~lock.there \/ lock.owner # None)
  /\ Goes(t, "done") /\ Ends(t, "busy")
  /\ UNCHANGED <<disk, tries, attempts, slot, base, behind>>

IsHeld == lock.there /\ ~lock.released /\ lock.live

\* A lock that is held is left alone.
Check(t) ==
  /\ At(t, "checking")
  /\ IF IsHeld THEN Goes(t, "done") /\ Ends(t, "busy") ELSE Goes(t, "moving") /\ UNCHANGED result
  /\ UNCHANGED <<disk, tries, attempts, slot, base, behind>>

\* The directory is moved aside, whosever it is by now.
MoveAside(t) ==
  /\ At(t, "moving")
  /\ lock' = NoLock
  /\ tries' = [tries EXCEPT ![t] = @ + 1]
  /\ IF tries[t] + 1 < LockTries THEN Goes(t, "making") /\ UNCHANGED result ELSE Goes(t, "done") /\ Ends(t, "busy")
  /\ UNCHANGED <<files, attempts, slot, base, behind>>

\* The lease of a lock runs out.
Expire ==
  /\ lock.there /\ lock.live
  /\ lock' = [lock EXCEPT !.live = FALSE]
  /\ UNCHANGED <<files, memory, pc, behind>>

Holding == {"reading", "confirming", "publishing", "pruning"}

\* The holder's timer renews the lease, however late.
Renew(t) ==
  /\ pc[t] \in Holding /\ lock.owner = t /\ ~lock.live
  /\ lock' = [lock EXCEPT !.live = TRUE]
  /\ UNCHANGED <<files, memory, pc, behind>>

Release(t) ==
  /\ At(t, "releasing")
  /\ lock' = IF lock.owner = t THEN [lock EXCEPT !.released = TRUE] ELSE lock
  /\ Goes(t, "done")
  /\ UNCHANGED <<files, memory, behind>>

-----------------------------------------------------------------------------
(* The transaction *)

\* Mutant: the change is made whatever was read.
ReadAnyway(t) ==
  /\ At(t, "reading")
  /\ slot' = [slot EXCEPT ![t] = Newest] /\ base' = [base EXCEPT ![t] = Current]
  /\ Goes(t, "confirming")
  /\ UNCHANGED <<disk, tries, attempts, result, behind>>

\* The control is read under the lock, and the change is made to what was read, or there is none to make.
Read(t) ==
  /\ At(t, "reading")
  /\ IF Fresh(t, Current)
     THEN /\ slot' = [slot EXCEPT ![t] = Newest] /\ base' = [base EXCEPT ![t] = Current]
          /\ Goes(t, "confirming") /\ UNCHANGED result
     ELSE Goes(t, "releasing") /\ Ends(t, "nothing") /\ UNCHANGED <<slot, base>>
  /\ UNCHANGED <<disk, tries, attempts, behind>>

\* The early look at the lock.
Confirm(t) ==
  /\ At(t, "confirming")
  /\ IF lock.owner = t THEN Goes(t, "publishing") /\ UNCHANGED result ELSE Goes(t, "releasing") /\ Ends(t, "busy")
  /\ UNCHANGED <<disk, tries, attempts, slot, base, behind>>

\* Mutant: the file is renamed onto its number, which may be there.
PublishReplacing(t) ==
  LET mine == slot[t] + 1 IN
  /\ At(t, "publishing")
  /\ files' = [n \in Numbers \union {mine} |-> IF n = mine THEN With(t, base[t]) ELSE files[n]]
  /\ behind' = [behind EXCEPT ![t] = IF mine < Newest THEN Newest - mine ELSE 0]
  /\ Ends(t, "published") /\ Goes(t, "pruning")
  /\ UNCHANGED <<lock, tries, attempts, slot, base>>

\* The next number is linked: no name that is there is replaced.
Publish(t) ==
  LET mine == slot[t] + 1 IN
  /\ At(t, "publishing") /\ mine \notin Numbers
  /\ files' = [n \in Numbers \union {mine} |-> IF n = mine THEN With(t, base[t]) ELSE files[n]]
  /\ behind' = [behind EXCEPT ![t] = IF mine < Newest THEN Newest - mine ELSE 0]
  /\ Ends(t, "published") /\ Goes(t, "pruning")
  /\ UNCHANGED <<lock, tries, attempts, slot, base>>

PublishFails(t) ==
  /\ At(t, "publishing") /\ slot[t] + 1 \in Numbers
  /\ Ends(t, "busy") /\ Goes(t, "releasing")
  /\ UNCHANGED <<disk, tries, attempts, slot, base, behind>>

\* Mutant: one revision too many is removed.
OldAndMine(t) == {n \in Numbers : n <= slot[t] + 2 - Kept}

Old(t) == {n \in Numbers : n <= slot[t] + 1 - Kept}

\* Old names are removed; a removal that fails is let be.
Prune(t) ==
  /\ At(t, "pruning")
  /\ \E gone \in SUBSET Old(t) : files' = [n \in Numbers \ gone |-> files[n]]
  /\ Goes(t, "releasing")
  /\ UNCHANGED <<lock, memory, behind>>

\* A claim that found the lock busy is tried again.
Retry(t) ==
  /\ At(t, "done") /\ result[t] = "busy" /\ Level[t] > 0 /\ attempts[t] < ClaimRetries
  /\ attempts' = [attempts EXCEPT ![t] = @ + 1]
  /\ tries' = [tries EXCEPT ![t] = 0]
  /\ Goes(t, "making") /\ Ends(t, "none")
  /\ UNCHANGED <<disk, slot, base, behind>>

-----------------------------------------------------------------------------
Init ==
  /\ lock = NoLock /\ files = [n \in {} |-> Empty]
  /\ pc = [t \in Changes |-> "making"]
  /\ tries = [t \in Changes |-> 0] /\ attempts = [t \in Changes |-> 1]
  /\ slot = [t \in Changes |-> 0] /\ base = [t \in Changes |-> Empty]
  /\ result = [t \in Changes |-> "none"] /\ behind = [t \in Changes |-> 0]

Step(t) ==
  \/ Make(t) \/ Name(t) \/ NotNamed(t) \/ Check(t) \/ MoveAside(t) \/ Renew(t) \/ Release(t)
  \/ Read(t) \/ Confirm(t) \/ Publish(t) \/ PublishFails(t) \/ Prune(t) \/ Retry(t)
Next == Expire \/ \E t \in Changes : Step(t)
Spec == Init /\ [][Next]_vars
-----------------------------------------------------------------------------
(* What holds *)

Steps == Holding \union {"making", "checking", "moving", "naming", "releasing", "done"}
Results == {"none", "busy", "nothing", "published"}

\* Types; and whoever publishes has read a control that its change was fresh to.
STypeOK ==
  /\ lock \in [there : BOOLEAN, owner : Changes \union {None}, released : BOOLEAN, live : BOOLEAN]
  /\ Numbers \subseteq Nat \ {0} /\ files \in [Numbers -> Control]
  /\ pc \in [Changes -> Steps] /\ result \in [Changes -> Results]
  /\ tries \in [Changes -> Nat] /\ attempts \in [Changes -> Nat]
  /\ slot \in [Changes -> Nat] /\ base \in [Changes -> Control] /\ behind \in [Changes -> Nat]
  /\ \A t \in Changes : (pc[t] \in {"confirming", "publishing"} \/ result[t] = "published") => Fresh(t, base[t])

\* The control that windows read says what the change was for: the user's change, or a claim of its level.
Keeps(c, t) == IF Level[t] = 0 THEN t \in c.entries ELSE c.claimed >= Level[t]

Published(t) == result[t] = "published"

\* A change that was published can be missing from the control only if its window stalled between its reading and
\* its link for as many later revisions as pruning keeps (commitControl, pruneRevisions).
LostOnlyFarBehind == \A t \in Changes : Published(t) /\ ~Keeps(Current, t) => behind[t] >= Kept

\* Two windows that were not that late never both win a claim of one level, whatever became of the lock, and however
\* often it was moved aside under its holder (claim: a claim is won above the highest one).
ClaimedOnce ==
  \A t, u \in Changes :
    t # u /\ Published(t) /\ Published(u) /\ Level[t] > 0 /\ Level[t] = Level[u] => behind[t] >= Kept \/ behind[u] >= Kept

\* The newest revision, as the value that every change builds on.
Register == INSTANCE SpendRegister WITH value <- Current

\* No window writes over newer control, whatever it believes of its lease: what windows read changes only by one
\* change made to it, and neither a stalled holder nor pruning ever takes it back (the head of SpendStore.ts).
RegisterKept == Register!Spec
=============================================================================
