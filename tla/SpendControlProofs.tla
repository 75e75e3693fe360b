------------------------- MODULE SpendControlProofs -------------------------
(***************************************************************************)
(* Theorems of the shared control of the spend tracking, for any number of *)
(* changes, any levels and any number of revisions that pruning keeps.     *)
(***************************************************************************)
EXTENDS SpendControl, TLAPS

-----------------------------------------------------------------------------
(* Type correctness.                                                       *)

Early == {"making", "checking", "moving", "naming", "reading", "confirming", "publishing"}

\* A change has no result before it publishes, and prunes only after it has.
Progress ==
  \A t \in Changes : (pc[t] \in Early => result[t] = "none") /\ (pc[t] = "pruning" => result[t] = "published")

TInv == STypeOK /\ Progress

LEMMA ControlType == Empty \in Control /\ \A t \in Changes, c \in Control : With(t, c) \in Control
BY ControlAssumption DEF Empty, Control, With

LEMMA LevelType == \A t \in Changes : Level[t] \in Nat
BY ControlAssumption

\* The greatest number of a directory, where there is one, is its newest.
LEMMA GreatestIsNewest ==
  ASSUME NEW S, S \subseteq Nat \ {0}, NEW n \in S \union {0}, \A m \in S : m <= n
  PROVE  (CHOOSE k \in S \union {0} : \A m \in S : m <= k) = n
<1>. DEFINE best == CHOOSE k \in S \union {0} : \A m \in S : m <= k
<1>1. best \in S \union {0} /\ \A m \in S : m <= best
  OBVIOUS
<1>. HIDE DEF best
<1>2. best <= n /\ n <= best
  BY <1>1
<1>3. best = n
  BY <1>1, <1>2
<1>. QED BY <1>3 DEF best

LEMMA InitTypes == Init => TInv
BY ControlAssumption, ControlType
   DEF Init, TInv, STypeOK, Progress, NoLock, Numbers, Steps, Holding, Results, Early, Empty, Control

\* The steps that leave the directory of the control and what was read of it alone.
LEMMA LockTypes ==
  ASSUME TInv, NEW t \in Changes,
         \/ Make(t) \/ Name(t) \/ NotNamed(t) \/ Check(t) \/ MoveAside(t) \/ Renew(t) \/ Release(t)
         \/ Confirm(t) \/ PublishFails(t) \/ Retry(t) \/ Expire
  PROVE  TInv'
<1>. USE DEF TInv, STypeOK, Progress, Steps, Holding, Results, Early, Numbers, At, Goes, Ends, disk, memory
<1>1. CASE Make(t)
  BY <1>1 DEF Make, NewLock
<1>2. CASE Name(t)
  BY <1>2 DEF Name
<1>3. CASE NotNamed(t)
  BY <1>3 DEF NotNamed
<1>4. CASE Check(t)
  BY <1>4 DEF Check
<1>5. CASE MoveAside(t)
  BY <1>5, ControlAssumption DEF MoveAside, NoLock
<1>6. CASE Renew(t)
  BY <1>6 DEF Renew
<1>7. CASE Release(t)
  BY <1>7 DEF Release
<1>8. CASE Confirm(t)
  BY <1>8 DEF Confirm
<1>9. CASE PublishFails(t)
  BY <1>9 DEF PublishFails
<1>10. CASE Retry(t)
  BY <1>10, ControlAssumption DEF Retry
<1>11. CASE Expire
  BY <1>11 DEF Expire
<1>. QED BY <1>1, <1>2, <1>3, <1>4, <1>5, <1>6, <1>7, <1>8, <1>9, <1>10, <1>11

\* Reading, publishing and pruning.
LEMMA FileTypes ==
  ASSUME TInv, NEW t \in Changes, Read(t) \/ Publish(t) \/ Prune(t), Newest \in Nat, Current \in Control
  PROVE  TInv'
<1>. USE DEF TInv, STypeOK, Progress, Steps, Holding, Results, Early, Numbers, At, Goes, Ends, disk, memory
<1>1. CASE Read(t)
  BY <1>1 DEF Read
<1>2. CASE Publish(t)
  <2>1. With(t, base[t]) \in Control
    BY ControlType
  <2>2. /\ DOMAIN files' \subseteq Nat \ {0} /\ files' \in [DOMAIN files' -> Control]
    BY <1>2, <2>1 DEF Publish
  <2>3. behind' \in [Changes -> Nat]
    BY <1>2 DEF Publish
  <2>4. Fresh(t, base[t])
    BY <1>2 DEF Publish
  <2>. QED BY <1>2, <2>2, <2>3, <2>4 DEF Publish
<1>3. CASE Prune(t)
  BY <1>3 DEF Prune
<1>. QED BY <1>1, <1>2, <1>3

-----------------------------------------------------------------------------
(* The inductive invariant.                                                *)

\* The newest number is the greatest one of the directory, or zero.
NewestIsGreatest == Newest \in Numbers \union {0} /\ \A m \in Numbers : m <= Newest

\* What a change was made to was the control, and is so still if it is no older than the control.
ReadInOrder ==
  \A t \in Changes : pc[t] \in {"confirming", "publishing"} =>
     slot[t] <= Newest /\ (slot[t] = Newest => base[t] = Current)

PrunesBelow == \A t \in Changes : pc[t] = "pruning" => slot[t] + 1 <= Newest

\* Only far below the newest revision is a number missing.
Gaps == \A n \in Nat \ {0} : n <= Newest => n \in Numbers \/ n + Kept <= Newest

\* A change of the user's is found only where it was published.
EntriesPublished ==
  /\ \A n \in Numbers : \A t \in files[n].entries : Published(t)
  /\ \A u \in Changes : \A t \in base[u].entries : Published(t)

IInv ==
  /\ TInv /\ NewestIsGreatest /\ ReadInOrder /\ PrunesBelow /\ Gaps /\ EntriesPublished
  /\ LostOnlyFarBehind /\ ClaimedOnce

LEMMA CurrentType ==
  ASSUME TInv, NewestIsGreatest
  PROVE  Newest \in Nat /\ Current \in Control
BY ControlType DEF TInv, STypeOK, NewestIsGreatest, Current

LEMMA InitIInv == Init => IInv
<1>. SUFFICES ASSUME Init PROVE IInv
  OBVIOUS
<1>1. TInv
  BY InitTypes
<1>2. Newest = 0 /\ Numbers = {}
  BY DEF Init, Newest, Numbers
<1>3. NewestIsGreatest /\ Gaps
  BY <1>2 DEF NewestIsGreatest, Gaps
<1>4. ReadInOrder /\ PrunesBelow /\ EntriesPublished /\ LostOnlyFarBehind /\ ClaimedOnce
  BY <1>2 DEF Init, ReadInOrder, PrunesBelow, EntriesPublished, LostOnlyFarBehind, ClaimedOnce, Published, Empty
<1>. QED BY <1>1, <1>3, <1>4 DEF IInv

\* A step that leaves the directory and what was read of it alone, and brings no change further than it was.
Quiet ==
  /\ UNCHANGED <<files, slot, base, behind>>
  /\ \A t \in Changes :
       /\ pc'[t] \in {"confirming", "publishing"} => pc[t] \in {"confirming", "publishing"}
       /\ pc'[t] = "pruning" => pc[t] = "pruning"
       /\ (result'[t] = "published") = (result[t] = "published")

LEMMA QuietKeeps ==
  ASSUME IInv, TInv', Quiet
  PROVE  IInv'
<1>1. Newest' = Newest /\ Current' = Current /\ Numbers' = Numbers
  BY DEF Quiet, Newest, Current, Numbers
<1>2. NewestIsGreatest' /\ Gaps'
  BY <1>1 DEF IInv, NewestIsGreatest, Gaps
<1>3. ReadInOrder' /\ PrunesBelow'
  BY <1>1 DEF IInv, ReadInOrder, PrunesBelow, Quiet
<1>4. EntriesPublished'
  BY <1>1 DEF IInv, EntriesPublished, Quiet, Published, TInv, STypeOK, Control
<1>5. LostOnlyFarBehind' /\ ClaimedOnce'
  BY <1>1 DEF IInv, LostOnlyFarBehind, ClaimedOnce, Quiet, Published, Keeps
<1>. QED BY <1>2, <1>3, <1>4, <1>5 DEF IInv

LEMMA LockIsQuiet ==
  ASSUME IInv, NEW t \in Changes,
         \/ Make(t) \/ Name(t) \/ NotNamed(t) \/ Check(t) \/ MoveAside(t) \/ Renew(t) \/ Release(t)
         \/ Confirm(t) \/ PublishFails(t) \/ Retry(t) \/ Expire
  PROVE  Quiet
<1>. USE DEF IInv, TInv, STypeOK, Progress, Early, At, Goes, Ends, disk, memory, Quiet
<1>1. CASE Make(t) \/ Name(t)
  BY <1>1 DEF Make, Name
<1>2. CASE NotNamed(t) \/ Check(t) \/ MoveAside(t)
  BY <1>2 DEF NotNamed, Check, MoveAside
<1>3. CASE Renew(t) \/ Release(t) \/ Expire
  BY <1>3 DEF Renew, Release, Expire
<1>4. CASE Confirm(t) \/ PublishFails(t) \/ Retry(t)
  BY <1>4 DEF Confirm, PublishFails, Retry
<1>. QED BY <1>1, <1>2, <1>3, <1>4

LEMMA ReadKeeps ==
  ASSUME IInv, NEW t \in Changes, Read(t)
  PROVE  IInv'
<1>0. Newest \in Nat /\ Current \in Control
  BY CurrentType DEF IInv
<1>1. Newest' = Newest /\ Current' = Current /\ Numbers' = Numbers /\ TInv'
  BY <1>0, FileTypes DEF IInv, Read, disk, Newest, Current, Numbers
<1>2. CASE ~Fresh(t, Current)
  BY <1>1, <1>2, QuietKeeps DEF IInv, TInv, STypeOK, Progress, Early, Read, At, Goes, Ends, disk, Quiet
<1>3. CASE Fresh(t, Current)
  <2>1. /\ slot' = [slot EXCEPT ![t] = Newest] /\ base' = [base EXCEPT ![t] = Current]
        /\ pc' = [pc EXCEPT ![t] = "confirming"] /\ UNCHANGED <<files, result, behind>>
    BY <1>3 DEF Read, Goes, disk
  <2>2. NewestIsGreatest' /\ Gaps'
    BY <1>1 DEF IInv, NewestIsGreatest, Gaps
  <2>3. ReadInOrder' /\ PrunesBelow'
    BY <1>0, <1>1, <2>1 DEF IInv, ReadInOrder, PrunesBelow, TInv, STypeOK
  <2>4. \A u \in Current.entries : Published(u)
    BY DEF IInv, EntriesPublished, Current, Empty
  <2>5. EntriesPublished'
    BY <1>1, <2>1, <2>4 DEF IInv, EntriesPublished, Published, TInv, STypeOK
  <2>6. LostOnlyFarBehind' /\ ClaimedOnce'
    BY <1>1, <2>1 DEF IInv, LostOnlyFarBehind, ClaimedOnce, Published, Keeps
  <2>. QED BY <1>1, <2>2, <2>3, <2>5, <2>6 DEF IInv
<1>. QED BY <1>2, <1>3

\* What the control has come to by a change that was made to it.
LEMMA WithKeeps ==
  ASSUME NEW t \in Changes, NEW u \in Changes, NEW c \in Control, Fresh(t, c)
  PROVE  /\ Keeps(With(t, c), t)
         /\ Keeps(c, u) => Keeps(With(t, c), u)
         /\ With(t, c).entries \subseteq c.entries \union {t}
BY LevelType DEF Keeps, With, Fresh, Control

\* The change is published on top of the newest revision, or far below it.
LEMMA PublishPlaces ==
  ASSUME IInv, NEW t \in Changes, Publish(t)
  PROVE  LET mine == slot[t] + 1 IN
         /\ mine \in Nat \ {0} /\ Numbers' = Numbers \union {mine}
         /\ \/ /\ slot[t] = Newest /\ Newest' = mine /\ Current' = With(t, Current) /\ Fresh(t, Current)
               /\ base[t] = Current
            \/ mine + Kept <= Newest /\ Newest' = Newest /\ Current' = Current
<1>. DEFINE mine == slot[t] + 1
<1>0. Newest \in Nat /\ Current \in Control /\ Kept \in Nat \ {0} /\ slot[t] \in Nat
  BY CurrentType, ControlAssumption DEF IInv, TInv, STypeOK
<1>1. /\ mine \in Nat \ {0} /\ mine \notin Numbers /\ Numbers' = Numbers \union {mine}
      /\ files' = [n \in Numbers \union {mine} |-> IF n = mine THEN With(t, base[t]) ELSE files[n]]
  BY <1>0 DEF Publish, Numbers
<1>2. /\ Numbers \subseteq Nat \ {0} /\ Newest \in Numbers \union {0} /\ \A m \in Numbers : m <= Newest
      /\ slot[t] <= Newest /\ (slot[t] = Newest => base[t] = Current) /\ Fresh(t, base[t])
  BY DEF IInv, NewestIsGreatest, ReadInOrder, Publish, At, TInv, STypeOK
<1>3. \A n \in Numbers' \union {0} : (\A m \in Numbers' : m <= n) => Newest' = n
  <2>1. Numbers' \subseteq Nat \ {0}
    BY <1>1, <1>2
  <2>. QED BY <2>1, GreatestIsNewest DEF Newest
<1>4. CASE slot[t] = Newest
  <2>1. Newest' = mine
    BY <1>0, <1>1, <1>2, <1>3, <1>4
  <2>2. Current' = With(t, Current)
    BY <2>1, <1>1, <1>2, <1>4 DEF Current
  <2>. QED BY <1>1, <1>2, <1>4, <2>1, <2>2
<1>5. CASE slot[t] # Newest
  <2>1. mine <= Newest /\ mine + Kept <= Newest
    BY <1>0, <1>1, <1>2, <1>5 DEF IInv, Gaps
  <2>2. Newest' = Newest /\ Newest \in Numbers
    BY <1>0, <1>1, <1>2, <1>3, <2>1
  <2>3. Newest # mine
    BY <1>0, <2>1
  <2>4. Current' = Current
    BY <1>1, <2>2, <2>3 DEF Current
  <2>. QED BY <1>1, <2>1, <2>2, <2>4
<1>. QED BY <1>4, <1>5

LEMMA PublishKeeps ==
  ASSUME IInv, NEW t \in Changes, Publish(t)
  PROVE  IInv'
<1>. DEFINE mine == slot[t] + 1
<1>0. Newest \in Nat /\ Current \in Control /\ Kept \in Nat \ {0} /\ slot[t] \in Nat
  BY CurrentType, ControlAssumption DEF IInv, TInv, STypeOK
<1>1. TInv'
  BY <1>0, FileTypes DEF IInv
<1>2. /\ pc' = [pc EXCEPT ![t] = "pruning"] /\ result' = [result EXCEPT ![t] = "published"]
      /\ behind' = [behind EXCEPT ![t] = IF mine < Newest THEN Newest - mine ELSE 0]
      /\ UNCHANGED <<slot, base>> /\ pc[t] = "publishing"
      /\ files' = [n \in Numbers \union {mine} |-> IF n = mine THEN With(t, base[t]) ELSE files[n]]
  BY DEF Publish, Goes, Ends, At
<1>3. /\ pc \in [Changes -> Steps] /\ result \in [Changes -> Results] /\ behind \in [Changes -> Nat]
      /\ slot \in [Changes -> Nat] /\ base \in [Changes -> Control] /\ Fresh(t, base[t])
      /\ files \in [Numbers -> Control] /\ Numbers \subseteq Nat \ {0} /\ result[t] = "none"
  BY <1>2 DEF IInv, TInv, STypeOK, Progress, Early
<1>4. /\ mine \in Nat \ {0} /\ Numbers' = Numbers \union {mine}
      /\ \/ /\ slot[t] = Newest /\ Newest' = mine /\ Current' = With(t, Current) /\ Fresh(t, Current)
            /\ base[t] = Current
         \/ mine + Kept <= Newest /\ Newest' = Newest /\ Current' = Current
  BY PublishPlaces
<1>5. NewestIsGreatest' /\ Gaps' /\ Newest <= Newest' /\ mine <= Newest'
  <2>1. NewestIsGreatest'
    BY <1>0, <1>3, <1>4 DEF IInv, NewestIsGreatest
  <2>2. Gaps'
    BY <1>0, <1>3, <1>4 DEF IInv, Gaps
  <2>. QED BY <1>0, <1>4, <2>1, <2>2
<1>6. ReadInOrder'
  <2>1. SUFFICES ASSUME NEW u \in Changes, pc'[u] \in {"confirming", "publishing"}
                 PROVE  slot'[u] <= Newest' /\ (slot'[u] = Newest' => base'[u] = Current')
    BY DEF ReadInOrder
  <2>2. pc[u] \in {"confirming", "publishing"} /\ u # t
    BY <1>2, <1>3, <2>1
  <2>3. slot[u] <= Newest /\ (slot[u] = Newest => base[u] = Current) /\ slot[u] \in Nat
    BY <1>3, <2>2 DEF IInv, ReadInOrder
  <2>. QED BY <1>0, <1>2, <1>4, <2>3
<1>7. PrunesBelow'
  BY <1>0, <1>2, <1>3, <1>4, <1>5 DEF IInv, PrunesBelow
<1>8. \A u \in Changes : Published(u)' = (Published(u) \/ u = t)
  BY <1>2, <1>3 DEF Published
<1>9. EntriesPublished'
  <2>1. \A u \in With(t, base[t]).entries : Published(u)'
    <3>1. With(t, base[t]).entries \subseteq base[t].entries \union {t} /\ base[t].entries \subseteq Changes
      BY <1>3, WithKeeps DEF Control
    <3>. QED BY <1>8, <3>1 DEF IInv, EntriesPublished
  <2>2. \A n \in Numbers : files[n].entries \subseteq Changes
    BY <1>3 DEF Control
  <2>3. \A n \in Numbers' : \A u \in files'[n].entries : Published(u)'
    BY <1>2, <1>4, <1>8, <2>1, <2>2 DEF IInv, EntriesPublished
  <2>4. \A u \in Changes : \A v \in base'[u].entries : Published(v)'
    BY <1>2, <1>3, <1>8 DEF IInv, EntriesPublished, Control
  <2>. QED BY <2>3, <2>4 DEF EntriesPublished
<1>10. LostOnlyFarBehind'
  <2>1. SUFFICES ASSUME NEW u \in Changes, Published(u)', ~Keeps(Current, u)'
                 PROVE  behind'[u] >= Kept
    BY DEF LostOnlyFarBehind
  <2>2. Keeps(Current, u)' = Keeps(Current', u)
    BY DEF Keeps
  <2>3. CASE u = t
    <3>1. mine + Kept <= Newest
      BY <1>0, <1>4, <2>1, <2>2, <2>3, WithKeeps
    <3>2. behind'[t] = Newest - mine
      BY <1>0, <1>2, <1>3, <1>4, <3>1
    <3>. QED BY <1>0, <1>4, <2>3, <3>1, <3>2
  <2>4. CASE u # t
    <3>1. Published(u) /\ behind'[u] = behind[u]
      BY <1>2, <1>3, <1>8, <2>1, <2>4
    <3>2. Keeps(Current, u) => Keeps(Current', u)
      BY <1>0, <1>4, WithKeeps
    <3>. QED BY <2>1, <2>2, <3>1, <3>2 DEF IInv, LostOnlyFarBehind
  <2>. QED BY <2>3, <2>4
<1>11. ClaimedOnce'
  <2>1. \A u \in Changes : u # t /\ Published(u)' => Published(u) /\ behind'[u] = behind[u]
    BY <1>2, <1>3, <1>8
  <2>2. \A u \in Changes :
          u # t /\ Published(u) /\ Level[t] > 0 /\ Level[u] = Level[t] => behind[u] >= Kept \/ behind'[t] >= Kept
    <3>1. SUFFICES ASSUME NEW u \in Changes, u # t, Published(u), Level[t] > 0, Level[u] = Level[t]
                   PROVE  behind[u] >= Kept \/ behind'[t] >= Kept
      OBVIOUS
    <3>2. CASE slot[t] = Newest /\ Fresh(t, Current)
      <4>1. ~Keeps(Current, u)
        BY <1>0, <3>1, <3>2, LevelType DEF Keeps, Fresh, Control
      <4>. QED BY <3>1, <4>1 DEF IInv, LostOnlyFarBehind
    <3>3. CASE mine + Kept <= Newest
      <4>1. behind'[t] = Newest - mine
        BY <1>0, <1>2, <1>3, <1>4, <3>3
      <4>. QED BY <1>0, <1>4, <3>3, <4>1
    <3>. QED BY <1>4, <3>2, <3>3
  <2>. QED BY <2>1, <2>2 DEF IInv, ClaimedOnce
<1>. QED BY <1>1, <1>5, <1>6, <1>7, <1>9, <1>10, <1>11 DEF IInv

\* Pruning leaves the newest revision, and nothing else that is near it.
LEMMA PruneKeeps ==
  ASSUME IInv, NEW t \in Changes, Prune(t)
  PROVE  IInv' /\ UNCHANGED Current
<1>0. Newest \in Nat /\ Current \in Control /\ Kept \in Nat \ {0} /\ slot[t] \in Nat
  BY CurrentType, ControlAssumption DEF IInv, TInv, STypeOK
<1>1. TInv'
  BY <1>0, FileTypes DEF IInv
<1>2. PICK gone \in SUBSET Old(t) : files' = [n \in Numbers \ gone |-> files[n]]
  BY DEF Prune
<1>3. /\ Numbers' = Numbers \ gone /\ Numbers \subseteq Nat \ {0}
      /\ slot[t] + 1 <= Newest /\ Newest \in Numbers \union {0} /\ \A m \in Numbers : m <= Newest
  BY <1>2 DEF Numbers, IInv, TInv, STypeOK, PrunesBelow, NewestIsGreatest, Prune, At
<1>4. \A n \in gone : n \in Nat /\ n + Kept <= Newest
  BY <1>0, <1>2, <1>3 DEF Old
<1>5. Newest \in Numbers' /\ \A m \in Numbers' : m <= Newest
  BY <1>0, <1>3, <1>4
<1>6. Newest' = Newest
  <2>1. Numbers' \subseteq Nat \ {0}
    BY <1>3
  <2>. QED BY <1>5, <2>1, GreatestIsNewest DEF Newest
<1>7. Current' = Current
  BY <1>2, <1>3, <1>5, <1>6 DEF Current
<1>8. NewestIsGreatest' /\ Gaps'
  BY <1>0, <1>3, <1>4, <1>5, <1>6 DEF NewestIsGreatest, Gaps, IInv
<1>9. UNCHANGED <<slot, base, result, behind>> /\ pc' = [pc EXCEPT ![t] = "releasing"]
  BY DEF Prune, Goes, memory
<1>10. ReadInOrder' /\ PrunesBelow'
  BY <1>6, <1>7, <1>9 DEF IInv, ReadInOrder, PrunesBelow, TInv, STypeOK
<1>11. EntriesPublished'
  BY <1>2, <1>3, <1>9 DEF IInv, EntriesPublished, Published
<1>12. LostOnlyFarBehind' /\ ClaimedOnce'
  BY <1>7, <1>9 DEF IInv, LostOnlyFarBehind, ClaimedOnce, Published, Keeps
<1>. QED BY <1>1, <1>7, <1>8, <1>10, <1>11, <1>12 DEF IInv

LEMMA NextKeeps == IInv /\ [Next]_vars => IInv'
<1>. SUFFICES ASSUME IInv, [Next]_vars PROVE IInv'
  OBVIOUS
<1>1. CASE UNCHANGED vars
  BY <1>1, QuietKeeps
     DEF vars, disk, memory, Quiet, IInv, TInv, STypeOK, Progress, Numbers
<1>2. ASSUME NEW t \in Changes,
             \/ Make(t) \/ Name(t) \/ NotNamed(t) \/ Check(t) \/ MoveAside(t) \/ Renew(t) \/ Release(t)
             \/ Confirm(t) \/ PublishFails(t) \/ Retry(t)
      PROVE  IInv'
  BY <1>2, LockTypes, LockIsQuiet, QuietKeeps DEF IInv
<1>3. CASE Expire
  <2>1. TInv'
    BY <1>3 DEF Expire, IInv, TInv, STypeOK, Progress, Numbers, memory
  <2>2. Quiet
    BY <1>3 DEF Expire, Quiet, memory
  <2>. QED BY <2>1, <2>2, QuietKeeps
<1>4. ASSUME NEW t \in Changes, Read(t) \/ Publish(t) \/ Prune(t)
      PROVE  IInv'
  BY <1>4, ReadKeeps, PublishKeeps, PruneKeeps
<1>. QED BY <1>1, <1>2, <1>3, <1>4 DEF Next, Step

-----------------------------------------------------------------------------
(* The theorems.                                                           *)

LEMMA Invariance == Spec => []IInv
BY InitIInv, NextKeeps, PTL DEF Spec

\* The control keeps its types, and whoever publishes has read a control that its change was fresh to.
THEOREM STypeCorrect == Spec => []STypeOK
<1>1. IInv => STypeOK
  BY DEF IInv, TInv
<1>. QED BY <1>1, Invariance, PTL

\* For any number of windows and revisions kept: what was published is in the control, unless its window was overtaken
\* by as many revisions as pruning keeps.
THEOREM LostOnlyWhenFarBehind == Spec => []LostOnlyFarBehind
<1>1. IInv => LostOnlyFarBehind
  BY DEF IInv
<1>. QED BY <1>1, Invariance, PTL

\* For any levels: no two windows that were not that late win one level, whatever became of the lock.
THEOREM LevelsClaimedOnce == Spec => []ClaimedOnce
<1>1. IInv => ClaimedOnce
  BY DEF IInv
<1>. QED BY <1>1, Invariance, PTL

\* A publication is a change to the register, or none.
LEMMA PublishRegisters ==
  ASSUME IInv, NEW t \in Changes, Publish(t)
  PROVE  Register!Next \/ UNCHANGED Current
<1>0. Current \in Control
  BY CurrentType DEF IInv
<1>1. CASE /\ Current' = With(t, Current) /\ Fresh(t, Current) /\ base[t] = Current
  <2>1. CASE Level[t] = 0
    <3>1. t \notin Current.entries
      BY <1>1 DEF IInv, TInv, Progress, Early, EntriesPublished, Published, Publish, At
    <3>. QED BY <1>1, <2>1, <3>1 DEF With, Register!Enter, Register!Next
  <2>2. CASE Level[t] # 0
    BY <1>1, <2>2 DEF With, Fresh, Register!Claim, Register!Next
  <2>. QED BY <2>1, <2>2
<1>. QED BY <1>1, PublishPlaces

\* The newest revision implements SpendRegister: no step writes over newer control, and none takes it back.
THEOREM NothingWrittenOver == Spec => RegisterKept
<1>1. Init => Register!Init
  BY DEF Init, Register!Init, Current, Newest, Numbers, Empty
<1>2. IInv /\ [Next]_vars => [Register!Next]_Current
  <2>. SUFFICES ASSUME IInv, [Next]_vars PROVE Register!Next \/ UNCHANGED Current
    BY DEF Register!Next
  <2>1. ASSUME UNCHANGED files PROVE UNCHANGED Current
    BY <2>1 DEF Current, Newest, Numbers
  <2>2. CASE UNCHANGED vars
    BY <2>1, <2>2 DEF vars, disk
  <2>3. ASSUME NEW t \in Changes, Step(t), ~Publish(t), ~Prune(t)
        PROVE  UNCHANGED files
    BY <2>3 DEF Step, Make, Name, NotNamed, Check, MoveAside, Renew, Release, Read, Confirm, PublishFails, Retry, disk
  <2>4. CASE Expire
    BY <2>1, <2>4 DEF Expire
  <2>. QED BY <2>1, <2>2, <2>3, <2>4, PublishRegisters, PruneKeeps DEF Next
<1>. QED BY <1>1, <1>2, Invariance, PTL DEF Spec, RegisterKept, Register!Spec
=============================================================================
