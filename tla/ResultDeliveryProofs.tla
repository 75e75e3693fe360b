------------------------ MODULE ResultDeliveryProofs ------------------------
(***************************************************************************)
(* Theorems of the delivery of a result across crashes, for any number of  *)
(* revisions, crashes and lanes.                                           *)
(***************************************************************************)
EXTENDS ResultDelivery, SequenceTheorems, TLAPS

-----------------------------------------------------------------------------
(* Rows of the ledger, of the disk and of the queue.                       *)

Lives == {"none", "active", "settled", "interrupted"}
Recoveries == {"none", "unknown", "unsaved"}
Scopes == {"open", "suspended", "closed"}
Kinds == {"retain", "prepare", "delivered", "archive"}

LedgerRows ==
  [rev : 0 .. MaxRevision, life : Lives, recovery : Recoveries, delivered : BOOLEAN,
   settled : SUBSET Revisions, decided : SUBSET Revisions,
   attempt : [Revisions -> Attempts], scope : [Revisions -> Scopes]]

ItemRows == [saved : BOOLEAN, attempt : Attempts, delivered : BOOLEAN, attempted : BOOLEAN, archived : BOOLEAN]

DiskRows ==
  [ledger : LedgerRows, item : [Revisions -> ItemRows], index : SUBSET Revisions, body : SUBSET Results,
   marker : SUBSET Results]

JobRows ==
  [kind : Kinds, rev : 0 .. MaxRevision, at : 1 .. 5, ok : BOOLEAN, delivered : BOOLEAN, seen : SUBSET Revisions]

\* What a step leaves of a row, all but what it marks the result with.
SameRun(l, m) ==
  m.rev = l.rev /\ m.life = l.life /\ m.settled = l.settled /\ m.decided = l.decided /\ m.attempt = l.attempt
    /\ m.scope = l.scope

Begun(l) == [l EXCEPT !.rev = 1, !.life = "active"]

LEMMA BegunRow ==
  ASSUME NEW l \in LedgerRows
  PROVE  /\ Begun(l) \in LedgerRows /\ Begun(l).rev = 1 /\ Begun(l).life = "active"
         /\ Begun(l).recovery = l.recovery /\ Begun(l).delivered = l.delivered
         /\ Begun(l).settled = l.settled /\ Begun(l).decided = l.decided
         /\ Begun(l).attempt = l.attempt /\ Begun(l).scope = l.scope
<1>. DEFINE m == Begun(l)
<1>1. m = [l EXCEPT !.rev = 1, !.life = "active"] /\ 1 \in 0 .. MaxRevision
  BY BoundsAssumption DEF Begun
<1>. HIDE DEF m
<1>2. /\ m \in LedgerRows /\ m.rev = 1 /\ m.life = "active"
      /\ m.recovery = l.recovery /\ m.delivered = l.delivered
      /\ m.settled = l.settled /\ m.decided = l.decided
      /\ m.attempt = l.attempt /\ m.scope = l.scope
  BY <1>1 DEF LedgerRows, Lives
<1>. QED BY <1>2 DEF m

Settled(l) == [l EXCEPT !.life = "settled", !.settled = @ \union {l.rev}, !.recovery = "none"]

LEMMA SettledRow ==
  ASSUME NEW l \in LedgerRows, l.rev \in Revisions
  PROVE  /\ Settled(l) \in LedgerRows /\ Settled(l).rev = l.rev /\ Settled(l).life = "settled"
         /\ Settled(l).recovery = "none" /\ Settled(l).delivered = l.delivered
         /\ Settled(l).settled = l.settled \union {l.rev} /\ Settled(l).decided = l.decided
         /\ Settled(l).attempt = l.attempt /\ Settled(l).scope = l.scope
<1>. DEFINE m == Settled(l)
<1>1. m = [l EXCEPT !.life = "settled", !.settled = @ \union {l.rev}, !.recovery = "none"]
  BY DEF Settled
<1>. HIDE DEF m
<1>2. /\ m \in LedgerRows /\ m.rev = l.rev /\ m.life = "settled"
      /\ m.recovery = "none" /\ m.delivered = l.delivered
      /\ m.settled = l.settled \union {l.rev} /\ m.decided = l.decided
      /\ m.attempt = l.attempt /\ m.scope = l.scope
  BY <1>1 DEF LedgerRows, Lives, Recoveries
<1>. QED BY <1>2 DEF m

DecidedRow(l) == [l EXCEPT !.decided = @ \union {l.rev}]

LEMMA DecidedRowIs ==
  ASSUME NEW l \in LedgerRows, l.rev \in Revisions
  PROVE  /\ DecidedRow(l) \in LedgerRows /\ DecidedRow(l).rev = l.rev /\ DecidedRow(l).life = l.life
         /\ DecidedRow(l).recovery = l.recovery /\ DecidedRow(l).delivered = l.delivered
         /\ DecidedRow(l).settled = l.settled /\ DecidedRow(l).decided = l.decided \union {l.rev}
         /\ DecidedRow(l).attempt = l.attempt /\ DecidedRow(l).scope = l.scope
BY DEF DecidedRow, LedgerRows

Reworked(l, n) == [l EXCEPT !.rev = l.rev + 1, !.attempt[l.rev + 1] = n, !.life = "active", !.delivered = FALSE]

LEMMA ReworkedRow ==
  ASSUME NEW l \in LedgerRows, NEW n \in Attempts, l.rev < MaxRevision
  PROVE  /\ Reworked(l, n) \in LedgerRows /\ Reworked(l, n).rev = l.rev + 1 /\ Reworked(l, n).life = "active"
         /\ Reworked(l, n).recovery = l.recovery /\ Reworked(l, n).delivered = FALSE
         /\ Reworked(l, n).settled = l.settled /\ Reworked(l, n).decided = l.decided
         /\ l.rev + 1 \in Revisions /\ Reworked(l, n).attempt[l.rev + 1] = n
         /\ \A r \in Revisions \ {l.rev + 1} : Reworked(l, n).attempt[r] = l.attempt[r]
         /\ Reworked(l, n).scope = l.scope
<1>. DEFINE m == Reworked(l, n)
<1>0. l.rev + 1 \in Revisions /\ l.rev + 1 \in 0 .. MaxRevision /\ l.attempt \in [Revisions -> Attempts]
  BY BoundsAssumption DEF LedgerRows, Revisions
<1>1. m = [l EXCEPT !.rev = l.rev + 1, !.attempt[l.rev + 1] = n, !.life = "active", !.delivered = FALSE]
  BY DEF Reworked
<1>. HIDE DEF m
<1>2. /\ m \in [rev : 0 .. MaxRevision, life : Lives, recovery : Recoveries, delivered : BOOLEAN,
                settled : SUBSET Revisions, decided : SUBSET Revisions,
                attempt : [Revisions -> Attempts], scope : [Revisions -> Scopes]]
      /\ m.rev = l.rev + 1 /\ m.life = "active"
      /\ m.recovery = l.recovery /\ m.delivered = FALSE
      /\ m.settled = l.settled /\ m.decided = l.decided
      /\ m.attempt = [l.attempt EXCEPT ![l.rev + 1] = n] /\ m.scope = l.scope
  BY <1>0, <1>1 DEF LedgerRows, Lives
<1>3. /\ m.attempt[l.rev + 1] = n
      /\ \A r \in Revisions \ {l.rev + 1} : m.attempt[r] = l.attempt[r]
  BY <1>0, <1>2
<1>. QED BY <1>0, <1>2, <1>3 DEF m, LedgerRows

Flag(l, v) == [l EXCEPT !.recovery = v]

LEMMA FlagRow ==
  ASSUME NEW l \in LedgerRows, NEW v \in Recoveries
  PROVE  Flag(l, v) \in LedgerRows /\ SameRun(l, Flag(l, v)) /\ Flag(l, v).recovery = v /\ Flag(l, v).delivered = l.delivered
BY DEF Flag, LedgerRows, SameRun, Recoveries

Gave(l) == [l EXCEPT !.delivered = TRUE]

LEMMA GaveRow ==
  ASSUME NEW l \in LedgerRows
  PROVE  Gave(l) \in LedgerRows /\ SameRun(l, Gave(l)) /\ Gave(l).recovery = l.recovery /\ Gave(l).delivered = TRUE
BY DEF Gave, LedgerRows, SameRun

Rescoped(l, from, to) ==
  [l EXCEPT !.scope = [r \in Revisions |-> IF r \in l.settled /\ l.scope[r] \in from THEN to ELSE l.scope[r]]]

LEMMA RescopedRow ==
  ASSUME NEW l \in LedgerRows, NEW from, NEW to \in Scopes
  PROVE  /\ Rescoped(l, from, to) \in LedgerRows
         /\ Rescoped(l, from, to).rev = l.rev /\ Rescoped(l, from, to).life = l.life
         /\ Rescoped(l, from, to).recovery = l.recovery /\ Rescoped(l, from, to).delivered = l.delivered
         /\ Rescoped(l, from, to).settled = l.settled /\ Rescoped(l, from, to).decided = l.decided
         /\ Rescoped(l, from, to).attempt = l.attempt
         /\ \A r \in Revisions :
              Rescoped(l, from, to).scope[r] = IF r \in l.settled /\ l.scope[r] \in from THEN to ELSE l.scope[r]
<1>. DEFINE s == [r \in Revisions |-> IF r \in l.settled /\ l.scope[r] \in from THEN to ELSE l.scope[r]]
            m == Rescoped(l, from, to)
<1>1. m = [l EXCEPT !.scope = s]
  BY DEF Rescoped
<1>2. s \in [Revisions -> Scopes]
  BY DEF LedgerRows
<1>3. \A r \in Revisions : s[r] = IF r \in l.settled /\ l.scope[r] \in from THEN to ELSE l.scope[r]
  OBVIOUS
<1>. HIDE DEF s, m
<1>4. /\ m \in LedgerRows /\ m.rev = l.rev /\ m.life = l.life /\ m.recovery = l.recovery /\ m.delivered = l.delivered
      /\ m.settled = l.settled /\ m.decided = l.decided /\ m.attempt = l.attempt /\ m.scope = s
  BY <1>1, <1>2 DEF LedgerRows
<1>. QED BY <1>3, <1>4 DEF m

Interrupted(l) == [l EXCEPT !.life = IF @ = "active" THEN "interrupted" ELSE @]

LEMMA InterruptedRow ==
  ASSUME NEW l \in LedgerRows
  PROVE  /\ Interrupted(l) \in LedgerRows /\ Interrupted(l).rev = l.rev
         /\ Interrupted(l).life = (IF l.life = "active" THEN "interrupted" ELSE l.life)
         /\ Interrupted(l).recovery = l.recovery /\ Interrupted(l).delivered = l.delivered
         /\ Interrupted(l).settled = l.settled /\ Interrupted(l).decided = l.decided
         /\ Interrupted(l).attempt = l.attempt /\ Interrupted(l).scope = l.scope
<1>. DEFINE m == Interrupted(l)
            v == IF l.life = "active" THEN "interrupted" ELSE l.life
<1>1. m = [l EXCEPT !.life = v]
  BY DEF Interrupted
<1>2. v \in Lives
  BY DEF LedgerRows, Lives
<1>. HIDE DEF m, v
<1>3. /\ m \in LedgerRows /\ m.rev = l.rev /\ m.life = v /\ m.recovery = l.recovery /\ m.delivered = l.delivered
      /\ m.settled = l.settled /\ m.decided = l.decided /\ m.attempt = l.attempt /\ m.scope = l.scope
  BY <1>1, <1>2 DEF LedgerRows
<1>. QED BY <1>3 DEF m, v

\* What the disk keeps of it: each save changes one part and leaves the others.
LedgerSaved(d, l) == [d EXCEPT !.ledger = l]

LEMMA LedgerSavedIs ==
  ASSUME NEW d \in DiskRows, NEW l \in LedgerRows
  PROVE  /\ LedgerSaved(d, l) \in DiskRows /\ LedgerSaved(d, l).ledger = l /\ LedgerSaved(d, l).item = d.item
         /\ LedgerSaved(d, l).index = d.index /\ LedgerSaved(d, l).body = d.body /\ LedgerSaved(d, l).marker = d.marker
BY DEF LedgerSaved, DiskRows

LEMMA WrittenIs ==
  ASSUME NEW i \in ItemRows, NEW n \in Attempts, NEW given \in BOOLEAN, NEW tried \in BOOLEAN
  PROVE  /\ Written(i, n, given, tried) \in ItemRows /\ Written(i, n, given, tried).saved
         /\ Written(i, n, given, tried).attempt = n
         /\ Written(i, n, given, tried).delivered = (i.delivered \/ given)
         /\ Written(i, n, given, tried).attempted = (i.attempted \/ tried)
         /\ Written(i, n, given, tried).archived = i.archived
<1>. DEFINE m == Written(i, n, given, tried)
            a == i.delivered \/ given
            b == i.attempted \/ tried
<1>1. m = [i EXCEPT !.saved = TRUE, !.attempt = n, !.delivered = a, !.attempted = b]
  BY DEF Written
<1>2. a \in BOOLEAN /\ b \in BOOLEAN
  BY DEF ItemRows
<1>. HIDE DEF m, a, b
<1>3. /\ m \in ItemRows /\ m.saved /\ m.attempt = n /\ m.delivered = a /\ m.attempted = b /\ m.archived = i.archived
  BY <1>1, <1>2 DEF ItemRows
<1>. QED BY <1>3 DEF m, a, b

ItemSaved(d, r, n, given, tried) ==
  [d EXCEPT !.item[r] = Written(@, n, given, tried), !.body = @ \union {<<r, n>>}]

LEMMA ItemSavedIs ==
  ASSUME NEW d \in DiskRows, NEW r \in Revisions, NEW n \in Attempts, NEW given \in BOOLEAN, NEW tried \in BOOLEAN
  PROVE  LET e == ItemSaved(d, r, n, given, tried) IN
         /\ e \in DiskRows /\ e.ledger = d.ledger /\ e.index = d.index /\ e.marker = d.marker
         /\ e.body = d.body \union {<<r, n>>}
         /\ e.item[r].saved /\ e.item[r].attempt = n
         /\ e.item[r].delivered = (d.item[r].delivered \/ given)
         /\ e.item[r].attempted = (d.item[r].attempted \/ tried)
         /\ e.item[r].archived = d.item[r].archived
         /\ \A s \in Revisions \ {r} : e.item[s] = d.item[s]
<1>. DEFINE e == ItemSaved(d, r, n, given, tried)
            w == Written(d.item[r], n, given, tried)
<1>0. d.item \in [Revisions -> ItemRows] /\ d.item[r] \in ItemRows /\ <<r, n>> \in Results
  BY DEF DiskRows, Results
<1>1. e = [d EXCEPT !.item[r] = w, !.body = @ \union {<<r, n>>}]
  BY DEF ItemSaved
<1>2. /\ w \in ItemRows /\ w.saved /\ w.attempt = n /\ w.delivered = (d.item[r].delivered \/ given)
      /\ w.attempted = (d.item[r].attempted \/ tried) /\ w.archived = d.item[r].archived
  BY <1>0, WrittenIs
<1>. HIDE DEF e, w
<1>3. /\ e \in DiskRows /\ e.ledger = d.ledger /\ e.index = d.index /\ e.marker = d.marker
      /\ e.body = d.body \union {<<r, n>>} /\ e.item = [d.item EXCEPT ![r] = w]
  BY <1>0, <1>1, <1>2 DEF DiskRows
<1>4. e.item[r] = w /\ \A s \in Revisions \ {r} : e.item[s] = d.item[s]
  BY <1>0, <1>3
<1>. QED BY <1>2, <1>3, <1>4 DEF e

Indexed(d, r) == [d EXCEPT !.index = @ \union {r}]

Unindexed(d, r) == [d EXCEPT !.index = @ \ {r}]

LEMMA IndexedIs ==
  ASSUME NEW d \in DiskRows, NEW r \in Revisions
  PROVE  /\ Indexed(d, r) \in DiskRows /\ Indexed(d, r).ledger = d.ledger /\ Indexed(d, r).item = d.item
         /\ Indexed(d, r).index = d.index \union {r} /\ Indexed(d, r).body = d.body
         /\ Indexed(d, r).marker = d.marker
         /\ Unindexed(d, r) \in DiskRows /\ Unindexed(d, r).ledger = d.ledger /\ Unindexed(d, r).item = d.item
         /\ Unindexed(d, r).index = d.index \ {r} /\ Unindexed(d, r).body = d.body
         /\ Unindexed(d, r).marker = d.marker
BY DEF Indexed, Unindexed, DiskRows

Remembered(d, x) == [d EXCEPT !.marker = @ \union {x}]

BodyGone(d, x) == [d EXCEPT !.body = @ \ {x}]

LEMMA RememberedIs ==
  ASSUME NEW d \in DiskRows, NEW x \in Results
  PROVE  /\ Remembered(d, x) \in DiskRows /\ Remembered(d, x).ledger = d.ledger /\ Remembered(d, x).item = d.item
         /\ Remembered(d, x).index = d.index /\ Remembered(d, x).body = d.body
         /\ Remembered(d, x).marker = d.marker \union {x}
         /\ BodyGone(d, x) \in DiskRows /\ BodyGone(d, x).ledger = d.ledger /\ BodyGone(d, x).item = d.item
         /\ BodyGone(d, x).index = d.index /\ BodyGone(d, x).body = d.body \ {x}
         /\ BodyGone(d, x).marker = d.marker
BY DEF Remembered, BodyGone, DiskRows

Archived(d, r) == [d EXCEPT !.item[r].archived = TRUE]

LEMMA ArchivedIs ==
  ASSUME NEW d \in DiskRows, NEW r \in Revisions
  PROVE  LET e == Archived(d, r) IN
         /\ e \in DiskRows /\ e.ledger = d.ledger /\ e.index = d.index /\ e.body = d.body /\ e.marker = d.marker
         /\ e.item[r].saved = d.item[r].saved /\ e.item[r].attempt = d.item[r].attempt
         /\ e.item[r].delivered = d.item[r].delivered /\ e.item[r].attempted = d.item[r].attempted
         /\ e.item[r].archived
         /\ \A s \in Revisions \ {r} : e.item[s] = d.item[s]
<1>. DEFINE e == Archived(d, r)
            w == [d.item[r] EXCEPT !.archived = TRUE]
<1>0. d.item \in [Revisions -> ItemRows] /\ d.item[r] \in ItemRows
  BY DEF DiskRows
<1>1. e = [d EXCEPT !.item[r] = w]
  BY DEF Archived
<1>2. /\ w \in ItemRows /\ w.saved = d.item[r].saved /\ w.attempt = d.item[r].attempt
      /\ w.delivered = d.item[r].delivered /\ w.attempted = d.item[r].attempted /\ w.archived
  BY <1>0 DEF ItemRows
<1>. HIDE DEF e, w
<1>3. /\ e \in DiskRows /\ e.ledger = d.ledger /\ e.index = d.index /\ e.body = d.body /\ e.marker = d.marker
      /\ e.item = [d.item EXCEPT ![r] = w]
  BY <1>0, <1>1, <1>2 DEF DiskRows
<1>4. e.item[r] = w /\ \A s \in Revisions \ {r} : e.item[s] = d.item[s]
  BY <1>0, <1>3
<1>. QED BY <1>2, <1>3, <1>4 DEF e

Forgotten(d, r) == [d EXCEPT !.item[r] = NoItem]

Reclaimed(d, r, x) == [d EXCEPT !.body = @ \ {x}, !.item[r] = NoItem]

LEMMA NoItemIs ==
  NoItem \in ItemRows /\ ~NoItem.saved /\ ~NoItem.delivered /\ ~NoItem.attempted /\ ~NoItem.archived /\ NoItem.attempt = 0
BY BoundsAssumption DEF NoItem, ItemRows, Attempts

LEMMA ForgottenIs ==
  ASSUME NEW d \in DiskRows, NEW r \in Revisions
  PROVE  /\ Forgotten(d, r) \in DiskRows /\ Forgotten(d, r).ledger = d.ledger /\ Forgotten(d, r).index = d.index
         /\ Forgotten(d, r).marker = d.marker /\ Forgotten(d, r).body = d.body
         /\ Forgotten(d, r).item[r] = NoItem /\ \A s \in Revisions \ {r} : Forgotten(d, r).item[s] = d.item[s]
<1>. DEFINE e == Forgotten(d, r)
            w == NoItem
<1>0. d.item \in [Revisions -> ItemRows] /\ w \in ItemRows
  BY NoItemIs DEF DiskRows
<1>1. e = [d EXCEPT !.item[r] = w]
  BY DEF Forgotten
<1>. HIDE DEF e, w
<1>2. /\ e \in DiskRows /\ e.ledger = d.ledger /\ e.index = d.index /\ e.marker = d.marker
      /\ e.body = d.body /\ e.item = [d.item EXCEPT ![r] = w]
  BY <1>0, <1>1 DEF DiskRows
<1>3. e.item[r] = w /\ \A s \in Revisions \ {r} : e.item[s] = d.item[s]
  BY <1>0, <1>2
<1>. QED BY <1>2, <1>3 DEF e, w

LEMMA ReclaimedIs ==
  ASSUME NEW d \in DiskRows, NEW r \in Revisions, NEW x \in Results
  PROVE  /\ Reclaimed(d, r, x) \in DiskRows /\ Reclaimed(d, r, x).ledger = d.ledger /\ Reclaimed(d, r, x).index = d.index
         /\ Reclaimed(d, r, x).marker = d.marker /\ Reclaimed(d, r, x).body = d.body \ {x}
         /\ Reclaimed(d, r, x).item[r] = NoItem /\ \A s \in Revisions \ {r} : Reclaimed(d, r, x).item[s] = d.item[s]
<1>. DEFINE e == Reclaimed(d, r, x)
            w == NoItem
<1>0. d.item \in [Revisions -> ItemRows] /\ w \in ItemRows
  BY NoItemIs DEF DiskRows
<1>1. e = [d EXCEPT !.body = @ \ {x}, !.item[r] = w]
  BY DEF Reclaimed
<1>. HIDE DEF e, w
<1>2. /\ e \in DiskRows /\ e.ledger = d.ledger /\ e.index = d.index /\ e.marker = d.marker
      /\ e.body = d.body \ {x} /\ e.item = [d.item EXCEPT ![r] = w]
  BY <1>0, <1>1 DEF DiskRows
<1>3. e.item[r] = w /\ \A s \in Revisions \ {r} : e.item[s] = d.item[s]
  BY <1>0, <1>2
<1>. QED BY <1>2, <1>3 DEF e, w

\* How many steps a job of a kind has, and which step is where.
Lasts(kind) == IF kind = "archive" THEN 5 ELSE IF kind = "prepare" THEN 3 ELSE 4

LEMMA StepsAre ==
  /\ \A kind \in Kinds : Len(Steps[kind]) = Lasts(kind)
  /\ Steps["retain"][1] = "look" /\ Steps["retain"][2] = "item" /\ Steps["retain"][3] = "index"
  /\ Steps["retain"][4] = "ledger"
  /\ Steps["prepare"][1] = "ledger" /\ Steps["prepare"][2] = "item" /\ Steps["prepare"][3] = "index"
  /\ Steps["delivered"][1] = "marker" /\ Steps["delivered"][2] = "item" /\ Steps["delivered"][3] = "index"
  /\ Steps["delivered"][4] = "ledger"
  /\ Steps["archive"][1] = "pick" /\ Steps["archive"][2] = "retire" /\ Steps["archive"][3] = "unindex"
  /\ Steps["archive"][4] = "reclaim" /\ Steps["archive"][5] = "forget"
<1>1. /\ Steps["retain"] = <<"look", "item", "index", "ledger">>
      /\ Steps["prepare"] = <<"ledger", "item", "index">>
      /\ Steps["delivered"] = <<"marker", "item", "index", "ledger">>
      /\ Steps["archive"] = <<"pick", "retire", "unindex", "reclaim", "forget">>
  BY DEF Steps
<1>2. \A kind \in Kinds : Len(Steps[kind]) = Lasts(kind)
  <2>1. Len(Steps["retain"]) = 4 /\ Len(Steps["prepare"]) = 3 /\ Len(Steps["delivered"]) = 4 /\ Len(Steps["archive"]) = 5
    BY <1>1
  <2>. QED BY <2>1 DEF Kinds, Lasts
<1>. QED BY <1>1, <1>2

\* Where a job is, by the step it is at.
At(j, n) == [j EXCEPT !.at = n]
Failed(j, n) == [j EXCEPT !.at = n, !.ok = FALSE]
Looked(j, here, given) == [j EXCEPT !.at = 2, !.ok = here, !.delivered = given]
Told(j) == [j EXCEPT !.at = 2, !.delivered = TRUE]
Picked(j, r) == [j EXCEPT !.at = 2, !.rev = r, !.seen = @ \union {r}]

\* A job that went on to another step, of the same result.
Further(j, m, n) == m \in JobRows /\ m.kind = j.kind /\ m.rev = j.rev /\ m.at = n

LEMMA FurtherJobs ==
  ASSUME NEW j \in JobRows
  PROVE  /\ \A n \in 1 .. 5 : Further(j, At(j, n), n) /\ Further(j, Failed(j, n), n)
         /\ \A here, given \in BOOLEAN : Further(j, Looked(j, here, given), 2)
         /\ Further(j, Told(j), 2)
<1>1. ASSUME NEW n \in 1 .. 5
      PROVE  Further(j, At(j, n), n) /\ Further(j, Failed(j, n), n)
  BY DEF Further, At, Failed, JobRows
<1>2. ASSUME NEW here \in BOOLEAN, NEW given \in BOOLEAN
      PROVE  Further(j, Looked(j, here, given), 2)
  <2>. DEFINE m == Looked(j, here, given)
  <2>1. m = [j EXCEPT !.at = 2, !.ok = here, !.delivered = given]
    BY DEF Looked
  <2>. HIDE DEF m
  <2>2. m.kind = j.kind /\ m.rev = j.rev /\ m.at = 2
    BY <2>1 DEF JobRows
  <2>3. m \in JobRows
    BY <2>1, 2 \in 1 .. 5 DEF JobRows
  <2>. QED BY <2>2, <2>3 DEF m, Further
<1>3. Further(j, Told(j), 2)
  <2>. DEFINE m == Told(j)
  <2>1. m = [j EXCEPT !.at = 2, !.delivered = TRUE]
    BY DEF Told
  <2>. HIDE DEF m
  <2>2. m.kind = j.kind /\ m.rev = j.rev /\ m.at = 2
    BY <2>1 DEF JobRows
  <2>3. m \in JobRows
    BY <2>1, 2 \in 1 .. 5 DEF JobRows
  <2>. QED BY <2>2, <2>3 DEF m, Further
<1>. QED BY <1>1, <1>2, <1>3

LEMMA PickedJob ==
  ASSUME NEW j \in JobRows, NEW r \in Revisions
  PROVE  Picked(j, r) \in JobRows /\ Picked(j, r).kind = j.kind /\ Picked(j, r).rev = r /\ Picked(j, r).at = 2
<1>. DEFINE m == Picked(j, r)
            s == j.seen \union {r}
<1>1. m = [j EXCEPT !.at = 2, !.rev = r, !.seen = s] /\ s \in SUBSET Revisions /\ r \in 0 .. MaxRevision
  BY BoundsAssumption DEF Picked, JobRows, Revisions
<1>. HIDE DEF m, s
<1>2. m.kind = j.kind /\ m.rev = r /\ m.at = 2
  BY <1>1 DEF JobRows
<1>3. m \in JobRows
  BY <1>1, 2 \in 1 .. 5 DEF JobRows
<1>. QED BY <1>2, <1>3 DEF m

LEMMA NewJob ==
  ASSUME NEW kind \in Kinds, NEW r \in 0 .. MaxRevision
  PROVE  Job(kind, r) \in JobRows /\ Job(kind, r).kind = kind /\ Job(kind, r).rev = r /\ Job(kind, r).at = 1
BY DEF Job, JobRows

LEMMA HeadReplaced ==
  ASSUME NEW q \in Seq(JobRows), q # <<>>, NEW m \in JobRows
  PROVE  LET p == <<m>> \o Tail(q) IN
         /\ p \in Seq(JobRows) /\ p # <<>> /\ Len(p) = Len(q) /\ Len(q) \in Nat /\ Len(q) >= 1 /\ p[1] = m
         /\ \A i \in 2 .. Len(q) : p[i] = q[i]
<1>. DEFINE t == Tail(q)
            p == <<m>> \o t
<1>1. t \in Seq(JobRows) /\ Len(q) \in Nat /\ Len(q) >= 1 /\ Len(t) = Len(q) - 1 /\ \A i \in 1 .. Len(t) : t[i] = q[i + 1]
  BY HeadTailProperties, EmptySeq, LenProperties
<1>2. <<m>> \in Seq(JobRows) /\ Len(<<m>>) = 1 /\ <<m>>[1] = m
  OBVIOUS
<1>. HIDE DEF t
<1>3. /\ p \in Seq(JobRows) /\ Len(p) = 1 + Len(t)
      /\ \A i \in 1 .. Len(p) : p[i] = IF i <= 1 THEN <<m>>[i] ELSE t[i - 1]
  BY <1>1, <1>2, ConcatProperties
<1>. HIDE DEF p
<1>4. Len(p) = Len(q) /\ p[1] = m
  BY <1>1, <1>2, <1>3
<1>5. ASSUME NEW i \in 2 .. Len(q)
      PROVE  p[i] = q[i]
  BY <1>1, <1>3, <1>4, i - 1 \in 1 .. Len(t), (i - 1) + 1 = i
<1>6. p # <<>>
  BY <1>1, <1>4
<1>. QED BY <1>1, <1>3, <1>4, <1>5, <1>6 DEF p, t

LEMMA HeadTaken ==
  ASSUME NEW q \in Seq(JobRows), q # <<>>
  PROVE  /\ Tail(q) \in Seq(JobRows) /\ Len(q) \in Nat /\ Len(q) >= 1 /\ Len(Tail(q)) = Len(q) - 1
         /\ \A i \in 1 .. Len(Tail(q)) : Tail(q)[i] = q[i + 1]
         /\ q[1] \in JobRows
BY HeadTailProperties, EmptySeq, LenProperties, ElementOfSeq

LEMMA Joined ==
  ASSUME NEW q \in Seq(JobRows), NEW m \in JobRows
  PROVE  /\ Append(q, m) \in Seq(JobRows) /\ Len(q) \in Nat /\ Len(Append(q, m)) = Len(q) + 1
         /\ \A i \in 1 .. Len(q) : Append(q, m)[i] = q[i]
         /\ Append(q, m)[Len(q) + 1] = m
BY AppendProperties, LenProperties

-----------------------------------------------------------------------------
(* The types, and how far the ledger on the disk is behind that of memory. *)

Typed ==
  /\ ledger \in LedgerRows /\ disk \in DiskRows
  /\ box \in [Revisions -> {"none", "reserved", "pending", "delivered"}]
  /\ rows = {r \in Revisions : box[r] = "pending"}
  /\ held \in BOOLEAN /\ ending \in BOOLEAN
  /\ queue \in Seq(JobRows)
  /\ offered \in SUBSET Revisions /\ unread \in SUBSET Revisions
  /\ waiting \in [Lanes -> 0 .. MaxRevision]
  /\ boot \in {"closed", "reclaiming", "reading", "ready"} /\ (unread # {} => boot = "reading")
  /\ markers \subseteq disk.marker
  /\ restarts \in Attempts
  /\ handed \in [Results -> Nat] /\ unsure \in [Results -> Nat]
  /\ saved \in SUBSET Results /\ skipped \in SUBSET Revisions

Shape(l) ==
  /\ l.settled \subseteq 1 .. l.rev /\ l.decided \subseteq l.settled
  /\ l.life = "active" => l.rev >= 1 /\ l.rev \notin l.settled
  /\ l.life = "settled" => l.rev \in l.settled
  /\ l.life = "none" <=> l.rev = 0

\* m has all that l has: nothing is settled, decided or closed twice, and no attempt is renamed.
Ahead(l, m) ==
  /\ l.rev <= m.rev /\ l.settled \subseteq m.settled /\ l.decided \subseteq m.decided
  /\ \A r \in 1 .. l.rev : m.attempt[r] = l.attempt[r]
  /\ \A r \in l.settled : l.scope[r] = "closed" => m.scope[r] = "closed"

\* A job is at one of its steps, only the first of the queue is past its first one, and what a job saves is settled.
JobsPlaced ==
  \A i \in 1 .. Len(queue) :
    /\ queue[i].at <= Lasts(queue[i].kind)
    /\ queue[i].kind # "archive" => queue[i].rev \in ledger.settled
    /\ queue[i].at > 1 => i = 1 /\ queue[i].rev \in Revisions
    /\ queue[i].kind = "retain" => ledger.rev >= 1 /\ ledger.attempt[ledger.rev] = restarts

Basics == Typed /\ Shape(ledger) /\ Shape(disk.ledger) /\ Ahead(disk.ledger, ledger) /\ JobsPlaced

\* A ledger that a step makes of another one.
Grows(l, m) == m \in LedgerRows /\ Shape(m) /\ Ahead(l, m)

LEMMA AheadItself ==
  ASSUME NEW l \in LedgerRows
  PROVE  Ahead(l, l)
BY BoundsAssumption DEF Ahead, LedgerRows

LEMMA AheadOfAll ==
  ASSUME NEW l \in LedgerRows, NEW m \in LedgerRows, NEW n \in LedgerRows, Ahead(l, m), Ahead(m, n), Shape(l)
  PROVE  Ahead(l, n)
<1>1. l.rev \in Nat /\ m.rev \in Nat /\ n.rev \in Nat
  BY BoundsAssumption DEF LedgerRows
<1>2. \A r \in 1 .. l.rev : r \in 1 .. m.rev
  BY <1>1 DEF Ahead
<1>. QED BY <1>1, <1>2 DEF Ahead

LEMMA ClosedStays ==
  ASSUME NEW l \in LedgerRows, NEW m \in LedgerRows, Ahead(l, m), Shape(l), NEW r, ClosedBy(l, r)
  PROVE  ClosedBy(m, r) /\ r \in Revisions /\ r \in 1 .. l.rev /\ m.attempt[r] = l.attempt[r]
<1>1. l.rev \in Nat /\ m.rev \in Nat /\ l.settled \subseteq Revisions /\ Revisions \subseteq Nat
  BY BoundsAssumption DEF LedgerRows, Revisions
<1>2. r \in l.settled /\ r \in Revisions /\ r \in 1 .. l.rev
  BY <1>1 DEF Shape, ClosedBy
<1>. QED BY <1>1, <1>2 DEF Ahead, ClosedBy

LEMMA RunGrows ==
  ASSUME NEW l \in LedgerRows, NEW m \in LedgerRows, Shape(l), SameRun(l, m)
  PROVE  Grows(l, m)
BY BoundsAssumption DEF Grows, Shape, Ahead, SameRun, LedgerRows

LEMMA BegunGrows ==
  ASSUME NEW l \in LedgerRows, Shape(l), l.rev = 0
  PROVE  Grows(l, Begun(l))
BY BegunRow DEF Grows, Shape, Ahead

LEMMA SettledGrows ==
  ASSUME NEW l \in LedgerRows, Shape(l), l.life = "active"
  PROVE  l.rev \in Revisions /\ Grows(l, Settled(l))
<1>1. l.rev \in Revisions /\ l.rev \in Nat
  BY BoundsAssumption DEF LedgerRows, Shape, Revisions
<1>. QED BY <1>1, SettledRow DEF Grows, Shape, Ahead

LEMMA DecidedGrows ==
  ASSUME NEW l \in LedgerRows, Shape(l), l.life = "settled"
  PROVE  l.rev \in Revisions /\ Grows(l, DecidedRow(l))
<1>1. l.rev \in Revisions /\ l.rev \in Nat
  BY BoundsAssumption DEF LedgerRows, Shape, Revisions
<1>. QED BY <1>1, DecidedRowIs DEF Grows, Shape, Ahead

LEMMA ReworkedGrows ==
  ASSUME NEW l \in LedgerRows, Shape(l), l.life = "settled", l.rev < MaxRevision, NEW n \in Attempts
  PROVE  l.rev \in Revisions /\ Grows(l, Reworked(l, n))
<1>. DEFINE m == Reworked(l, n)
<1>1. l.rev \in Revisions /\ l.rev \in Nat /\ l.rev >= 1
  BY BoundsAssumption DEF LedgerRows, Shape, Revisions
<1>2. /\ m \in LedgerRows /\ m.rev = l.rev + 1 /\ m.life = "active"
      /\ m.settled = l.settled /\ m.decided = l.decided /\ m.scope = l.scope
      /\ \A r \in Revisions \ {l.rev + 1} : m.attempt[r] = l.attempt[r]
  BY ReworkedRow
<1>. HIDE DEF m
<1>3. \A r \in 1 .. l.rev : r \in Revisions \ {l.rev + 1}
  BY <1>1, BoundsAssumption DEF Revisions
<1>4. Shape(m)
  BY <1>1, <1>2 DEF Shape
<1>5. Ahead(l, m)
  BY <1>1, <1>2, <1>3 DEF Ahead
<1>. QED BY <1>1, <1>2, <1>4, <1>5 DEF Grows, m

LEMMA RescopedGrows ==
  ASSUME NEW l \in LedgerRows, Shape(l), NEW from, NEW to \in Scopes, "closed" \notin from
  PROVE  Grows(l, Rescoped(l, from, to))
<1>. DEFINE m == Rescoped(l, from, to)
<1>1. /\ m \in LedgerRows /\ m.rev = l.rev /\ m.life = l.life /\ m.settled = l.settled /\ m.decided = l.decided
      /\ m.attempt = l.attempt
      /\ \A r \in Revisions : m.scope[r] = IF r \in l.settled /\ l.scope[r] \in from THEN to ELSE l.scope[r]
  BY RescopedRow
<1>. HIDE DEF m
<1>2. l.rev \in Nat /\ l.settled \subseteq Revisions
  BY BoundsAssumption DEF LedgerRows
<1>3. Shape(m)
  BY <1>1 DEF Shape
<1>4. Ahead(l, m)
  BY <1>1, <1>2 DEF Ahead
<1>. QED BY <1>1, <1>3, <1>4 DEF Grows, m

LEMMA InterruptedGrows ==
  ASSUME NEW l \in LedgerRows, Shape(l)
  PROVE  Grows(l, Interrupted(l)) /\ Ahead(l, Interrupted(l)) /\ Ahead(Interrupted(l), l)
<1>. DEFINE m == Interrupted(l)
<1>1. /\ m \in LedgerRows /\ m.rev = l.rev /\ m.life = (IF l.life = "active" THEN "interrupted" ELSE l.life)
      /\ m.settled = l.settled /\ m.decided = l.decided /\ m.attempt = l.attempt /\ m.scope = l.scope
  BY InterruptedRow
<1>2. l.rev \in Nat
  BY BoundsAssumption DEF LedgerRows
<1>. HIDE DEF m
<1>3. Shape(m) /\ Ahead(l, m) /\ Ahead(m, l)
  BY <1>1, <1>2 DEF Shape, Ahead
<1>. QED BY <1>1, <1>3 DEF Grows, m

-----------------------------------------------------------------------------
(* The running job, and what a step does to the queue.                     *)

\* The running job is one of these at this place; it has a result unless it is yet to pick one.
RunningIs(step, kinds, n) ==
  Running(step) => /\ queue # <<>> /\ queue[1] \in JobRows /\ queue[1].kind \in kinds /\ queue[1].at = n
                   /\ queue[1].rev \in Revisions \/ (queue[1].kind = "archive" /\ n = 1)

LEMMA FirstJob ==
  ASSUME Typed, JobsPlaced, queue # <<>>
  PROVE  /\ Len(queue) \in Nat /\ Len(queue) >= 1 /\ queue[1] \in JobRows /\ queue[1].at <= Lasts(queue[1].kind)
         /\ queue[1].kind # "archive" => queue[1].rev \in ledger.settled
         /\ queue[1].rev \in Revisions \/ (queue[1].kind = "archive" /\ queue[1].at = 1)
<1>1. queue \in Seq(JobRows) /\ ledger.settled \subseteq Revisions
  BY DEF Typed, LedgerRows
<1>2. Len(queue) \in Nat /\ Len(queue) >= 1 /\ queue[1] \in JobRows
  BY <1>1, HeadTaken
<1>3. 1 \in 1 .. Len(queue) /\ queue[1].at \in 1 .. 5
  BY <1>2 DEF JobRows
<1>. QED BY <1>1, <1>2, <1>3 DEF JobsPlaced

LEMMA WhereSteps ==
  ASSUME NEW kind \in Kinds, NEW n \in 1 .. 5, n <= Lasts(kind)
  PROVE  LET step == Steps[kind][n] IN
         /\ step = "look" <=> kind = "retain" /\ n = 1
         /\ step = "item" <=> kind # "archive" /\ n = 2
         /\ step = "index" <=> kind # "archive" /\ n = 3
         /\ step = "ledger" <=> (kind \in {"retain", "delivered"} /\ n = 4) \/ (kind = "prepare" /\ n = 1)
         /\ step = "marker" <=> kind = "delivered" /\ n = 1
         /\ step = "pick" <=> kind = "archive" /\ n = 1
         /\ step = "retire" <=> kind = "archive" /\ n = 2
         /\ step = "unindex" <=> kind = "archive" /\ n = 3
         /\ step = "reclaim" <=> kind = "archive" /\ n = 4
         /\ step = "forget" <=> kind = "archive" /\ n = 5
<1>1. n \in {1, 2, 3, 4, 5}
  OBVIOUS
<1>2. CASE kind = "retain"
  <2>1. n \in {1, 2, 3, 4}
    BY <1>1, <1>2 DEF Lasts
  <2>2. \/ n = 1 /\ Steps[kind][n] = "look"
        \/ n = 2 /\ Steps[kind][n] = "item"
        \/ n = 3 /\ Steps[kind][n] = "index"
        \/ n = 4 /\ Steps[kind][n] = "ledger"
    BY <2>1, <1>2, StepsAre
  <2>. QED BY <2>2, <1>2
<1>3. CASE kind = "prepare"
  <2>1. n \in {1, 2, 3}
    BY <1>1, <1>3 DEF Lasts
  <2>. QED BY <2>1, <1>3, StepsAre
<1>4. CASE kind = "delivered"
  <2>1. n \in {1, 2, 3, 4}
    BY <1>1, <1>4 DEF Lasts
  <2>2. \/ n = 1 /\ Steps[kind][n] = "marker"
        \/ n = 2 /\ Steps[kind][n] = "item"
        \/ n = 3 /\ Steps[kind][n] = "index"
        \/ n = 4 /\ Steps[kind][n] = "ledger"
    BY <2>1, <1>4, StepsAre
  <2>. QED BY <2>2, <1>4
<1>5. CASE kind = "archive"
  BY <1>1, <1>5, StepsAre
<1>. QED BY <1>2, <1>3, <1>4, <1>5 DEF Kinds

LEMMA RunningJob ==
  ASSUME Typed, JobsPlaced
  PROVE  /\ RunningIs("look", {"retain"}, 1) /\ RunningIs("item", Kinds \ {"archive"}, 2)
         /\ RunningIs("index", Kinds \ {"archive"}, 3) /\ RunningIs("marker", {"delivered"}, 1)
         /\ RunningIs("pick", {"archive"}, 1) /\ RunningIs("retire", {"archive"}, 2)
         /\ RunningIs("unindex", {"archive"}, 3) /\ RunningIs("reclaim", {"archive"}, 4)
         /\ RunningIs("forget", {"archive"}, 5)
         /\ Running("ledger") => \/ RunningIs("ledger", {"retain", "delivered"}, 4)
                                 \/ RunningIs("ledger", {"prepare"}, 1)
<1>1. CASE queue = <<>>
  BY <1>1 DEF RunningIs, Running
<1>2. CASE queue # <<>>
  <2>. DEFINE j == queue[1]
  <2>1. /\ j \in JobRows /\ j.at <= Lasts(j.kind)
        /\ j.rev \in Revisions \/ (j.kind = "archive" /\ j.at = 1)
    BY <1>2, FirstJob
  <2>2. j.kind \in Kinds /\ j.at \in 1 .. 5
    BY <2>1 DEF JobRows
  <2>3. \A step : Running(step) <=> Steps[j.kind][j.at] = step
    BY <1>2 DEF Running
  <2>. HIDE DEF j
  <2>4. /\ Running("look") => j.kind = "retain" /\ j.at = 1
        /\ Running("item") => j.kind # "archive" /\ j.at = 2
        /\ Running("index") => j.kind # "archive" /\ j.at = 3
        /\ Running("ledger") => (j.kind \in {"retain", "delivered"} /\ j.at = 4) \/ (j.kind = "prepare" /\ j.at = 1)
        /\ Running("marker") => j.kind = "delivered" /\ j.at = 1
        /\ Running("pick") => j.kind = "archive" /\ j.at = 1
        /\ Running("retire") => j.kind = "archive" /\ j.at = 2
        /\ Running("unindex") => j.kind = "archive" /\ j.at = 3
        /\ Running("reclaim") => j.kind = "archive" /\ j.at = 4
        /\ Running("forget") => j.kind = "archive" /\ j.at = 5
    BY <2>1, <2>2, <2>3, WhereSteps
  <2>5. /\ RunningIs("look", {"retain"}, 1) /\ RunningIs("item", Kinds \ {"archive"}, 2)
        /\ RunningIs("index", Kinds \ {"archive"}, 3) /\ RunningIs("marker", {"delivered"}, 1)
        /\ RunningIs("pick", {"archive"}, 1) /\ RunningIs("retire", {"archive"}, 2)
        /\ RunningIs("unindex", {"archive"}, 3) /\ RunningIs("reclaim", {"archive"}, 4)
        /\ RunningIs("forget", {"archive"}, 5)
    BY <1>2, <2>1, <2>2, <2>4 DEF RunningIs, j
  <2>6. Running("ledger") => \/ RunningIs("ledger", {"retain", "delivered"}, 4)
                             \/ RunningIs("ledger", {"prepare"}, 1)
    BY <1>2, <2>1, <2>2, <2>4 DEF RunningIs, j
  <2>. QED BY <2>5, <2>6
<1>. QED BY <1>1, <1>2

\* The running job goes on to step n of the same result.
HeadGoes(n) ==
  /\ queue # <<>> /\ queue[1] \in JobRows
  /\ \E m \in JobRows : Further(queue[1], m, n) /\ queue' = <<m>> \o Tail(queue)

HeadGone == queue # <<>> /\ queue[1] \in JobRows /\ queue' = Tail(queue)

\* The job goes on at the step after the running one, or is over.
LEMMA GoIs ==
  ASSUME Typed, JobsPlaced, queue # <<>>, NEW n \in 1 .. 6, Go(queue[1], n)
  PROVE  IF n > Lasts(queue[1].kind) THEN HeadGone ELSE HeadGoes(n)
<1>. DEFINE j == queue[1]
            t == Tail(queue)
<1>1. j \in JobRows /\ j.kind \in Kinds /\ Len(Steps[j.kind]) = Lasts(j.kind) /\ t \in Seq(JobRows)
      /\ queue \in Seq(JobRows)
  BY FirstJob, StepsAre, HeadTaken DEF JobRows, Typed
<1>2. queue' = (IF n > Len(Steps[j.kind]) THEN <<>> ELSE <<At(j, n)>>) \o t
  BY Zenon DEF Go, At
<1>3. CASE n > Lasts(j.kind)
  <2>1. queue' = <<>> \o t
    BY <1>1, <1>2, <1>3
  <2>2. queue' = t
    BY <1>1, <2>1, ConcatEmptySeq
  <2>. QED BY <1>1, <1>3, <2>2 DEF HeadGone
<1>4. CASE ~(n > Lasts(j.kind))
  <2>1. queue' = <<At(j, n)>> \o t
    BY <1>1, <1>2, <1>4
  <2>2. n \in 1 .. 5
    BY <1>1, <1>4 DEF Lasts
  <2>3. Further(j, At(j, n), n)
    BY <1>1, <2>2, FurtherJobs
  <2>. QED BY <1>1, <1>4, <2>1, <2>3 DEF HeadGoes, Further
<1>. QED BY <1>3, <1>4

-----------------------------------------------------------------------------
(* The effect of each action: the rows it makes of the rows it finds.      *)

JobAdded(kind, r) ==
  kind \in Kinds /\ r \in 0 .. MaxRevision /\ queue' = Append(queue, Job(kind, r))

\* A mailbox row that is reserved at most.
BoxReserved(r) ==
  /\ box' \in [Revisions -> {"none", "reserved", "pending", "delivered"}]
  /\ \A s \in Revisions : box'[s] # box[s] => s = r /\ box[s] = "none" /\ box'[s] = "reserved"

BoxSet(r, v) == box' = [box EXCEPT ![r] = v]

DispatchEffect ==
  /\ ledger.rev = 0 /\ restarts = 0 /\ ledger' = Begun(ledger) /\ 1 \in Revisions /\ BoxReserved(1)
  /\ UNCHANGED <<rows, queue, offered, waiting, held, ending, boot, unread, markers, disk>>
  /\ UNCHANGED <<restarts, handed, unsure, saved, skipped>>

RetainEffect ==
  LET r == ledger.rev IN
  /\ r \in Revisions /\ ledger.life = "active" /\ Current(r) /\ ledger' = Settled(ledger)
  /\ offered' = offered \union {r}
  /\ \/ BoxSet(r, "pending") /\ rows' = rows \union {r} /\ JobAdded("retain", r)
     \/ UNCHANGED <<box, rows, queue>>
  /\ UNCHANGED <<waiting, held, ending, boot, unread, markers, disk>>
  /\ UNCHANGED <<restarts, handed, unsure, saved, skipped>>

DecideEffect ==
  LET r == ledger.rev IN
  /\ r \in Revisions /\ ledger.life = "settled" /\ ledger' = DecidedRow(ledger) /\ JobAdded("archive", r)
  /\ UNCHANGED <<box, rows, offered, waiting, held, ending, boot, unread, markers, disk>>
  /\ UNCHANGED <<restarts, handed, unsure, saved, skipped>>

ReworkEffect ==
  LET r == ledger.rev IN
  /\ r \in Revisions /\ ledger.life = "settled" /\ ledger.delivered /\ r < MaxRevision /\ r + 1 \in Revisions
  /\ ledger' = Reworked(ledger, restarts) /\ JobAdded("archive", r) /\ BoxReserved(r + 1)
  /\ UNCHANGED <<rows, offered, waiting, held, ending, boot, unread, markers, disk>>
  /\ UNCHANGED <<restarts, handed, unsure, saved, skipped>>

\* scope(), in its three forms.
Rescoping(from, to) == "closed" \notin from /\ to \in Scopes /\ ledger' = Rescoped(ledger, from, to)

StopEffect ==
  /\ held' \in BOOLEAN
  /\ UNCHANGED ledger \/ \E from : Rescoping(from, "suspended")
  /\ UNCHANGED <<box, rows, queue, offered, waiting, ending, boot, unread, markers, disk>>
  /\ UNCHANGED <<restarts, handed, unsure, saved, skipped>>

ResumeEffect ==
  /\ held' \in BOOLEAN /\ offered' \subseteq offered \union rows
  /\ UNCHANGED ledger \/ \E from : Rescoping(from, "open")
  /\ UNCHANGED <<box, rows, queue, waiting, ending, boot, unread, markers, disk>>
  /\ UNCHANGED <<restarts, handed, unsure, saved, skipped>>

RemoveEffect ==
  /\ held' \in BOOLEAN
  /\ \E from : Rescoping(from, "closed")
  /\ \A r \in ledger'.settled : ClosedBy(ledger', r)
  /\ JobAdded("archive", 0)
  /\ UNCHANGED <<box, rows, offered, waiting, ending, boot, unread, markers, disk>>
  /\ UNCHANGED <<restarts, handed, unsure, saved, skipped>>

LEMMA ReservedAtMost ==
  ASSUME Typed, NEW r \in Revisions, NEW room \in BOOLEAN, box' = Reserved(r, room)
  PROVE  BoxReserved(r)
BY DEF Typed, Reserved, BoxReserved

LEMMA DelegationEffects ==
  ASSUME Basics
  PROVE  /\ Dispatch => DispatchEffect
         /\ Retain => RetainEffect
         /\ Decide => DecideEffect
         /\ Rework => ReworkEffect
<1>1. Typed /\ Shape(ledger) /\ ledger \in LedgerRows
  BY DEF Basics, Typed
<1>2. ASSUME Dispatch PROVE DispatchEffect
  <2>1. ledger' = Begun(ledger)
    BY <1>2, Zenon DEF Dispatch, Begun
  <2>2. 1 \in Revisions
    BY BoundsAssumption DEF Revisions
  <2>3. PICK room \in BOOLEAN : box' = Reserved(1, room /\ ~held /\ ~ending)
    BY <1>2 DEF Dispatch
  <2>4. (room /\ ~held /\ ~ending) \in BOOLEAN
    BY <1>1 DEF Typed
  <2>5. BoxReserved(1)
    BY <1>1, <2>2, <2>3, <2>4, ReservedAtMost
  <2>. QED BY <1>2, <2>1, <2>2, <2>5 DEF Dispatch, DispatchEffect, host, history
<1>3. ASSUME Retain PROVE RetainEffect
  <2>. DEFINE r == ledger.rev
  <2>1. ledger.life = "active" /\ r \in Revisions /\ r \in 0 .. MaxRevision
    BY <1>1, <1>3, SettledGrows DEF Retain, LedgerRows
  <2>2. ledger' = Settled(ledger)
    BY <1>3, Zenon DEF Retain, Settled
  <2>. HIDE DEF r
  <2>3. \/ BoxSet(r, "pending") /\ rows' = rows \union {r} /\ queue' = Append(queue, Job("retain", r))
        \/ UNCHANGED <<box, rows, queue>>
    BY <1>3 DEF Retain, Enqueue, BoxSet, r
  <2>4. \/ BoxSet(r, "pending") /\ rows' = rows \union {r} /\ JobAdded("retain", r)
        \/ UNCHANGED <<box, rows, queue>>
    BY <2>1, <2>3 DEF JobAdded, Kinds
  <2>5. Current(r) /\ offered' = offered \union {r} /\ UNCHANGED <<waiting, host, disk, history>>
    BY <1>3 DEF Retain, r
  <2>. QED BY <2>1, <2>2, <2>4, <2>5 DEF RetainEffect, r, host, history
<1>4. ASSUME Decide PROVE DecideEffect
  <2>1. ledger.life = "settled" /\ ledger.rev \in Revisions /\ ledger.rev \in 0 .. MaxRevision
    BY <1>1, <1>4, DecidedGrows DEF Decide, LedgerRows
  <2>2. ledger' = DecidedRow(ledger)
    BY <1>4, Zenon DEF Decide, DecidedRow
  <2>3. JobAdded("archive", ledger.rev)
    BY <1>4, <2>1 DEF Decide, Enqueue, JobAdded, Kinds
  <2>4. UNCHANGED <<box, rows, offered, waiting, host, disk, history>>
    BY <1>4 DEF Decide
  <2>. QED BY <2>1, <2>2, <2>3, <2>4 DEF DecideEffect, host, history
<1>5. ASSUME Rework PROVE ReworkEffect
  <2>0. restarts \in Attempts
    BY <1>1 DEF Typed
  <2>1. ledger.life = "settled" /\ ledger.rev \in Revisions /\ ledger.rev \in 0 .. MaxRevision /\ ledger.rev < MaxRevision
        /\ ledger.delivered
    BY <1>1, <1>5, DecidedGrows DEF Rework, LedgerRows
  <2>2. ledger.rev + 1 \in Revisions
    BY <1>1, <2>0, <2>1, ReworkedRow
  <2>3. ledger' = Reworked(ledger, restarts)
    BY <1>5, Zenon DEF Rework, Reworked
  <2>4. JobAdded("archive", ledger.rev)
    BY <1>5, <2>1 DEF Rework, Enqueue, JobAdded, Kinds
  <2>5. BoxReserved(ledger.rev + 1)
    BY <1>1, <1>5, <2>2, ReservedAtMost DEF Rework
  <2>6. UNCHANGED <<rows, offered, waiting, host, disk, history>>
    BY <1>5 DEF Rework
  <2>. QED BY <2>1, <2>2, <2>3, <2>4, <2>5, <2>6 DEF ReworkEffect, host, history
<1>. QED BY <1>2, <1>3, <1>4, <1>5

LEMMA ScopeEffects ==
  ASSUME Basics
  PROVE  /\ Stop => StopEffect
         /\ Resume => ResumeEffect
         /\ Remove => RemoveEffect
<1>. DEFINE both == {"open", "suspended"}
            one == {"suspended"}
<1>1. "closed" \notin both /\ "closed" \notin one /\ "open" \in Scopes /\ "suspended" \in Scopes /\ "closed" \in Scopes
  BY DEF Scopes
<1>2. /\ Scoped(both, "suspended") = Rescoped(ledger, both, "suspended")
      /\ Scoped(one, "open") = Rescoped(ledger, one, "open")
      /\ Scoped(both, "closed") = Rescoped(ledger, both, "closed")
  BY Zenon DEF Scoped, Rescoped
<1>3. ASSUME Stop PROVE StopEffect
  <2>1. ledger' = ledger \/ ledger' = Scoped(both, "suspended")
    BY <1>3 DEF Stop
  <2>2. UNCHANGED ledger \/ \E from : Rescoping(from, "suspended")
    BY <1>1, <1>2, <2>1, Zenon DEF Rescoping
  <2>3. held' = TRUE /\ UNCHANGED <<box, rows, queue, offered, waiting, ending, boot, unread, markers, disk, history>>
    BY <1>3 DEF Stop
  <2>. QED BY <2>2, <2>3 DEF StopEffect, history
<1>4. ASSUME Resume PROVE ResumeEffect
  <2>1. ledger' = ledger \/ ledger' = Scoped(one, "open")
    BY <1>4 DEF Resume
  <2>2. UNCHANGED ledger \/ \E from : Rescoping(from, "open")
    BY <1>1, <1>2, <2>1, Zenon DEF Rescoping
  <2>3. /\ held' = FALSE /\ UNCHANGED <<box, rows, queue, waiting, ending, boot, unread, markers, disk, history>>
        /\ offered' \subseteq offered \union rows
    BY <1>4 DEF Resume
  <2>. QED BY <2>2, <2>3 DEF ResumeEffect, history
<1>5. ASSUME Remove PROVE RemoveEffect
  <2>1. ledger' = Scoped(both, "closed")
    BY <1>5 DEF Remove
  <2>2. \E from : Rescoping(from, "closed")
    BY <1>1, <1>2, <2>1, Zenon DEF Rescoping
  <2>3. held' = TRUE /\ UNCHANGED <<box, rows, offered, waiting, ending, boot, unread, markers, disk, history>>
    BY <1>5 DEF Remove
  <2>4. JobAdded("archive", 0)
    BY <1>5, BoundsAssumption DEF Remove, Enqueue, None, JobAdded, Kinds
  <2>5. \A r \in ledger'.settled : ClosedBy(ledger', r)
    <3>1. /\ ledger' = Rescoped(ledger, both, "closed") /\ ledger \in LedgerRows
          /\ ledger.settled \subseteq Revisions /\ \A r \in Revisions : ledger.scope[r] \in Scopes
      BY <1>2, <2>1 DEF Basics, Typed, LedgerRows
    <3>2. /\ ledger'.settled = ledger.settled
          /\ \A r \in Revisions :
               ledger'.scope[r] = IF r \in ledger.settled /\ ledger.scope[r] \in both THEN "closed" ELSE ledger.scope[r]
      BY <1>1, <3>1, RescopedRow
    <3>. QED BY <3>1, <3>2 DEF ClosedBy, Scopes
  <2>. QED BY <2>2, <2>3, <2>4, <2>5 DEF RemoveEffect, history
<1>. QED BY <1>3, <1>4, <1>5

\* What is delivered, undecided and current has been settled.
LEMMA DeliverableIsSettled ==
  ASSUME NEW r \in Revisions, CanDeliver(r)
  PROVE  ledger.rev = r /\ ledger.life \in {"active", "settled"} /\ ledger.scope[r] = "open" /\ r \notin ledger.decided
         /\ ~held /\ ~ending /\ (box[r] = "pending" \/ (box[r] = "none" /\ ~ledger.delivered))
BY DEF CanDeliver, Current, Identity

PrepareEffect(lane, r) ==
  /\ r \in Revisions /\ lane \in Lanes /\ waiting[lane] = 0 /\ r \in offered /\ CanDeliver(r)
  /\ waiting' = [waiting EXCEPT ![lane] = r]
  /\ \/ UNCHANGED <<ledger, queue>> /\ box[r] = "none"
     \/ ledger' = Flag(ledger, "unknown") /\ UNCHANGED queue
     \/ ledger' = Flag(ledger, "unknown") /\ JobAdded("prepare", r) /\ box[r] # "none"
  /\ UNCHANGED <<box, rows, offered, held, ending, boot, unread, markers, disk>>
  /\ UNCHANGED <<restarts, handed, unsure, saved, skipped>>

HandOverEffect(lane) ==
  LET r == ledger.rev IN
  /\ r \in Revisions /\ lane \in Lanes /\ waiting[lane] = r /\ CanDeliver(r)
  /\ handed' = [handed EXCEPT ![Result(r)] = @ + 1]
  /\ unsure' = IF Marked(r) THEN unsure ELSE [unsure EXCEPT ![Result(r)] = @ + 1]
  /\ ledger' = Gave(ledger)
  /\ rows' = rows \ {r} /\ offered' = offered \ {r}
  /\ waiting' = [waiting EXCEPT ![lane] = 0]
  /\ \/ box[r] = "pending" /\ BoxSet(r, "delivered") /\ JobAdded("delivered", r)
     \/ box[r] = "none" /\ UNCHANGED <<box, queue>>
  /\ UNCHANGED <<held, ending, boot, unread, markers, disk>>
  /\ UNCHANGED <<restarts, saved, skipped>>

LEMMA DeliveryEffects ==
  ASSUME Basics, NEW lane \in Lanes
  PROVE  /\ \A r \in Revisions : Prepare(lane, r) => PrepareEffect(lane, r)
         /\ HandOver(lane) => HandOverEffect(lane)
<1>0. waiting \in [Lanes -> 0 .. MaxRevision] /\ waiting[lane] \in 0 .. MaxRevision
  BY DEF Basics, Typed
<1>1. ASSUME NEW r \in Revisions, Prepare(lane, r)
      PROVE  PrepareEffect(lane, r)
  <2>1. waiting[lane] = 0 /\ r \in offered /\ CanDeliver(r) /\ waiting' = [waiting EXCEPT ![lane] = r]
        /\ UNCHANGED <<box, rows, offered, host, disk, history>>
    BY <1>1 DEF Prepare, None
  <2>2. \/ UNCHANGED <<ledger, queue>> /\ box[r] = "none"
        \/ /\ ledger' = Flag(ledger, "unknown") /\ box[r] # "none"
           /\ UNCHANGED queue \/ queue' = Append(queue, Job("prepare", r))
    BY <1>1, Zenon DEF Prepare, Flag, Enqueue
  <2>3. r \in 0 .. MaxRevision /\ "prepare" \in Kinds
    BY BoundsAssumption DEF Revisions, Kinds
  <2>. QED BY <2>1, <2>2, <2>3 DEF PrepareEffect, JobAdded, host, history
<1>2. ASSUME HandOver(lane) PROVE HandOverEffect(lane)
  <2>. DEFINE r == waiting[lane]
  <2>1. r # 0 /\ CanDeliver(r) /\ Given(lane, r)
    BY <1>2, Zenon DEF HandOver, None
  <2>2. r \in Revisions /\ r \in 0 .. MaxRevision
    BY <1>0, <2>1, BoundsAssumption DEF Revisions
  <2>3. ledger.rev = r /\ (box[r] = "pending" \/ box[r] = "none")
    BY <2>1, <2>2, DeliverableIsSettled
  <2>4. ledger' = Gave(ledger)
    BY <2>1, Zenon DEF Given, Gave
  <2>. HIDE DEF r
  <2>5. /\ handed' = [handed EXCEPT ![Result(r)] = @ + 1]
        /\ unsure' = IF Marked(r) THEN unsure ELSE [unsure EXCEPT ![Result(r)] = @ + 1]
        /\ rows' = rows \ {r} /\ offered' = offered \ {r} /\ waiting' = [waiting EXCEPT ![lane] = 0]
        /\ UNCHANGED <<host, disk, restarts, saved, skipped>>
    BY <2>1, Zenon DEF Given, None
  <2>6. IF box[r] = "pending"
          THEN BoxSet(r, "delivered") /\ queue' = Append(queue, Job("delivered", r))
          ELSE UNCHANGED <<box, queue>>
    BY <2>1, Zenon DEF Given, BoxSet, Enqueue
  <2>7. \/ box[r] = "pending" /\ BoxSet(r, "delivered") /\ JobAdded("delivered", r)
        \/ box[r] = "none" /\ UNCHANGED <<box, queue>>
    BY <2>2, <2>3, <2>6 DEF JobAdded, Kinds
  <2>8. waiting[lane] = ledger.rev /\ r = ledger.rev
    BY <2>3 DEF r
  <2>. QED BY <2>1, <2>2, <2>4, <2>5, <2>7, <2>8 DEF HandOverEffect, host
<1>. QED BY <1>1, <1>2

LookEffect ==
  /\ queue[1].kind = "retain" /\ queue[1].at = 1 /\ HeadGoes(2)
  /\ UNCHANGED <<ledger, box, rows, offered, waiting, held, ending, boot, unread, markers, disk>>
  /\ UNCHANGED <<restarts, handed, unsure, saved, skipped>>

SaveItemEffect ==
  LET j == queue[1] IN
  /\ j.kind \in Kinds \ {"archive"} /\ j.at = 2 /\ j.rev \in Revisions /\ boot # "closed" /\ Current(j.rev)
  /\ disk.item[j.rev].saved => OwnItem(j.rev)
  /\ disk' = ItemSaved(disk, j.rev, ledger.attempt[j.rev], j.delivered, j.kind = "prepare")
  /\ saved' = saved \union {Result(j.rev)} /\ HeadGoes(3)
  /\ UNCHANGED <<ledger, box, rows, offered, waiting, held, ending, boot, unread, markers>>
  /\ UNCHANGED <<restarts, handed, unsure, skipped>>

SaveIndexEffect ==
  LET j == queue[1] IN
  /\ j.kind \in Kinds \ {"archive"} /\ j.at = 3 /\ j.rev \in Revisions /\ Current(j.rev)
  /\ disk' = Indexed(disk, j.rev)
  /\ (j.kind = "prepare" /\ HeadGone) \/ (j.kind # "prepare" /\ HeadGoes(4))
  /\ UNCHANGED <<ledger, box, rows, offered, waiting, held, ending, boot, unread, markers>>
  /\ UNCHANGED <<restarts, handed, unsure, saved, skipped>>

SaveFailsEffect ==
  /\ queue[1].kind \in Kinds \ {"archive"} /\ queue[1].at \in {2, 3}
  /\ HeadGone \/ (queue[1].kind # "prepare" /\ HeadGoes(4))
  /\ UNCHANGED <<ledger, box, rows, offered, waiting, held, ending, boot, unread, markers, disk>>
  /\ UNCHANGED <<restarts, handed, unsure, saved, skipped>>

\* The running job marks what it could not save.
FlagsUnsaved == UNCHANGED ledger \/ (queue[1].kind = "retain" /\ ledger' = Flag(ledger, "unsaved"))

SaveLedgerEffect ==
  /\ FlagsUnsaved /\ disk' = LedgerSaved(disk, ledger')
  /\ HeadGone \/ (queue[1].kind = "prepare" /\ queue[1].at = 1 /\ HeadGoes(2))
  /\ UNCHANGED <<box, rows, offered, waiting, held, ending, boot, unread, markers>>
  /\ UNCHANGED <<restarts, handed, unsure, saved, skipped>>

SaveMarkerEffect ==
  LET r == queue[1].rev IN
  /\ queue[1].kind = "delivered" /\ queue[1].at = 1 /\ r \in Revisions /\ Current(r) /\ box[r] # "none"
  /\ disk' = Remembered(disk, Result(r)) /\ ledger' = Flag(ledger, "none") /\ HeadGoes(2)
  /\ UNCHANGED <<box, rows, offered, waiting, held, ending, boot, unread, markers>>
  /\ UNCHANGED <<restarts, handed, unsure, saved, skipped>>

PickEffect ==
  /\ queue # <<>> /\ queue[1] \in JobRows /\ queue[1].kind = "archive" /\ queue[1].at = 1
  /\ \E r \in Revisions : /\ box[r] # "none" /\ box[r] # "reserved" /\ ClosedBy(ledger, r)
                          /\ queue' = <<Picked(queue[1], r)>> \o Tail(queue)
  /\ disk' = LedgerSaved(disk, ledger)
  /\ UNCHANGED <<ledger, box, rows, offered, waiting, held, ending, boot, unread, markers>>
  /\ UNCHANGED <<restarts, handed, unsure, saved, skipped>>

RetireEffect ==
  LET r == queue[1].rev IN
  /\ queue[1].kind = "archive" /\ queue[1].at = 2 /\ r \in Revisions
  /\ \/ r \in disk.index /\ disk' = Archived(disk, r) /\ HeadGoes(3)
     \/ UNCHANGED disk /\ HeadGoes(1)
  /\ UNCHANGED <<ledger, box, rows, offered, waiting, held, ending, boot, unread, markers>>
  /\ UNCHANGED <<restarts, handed, unsure, saved, skipped>>

UnindexEffect ==
  LET r == queue[1].rev IN
  /\ queue[1].kind = "archive" /\ queue[1].at = 3 /\ r \in Revisions
  /\ disk' = Unindexed(disk, r) /\ BoxSet(r, "none") /\ rows' = rows \ {r} /\ HeadGoes(4)
  /\ UNCHANGED <<ledger, offered, waiting, held, ending, boot, unread, markers>>
  /\ UNCHANGED <<restarts, handed, unsure, saved, skipped>>

ReclaimEffect ==
  LET r == queue[1].rev IN
  /\ queue[1].kind = "archive" /\ queue[1].at = 4 /\ r \in Revisions
  /\ ClosedBy(ledger, r) /\ OwnItem(r) /\ r \notin disk.index
  /\ disk' = BodyGone(disk, Result(r)) /\ HeadGoes(5)
  /\ UNCHANGED <<ledger, box, rows, offered, waiting, held, ending, boot, unread, markers>>
  /\ UNCHANGED <<restarts, handed, unsure, saved, skipped>>

ForgetEffect ==
  LET r == queue[1].rev IN
  /\ queue[1].kind = "archive" /\ queue[1].at = 5 /\ r \in Revisions
  /\ disk' = Forgotten(disk, r) /\ HeadGoes(1)
  /\ UNCHANGED <<ledger, box, rows, offered, waiting, held, ending, boot, unread, markers>>
  /\ UNCHANGED <<restarts, handed, unsure, saved, skipped>>

GiveUpEffect ==
  /\ HeadGone /\ FlagsUnsaved
  /\ UNCHANGED <<box, rows, offered, waiting, held, ending, boot, unread, markers, disk>>
  /\ UNCHANGED <<restarts, handed, unsure, saved, skipped>>

LEMMA FlaggedIs == Flagged(queue[1]) = ledger \/ (queue[1].kind = "retain" /\ Flagged(queue[1]) = Flag(ledger, "unsaved"))
BY Zenon DEF Flagged, Flag

LEMMA SaveEffects ==
  ASSUME Basics
  PROVE  /\ Look => LookEffect
         /\ SaveItem => SaveItemEffect
         /\ SaveIndex => SaveIndexEffect
         /\ SaveFails => SaveFailsEffect
<1>. DEFINE j == queue[1]
<1>1. Typed /\ JobsPlaced
  BY DEF Basics
<1>2. ASSUME Look PROVE LookEffect
  <2>1. queue # <<>> /\ j \in JobRows /\ j.kind = "retain" /\ j.at = 1
    BY <1>1, <1>2, RunningJob DEF Look, RunningIs
  <2>. DEFINE here == box[j.rev] # "none"
              given == box[j.rev] = "delivered"
  <2>2. queue' = <<Looked(j, here, given)>> \o Tail(queue)
    BY <1>2, Zenon DEF Look, Looked
  <2>3. here \in BOOLEAN /\ given \in BOOLEAN
    OBVIOUS
  <2>. HIDE DEF here, given, j
  <2>4. Further(j, Looked(j, here, given), 2)
    BY <2>1, <2>3, FurtherJobs
  <2>5. HeadGoes(2)
    BY <2>1, <2>2, <2>4 DEF HeadGoes, Further, j
  <2>6. UNCHANGED <<ledger, box, rows, offered, waiting, host, disk, history>>
    BY <1>2 DEF Look
  <2>. QED BY <2>1, <2>5, <2>6 DEF LookEffect, host, history, j
<1>3. ASSUME SaveItem PROVE SaveItemEffect
  <2>1. queue # <<>> /\ j \in JobRows /\ j.kind \in Kinds \ {"archive"} /\ j.at = 2 /\ j.rev \in Revisions
    BY <1>1, <1>3, RunningJob DEF SaveItem, RunningIs
  <2>2. /\ disk' = ItemSaved(disk, j.rev, ledger.attempt[j.rev], j.delivered, j.kind = "prepare")
        /\ saved' = saved \union {Result(j.rev)} /\ Store /\ Current(j.rev)
        /\ disk.item[j.rev].saved => OwnItem(j.rev)
        /\ UNCHANGED <<ledger, box, rows, offered, waiting, host, restarts, handed, unsure, skipped>>
    BY <1>3, Zenon DEF SaveItem, ItemSaved, Result
  <2>3. Go(j, 3)
    BY <1>3, <2>1 DEF SaveItem, Continue
  <2>4. HeadGoes(3)
    BY <1>1, <2>1, <2>3, GoIs DEF Lasts
  <2>. QED BY <2>1, <2>2, <2>4 DEF SaveItemEffect, Store, host
<1>4. ASSUME SaveIndex PROVE SaveIndexEffect
  <2>1. queue # <<>> /\ j \in JobRows /\ j.kind \in Kinds \ {"archive"} /\ j.at = 3 /\ j.rev \in Revisions
    BY <1>1, <1>4, RunningJob DEF SaveIndex, RunningIs
  <2>2. disk' = Indexed(disk, j.rev) /\ Current(j.rev) /\ UNCHANGED <<ledger, box, rows, offered, waiting, host, history>>
    BY <1>4, Zenon DEF SaveIndex, Indexed
  <2>3. Go(j, 4)
    BY <1>4, <2>1 DEF SaveIndex, Continue
  <2>4. IF 4 > Lasts(j.kind) THEN HeadGone ELSE HeadGoes(4)
    BY <1>1, <2>1, <2>3, GoIs
  <2>5. (j.kind = "prepare" /\ HeadGone) \/ (j.kind # "prepare" /\ HeadGoes(4))
    BY <2>1, <2>4 DEF Lasts
  <2>. QED BY <2>1, <2>2, <2>5 DEF SaveIndexEffect, host, history
<1>5. ASSUME SaveFails PROVE SaveFailsEffect
  <2>1. queue # <<>> /\ j \in JobRows /\ j.kind \in Kinds \ {"archive"} /\ j.at \in {2, 3} /\ (Running("item") <=> j.at = 2)
    BY <1>1, <1>5, RunningJob DEF SaveFails, RunningIs
  <2>2. j.kind \in Kinds /\ Len(Steps[j.kind]) = Lasts(j.kind) /\ queue \in Seq(JobRows) /\ Tail(queue) \in Seq(JobRows)
    BY <1>1, <2>1, StepsAre, HeadTaken DEF Typed
  <2>. DEFINE n == IF Running("item") THEN j.at + 2 ELSE j.at + 1
              t == Tail(queue)
  <2>3. n = 4
    BY <2>1
  <2>4. queue' = (IF n > Len(Steps[j.kind]) THEN <<>> ELSE <<Failed(j, n)>>) \o t
    BY <1>5, Zenon DEF SaveFails, Failed
  <2>. HIDE DEF n, t
  <2>5. queue' = (IF 4 > Lasts(j.kind) THEN <<>> ELSE <<Failed(j, 4)>>) \o t
    BY <2>2, <2>3, <2>4
  <2>6. ASSUME j.kind = "prepare" PROVE HeadGone
    <3>1. queue' = <<>> \o t
      BY <2>5, <2>6 DEF Lasts
    <3>2. queue' = t
      BY <2>2, <3>1, ConcatEmptySeq DEF t
    <3>. QED BY <2>1, <3>2 DEF HeadGone, t
  <2>7. ASSUME j.kind # "prepare" PROVE HeadGoes(4)
    <3>1. queue' = <<Failed(j, 4)>> \o t
      BY <2>1, <2>5, <2>7 DEF Lasts
    <3>2. Further(j, Failed(j, 4), 4)
      BY <2>1, FurtherJobs
    <3>. QED BY <2>1, <3>1, <3>2 DEF HeadGoes, Further, t
  <2>8. UNCHANGED <<ledger, box, rows, offered, waiting, host, disk, history>>
    BY <1>5 DEF SaveFails
  <2>. QED BY <2>1, <2>6, <2>7, <2>8 DEF SaveFailsEffect, host, history
<1>. QED BY <1>2, <1>3, <1>4, <1>5

LEMMA RecordEffects ==
  ASSUME Basics
  PROVE  /\ SaveLedger => SaveLedgerEffect
         /\ SaveMarker => SaveMarkerEffect
         /\ Pick => PickEffect
         /\ GiveUp => GiveUpEffect
<1>. DEFINE j == queue[1]
<1>1. Typed /\ JobsPlaced
  BY DEF Basics
<1>2. ASSUME SaveLedger PROVE SaveLedgerEffect
  <2>1. /\ queue # <<>> /\ j \in JobRows
        /\ \/ j.kind \in {"retain", "delivered"} /\ j.at = 4
           \/ j.kind = "prepare" /\ j.at = 1
    BY <1>1, <1>2, RunningJob DEF SaveLedger, RunningIs
  <2>2. /\ ledger' = Flagged(j) /\ disk' = LedgerSaved(disk, ledger')
        /\ UNCHANGED <<box, rows, offered, waiting, host, history>>
    BY <1>2, Zenon DEF SaveLedger, LedgerSaved
  <2>3. Go(j, j.at + 1)
    BY <1>2 DEF SaveLedger, Continue
  <2>4. CASE j.kind \in {"retain", "delivered"} /\ j.at = 4
    <3>1. Go(j, 5)
      BY <2>3, <2>4
    <3>2. HeadGone
      BY <1>1, <2>1, <2>4, <3>1, GoIs DEF Lasts
    <3>. QED BY <2>2, <3>2, FlaggedIs DEF SaveLedgerEffect, FlagsUnsaved, host, history
  <2>5. CASE j.kind = "prepare" /\ j.at = 1
    <3>1. Go(j, 2)
      BY <2>3, <2>5
    <3>2. HeadGoes(2)
      BY <1>1, <2>1, <2>5, <3>1, GoIs DEF Lasts
    <3>. QED BY <2>2, <2>5, <3>2, FlaggedIs DEF SaveLedgerEffect, FlagsUnsaved, host, history
  <2>. QED BY <2>1, <2>4, <2>5
<1>3. ASSUME SaveMarker PROVE SaveMarkerEffect
  <2>1. queue # <<>> /\ j \in JobRows /\ j.kind = "delivered" /\ j.at = 1 /\ j.rev \in Revisions
    BY <1>1, <1>3, RunningJob DEF SaveMarker, RunningIs
  <2>2. /\ Current(j.rev) /\ box[j.rev] # "none"
        /\ disk' = Remembered(disk, Result(j.rev)) /\ ledger' = Flag(ledger, "none")
        /\ queue' = <<Told(j)>> \o Tail(queue)
        /\ UNCHANGED <<box, rows, offered, waiting, host, history>>
    BY <1>3, Zenon DEF SaveMarker, Remembered, Flag, Told
  <2>3. Further(j, Told(j), 2)
    BY <2>1, FurtherJobs
  <2>4. HeadGoes(2)
    BY <2>1, <2>2, <2>3 DEF HeadGoes, Further
  <2>. QED BY <2>1, <2>2, <2>4 DEF SaveMarkerEffect, host, history
<1>4. ASSUME Pick PROVE PickEffect
  <2>1. queue # <<>> /\ j \in JobRows /\ j.kind = "archive" /\ j.at = 1
    BY <1>1, <1>4, RunningJob DEF Pick, RunningIs
  <2>2. disk' = LedgerSaved(disk, ledger) /\ UNCHANGED <<ledger, box, rows, offered, waiting, host, history>>
    BY <1>4, Zenon DEF Pick, LedgerSaved
  <2>3. PICK r \in Closable(j) : queue' = <<Picked(j, r)>> \o Tail(queue)
    BY <1>4, Zenon DEF Pick, Picked
  <2>4. r \in Revisions /\ box[r] # "none" /\ box[r] # "reserved" /\ ClosedBy(ledger, r)
    BY DEF Closable, Rows
  <2>. QED BY <2>1, <2>2, <2>3, <2>4 DEF PickEffect, host, history
<1>5. ASSUME GiveUp PROVE GiveUpEffect
  <2>1. queue # <<>> /\ j \in JobRows /\ queue' = Tail(queue)
    BY <1>1, <1>5, FirstJob DEF GiveUp
  <2>2. ledger' = ledger \/ ledger' = Flagged(j)
    BY <1>5 DEF GiveUp
  <2>3. UNCHANGED <<box, rows, offered, waiting, host, disk, history>>
    BY <1>5 DEF GiveUp
  <2>. QED BY <2>1, <2>2, <2>3, FlaggedIs DEF GiveUpEffect, HeadGone, FlagsUnsaved, host, history
<1>. QED BY <1>2, <1>3, <1>4, <1>5

LEMMA ArchiveEffects ==
  ASSUME Basics
  PROVE  /\ Retire => RetireEffect
         /\ Unindex => UnindexEffect
         /\ Reclaim => ReclaimEffect
         /\ Forget => ForgetEffect
<1>. DEFINE j == queue[1]
<1>1. Typed /\ JobsPlaced
  BY DEF Basics
<1>2. ASSUME Retire PROVE RetireEffect
  <2>1. queue # <<>> /\ j \in JobRows /\ j.kind = "archive" /\ j.at = 2 /\ j.rev \in Revisions
    BY <1>1, <1>2, RunningJob DEF Retire, RunningIs
  <2>2. /\ UNCHANGED <<ledger, box, rows, offered, waiting, host, history>>
        /\ \/ j.rev \in disk.index /\ disk' = Archived(disk, j.rev) /\ Go(j, j.at + 1)
           \/ UNCHANGED disk /\ Go(j, 1)
    BY <1>2, Zenon DEF Retire, Archived, Continue
  <2>3. Go(j, j.at + 1) => HeadGoes(3)
    BY <1>1, <2>1, GoIs, 3 \in 1 .. 6 DEF Lasts
  <2>4. Go(j, 1) => HeadGoes(1)
    BY <1>1, <2>1, GoIs, 1 \in 1 .. 6 DEF Lasts
  <2>. QED BY <2>1, <2>2, <2>3, <2>4 DEF RetireEffect, host, history
<1>3. ASSUME Unindex PROVE UnindexEffect
  <2>1. queue # <<>> /\ j \in JobRows /\ j.kind = "archive" /\ j.at = 3 /\ j.rev \in Revisions
    BY <1>1, <1>3, RunningJob DEF Unindex, RunningIs
  <2>2. /\ UNCHANGED <<ledger, offered, waiting, host, history>> /\ rows' = rows \ {j.rev} /\ BoxSet(j.rev, "none")
        /\ disk' = Unindexed(disk, j.rev) /\ Go(j, j.at + 1)
    BY <1>3, Zenon DEF Unindex, Unindexed, BoxSet, Continue
  <2>3. HeadGoes(4)
    BY <1>1, <2>1, <2>2, GoIs, 4 \in 1 .. 6 DEF Lasts
  <2>. QED BY <2>1, <2>2, <2>3 DEF UnindexEffect, host, history
<1>4. ASSUME Reclaim PROVE ReclaimEffect
  <2>1. queue # <<>> /\ j \in JobRows /\ j.kind = "archive" /\ j.at = 4 /\ j.rev \in Revisions
    BY <1>1, <1>4, RunningJob DEF Reclaim, RunningIs
  <2>2. /\ UNCHANGED <<ledger, box, rows, offered, waiting, host, history>>
        /\ ClosedBy(ledger, j.rev) /\ OwnItem(j.rev) /\ j.rev \notin disk.index
        /\ disk' = BodyGone(disk, Result(j.rev)) /\ Go(j, j.at + 1)
    BY <1>4, Zenon DEF Reclaim, BodyGone, Continue
  <2>3. HeadGoes(5)
    BY <1>1, <2>1, <2>2, GoIs, 5 \in 1 .. 6 DEF Lasts
  <2>. QED BY <2>1, <2>2, <2>3 DEF ReclaimEffect, host, history
<1>5. ASSUME Forget PROVE ForgetEffect
  <2>1. queue # <<>> /\ j \in JobRows /\ j.kind = "archive" /\ j.at = 5 /\ j.rev \in Revisions
    BY <1>1, <1>5, RunningJob DEF Forget, RunningIs
  <2>2. /\ UNCHANGED <<ledger, box, rows, offered, waiting, host, history>>
        /\ disk' = Forgotten(disk, j.rev) /\ Go(j, 1)
    BY <1>5, Zenon DEF Forget, Forgotten
  <2>3. HeadGoes(1)
    BY <1>1, <2>1, <2>2, GoIs, 1 \in 1 .. 6 DEF Lasts
  <2>. QED BY <2>1, <2>2, <2>3 DEF ForgetEffect, host, history
<1>. QED BY <1>2, <1>3, <1>4, <1>5

SaveChangedEffect ==
  /\ disk' = LedgerSaved(disk, ledger)
  /\ UNCHANGED <<ledger, box, rows, queue, offered, waiting, held, ending, boot, unread, markers>>
  /\ UNCHANGED <<restarts, handed, unsure, saved, skipped>>

RestartEffect ==
  /\ restarts < MaxRestarts /\ restarts' = restarts + 1
  /\ ledger' = Interrupted(disk.ledger)
  /\ box' = [r \in Revisions |-> "none"] /\ rows' = {} /\ offered' = {} /\ queue' = <<>>
  /\ waiting' = [lane \in Lanes |-> 0]
  /\ held' = FALSE /\ ending' = FALSE /\ boot' = "closed" /\ unread' = {} /\ markers' = disk.marker /\ skipped' = {}
  /\ UNCHANGED <<disk, handed, unsure, saved>>

ReclaimArchivedEffect(r) ==
  /\ r \in Revisions /\ boot = "reclaiming"
  /\ disk.item[r].archived /\ r \notin disk.index /\ OwnItem(r) /\ ClosedBy(ledger, r)
  /\ disk' = Reclaimed(disk, r, Result(r))
  /\ UNCHANGED <<ledger, box, rows, queue, offered, waiting, held, ending, boot, unread, markers>>
  /\ UNCHANGED <<restarts, handed, unsure, saved, skipped>>

\* What recovery reads it only passes over, or it offers it again.
BootEffect ==
  /\ boot' \in {"reclaiming", "reading", "ready"} /\ boot # boot'
  /\ boot' = "reclaiming" => boot = "closed" /\ unread' = unread /\ offered' = offered
  /\ boot' = "reading" => boot = "reclaiming" /\ unread' = disk.index /\ offered' = offered
  /\ boot' = "ready" => boot = "reading" /\ unread = {} /\ unread' = {} /\ offered' \subseteq offered \union rows
  /\ UNCHANGED <<ledger, box, rows, queue, waiting, held, ending, markers, disk>>
  /\ UNCHANGED <<restarts, handed, unsure, saved, skipped>>

PassOverEffect(r) ==
  /\ r \in unread /\ ~Entry(r) /\ unread' = unread \ {r}
  /\ skipped' = IF held THEN skipped \union {r} ELSE skipped
  /\ UNCHANGED <<ledger, box, rows, queue, offered, waiting, held, ending, boot, markers, disk>>
  /\ UNCHANGED <<restarts, handed, unsure, saved>>

LeaveUnknownEffect(r) ==
  /\ r \in unread /\ Entry(r) /\ Attempted(r) /\ unread' = unread \ {r}
  /\ ledger' = Flag(ledger, IF Result(r) \in markers THEN "none" ELSE "unknown")
  /\ UNCHANGED <<box, rows, queue, offered, waiting, held, ending, boot, markers, disk>>
  /\ UNCHANGED <<restarts, handed, unsure, saved, skipped>>

RestoreEffect(r) ==
  /\ r \in unread /\ Entry(r) /\ ~Attempted(r) /\ unread' = unread \ {r}
  /\ \/ box[r] # "none" /\ UNCHANGED <<box, rows, ledger>>
     \/ box[r] = "none" /\ BoxSet(r, "pending") /\ rows' = rows \union {r} /\ ledger' = Flag(ledger, "none")
  /\ UNCHANGED <<queue, offered, waiting, held, ending, boot, markers, disk>>
  /\ UNCHANGED <<restarts, handed, unsure, saved, skipped>>

LEMMA HostEffects ==
  /\ SaveChangedLedger => SaveChangedEffect
  /\ Restart => RestartEffect
  /\ \A r \in Revisions : ReclaimArchived(r) => ReclaimArchivedEffect(r)
<1>1. SaveChangedLedger => SaveChangedEffect
  BY Zenon DEF SaveChangedLedger, SaveChangedEffect, LedgerSaved, memory, host, history
<1>2. Restart => RestartEffect
  BY Zenon DEF Restart, RestartEffect, Interrupted, None
<1>3. ASSUME NEW r \in Revisions, ReclaimArchived(r)
      PROVE  ReclaimArchivedEffect(r)
  BY <1>3, Zenon DEF ReclaimArchived, ReclaimArchivedEffect, Reclaimed, memory, host, history
<1>. QED BY <1>1, <1>2, <1>3

LEMMA RecoveryEffects ==
  ASSUME Basics
  PROVE  /\ OpenStore \/ StartReading \/ Offer => BootEffect
         /\ \A r \in Revisions : /\ PassOver(r) => PassOverEffect(r)
                                 /\ LeaveUnknown(r) => LeaveUnknownEffect(r)
                                 /\ Restore(r) => RestoreEffect(r)
<1>0. boot = "closed" => unread = {}
  BY DEF Basics, Typed
<1>1. OpenStore => BootEffect
  BY <1>0 DEF OpenStore, BootEffect, history
<1>2. StartReading => BootEffect
  BY DEF StartReading, BootEffect, history
<1>3. Offer => BootEffect
  BY DEF Offer, BootEffect, history
<1>4. ASSUME NEW r \in Revisions
      PROVE  /\ PassOver(r) => PassOverEffect(r)
             /\ LeaveUnknown(r) => LeaveUnknownEffect(r)
             /\ Restore(r) => RestoreEffect(r)
  <2>1. PassOver(r) => PassOverEffect(r)
    BY DEF PassOver, PassOverEffect
  <2>2. ASSUME LeaveUnknown(r)
        PROVE  LeaveUnknownEffect(r)
    <3>1. ledger' = Flag(ledger, IF Result(r) \in markers THEN "none" ELSE "unknown")
      BY <2>2, Zenon DEF LeaveUnknown, Flag
    <3>2. /\ r \in unread /\ Entry(r) /\ Attempted(r) /\ unread' = unread \ {r}
          /\ UNCHANGED <<box, rows, queue, offered, waiting, held, ending, boot, markers, disk, history>>
      BY <2>2 DEF LeaveUnknown
    <3>. QED BY <3>1, <3>2 DEF LeaveUnknownEffect, history
  <2>3. ASSUME Restore(r)
        PROVE  RestoreEffect(r)
    <3>1. /\ r \in unread /\ Entry(r) /\ ~Attempted(r) /\ unread' = unread \ {r}
          /\ UNCHANGED <<queue, offered, waiting, held, ending, boot, markers, disk, history>>
      BY <2>3 DEF Restore
    <3>2. \/ box[r] # "none" /\ UNCHANGED <<box, rows, ledger>>
          \/ box[r] = "none" /\ BoxSet(r, "pending") /\ rows' = rows \union {r} /\ ledger' = Flag(ledger, "none")
      BY <2>3, Zenon DEF Restore, BoxSet, Flag
    <3>. QED BY <3>1, <3>2 DEF RestoreEffect, history
  <2>. QED BY <2>1, <2>2, <2>3
<1>. QED BY <1>1, <1>2, <1>3, <1>4

-----------------------------------------------------------------------------
(* The invariant of the attempts: what is yet to be made in this life of   *)
(* the host has left no trace, and only what was made is known or handed   *)
(* over.                                                                   *)

Unborn(l, r) == r > l.rev \/ (r = l.rev /\ l.life = "active")

Fresh ==
  /\ ledger.life = "active" => ledger.attempt[ledger.rev] = restarts
  /\ \A r \in Revisions :
       /\ ledger.attempt[r] <= restarts /\ disk.ledger.attempt[r] <= restarts /\ disk.item[r].attempt <= restarts
       /\ Unborn(ledger, r) =>
            ~(disk.item[r].saved /\ disk.item[r].attempt = restarts) /\ handed[<<r, restarts>>] = 0
  /\ \A x \in Results : handed[x] > 0 => x[2] <= restarts

Known ==
  /\ offered \subseteq ledger.settled
  /\ \A lane \in Lanes : waiting[lane] = 0 \/ waiting[lane] \in ledger.settled
  /\ \A r \in Revisions : box[r] \in {"pending", "delivered"} => r \in ledger.settled

Core == Basics /\ Fresh /\ Known

\* What every step but a restart does to the ledger, of which n is the attempt it begins.
LedgerTurn(l, m, n) ==
  /\ Grows(l, m)
  /\ (l.rev >= 1 /\ l.attempt[l.rev] = n) => (m.rev >= 1 /\ m.attempt[m.rev] = n)
  /\ m.life = "active" => m.attempt[m.rev] = n
  /\ m.rev # l.rev => m.life = "active"
  /\ m.life = "settled" => l.life \in {"active", "settled"}
  /\ \A r \in Revisions : m.attempt[r] = l.attempt[r] \/ m.attempt[r] = n
  /\ \A r \in Revisions : Unborn(m, r) => Unborn(l, r)

TurnsFrom(l, n) ==
  /\ l \in LedgerRows /\ n \in Attempts /\ Shape(l) /\ (l.life = "active" => l.attempt[l.rev] = n)
  /\ \A r \in Revisions : l.attempt[r] <= n

LEMMA SameTurn ==
  ASSUME NEW l, NEW n, TurnsFrom(l, n)
  PROVE  LedgerTurn(l, l, n)
BY AheadItself, BoundsAssumption DEF TurnsFrom, LedgerTurn, Grows, Shape, Unborn, LedgerRows

LEMMA RunTurn ==
  ASSUME NEW l, NEW n, TurnsFrom(l, n), NEW m \in LedgerRows, SameRun(l, m)
  PROVE  LedgerTurn(l, m, n)
<1>1. Grows(l, m)
  BY RunGrows DEF TurnsFrom
<1>. QED BY <1>1 DEF TurnsFrom, LedgerTurn, SameRun, Unborn

LEMMA BegunTurn ==
  ASSUME NEW l, TurnsFrom(l, 0), l.rev = 0
  PROVE  LedgerTurn(l, Begun(l), 0)
<1>1. Grows(l, Begun(l)) /\ Begun(l).rev = 1 /\ Begun(l).life = "active" /\ Begun(l).attempt = l.attempt /\ 1 \in Revisions
  BY BegunGrows, BegunRow, BoundsAssumption DEF TurnsFrom, Revisions
<1>2. \A r \in Revisions : l.attempt[r] = 0
  BY BoundsAssumption DEF TurnsFrom, LedgerRows, Attempts
<1>3. \A r \in Revisions : r > 0
  BY BoundsAssumption DEF Revisions
<1>. QED BY <1>1, <1>2, <1>3 DEF LedgerTurn, Unborn

LEMMA SettledTurn ==
  ASSUME NEW l, NEW n, TurnsFrom(l, n), l.life = "active"
  PROVE  LedgerTurn(l, Settled(l), n) /\ l.rev \in Revisions
<1>1. l.rev \in Revisions /\ Grows(l, Settled(l))
  BY SettledGrows DEF TurnsFrom
<1>2. Settled(l).rev = l.rev /\ Settled(l).life = "settled" /\ Settled(l).attempt = l.attempt
  BY <1>1, SettledRow DEF TurnsFrom
<1>. QED BY <1>1, <1>2 DEF LedgerTurn, Unborn

LEMMA DecidedTurn ==
  ASSUME NEW l, NEW n, TurnsFrom(l, n), l.life = "settled"
  PROVE  LedgerTurn(l, DecidedRow(l), n)
<1>1. l.rev \in Revisions /\ Grows(l, DecidedRow(l))
  BY DecidedGrows DEF TurnsFrom
<1>2. DecidedRow(l).rev = l.rev /\ DecidedRow(l).life = l.life /\ DecidedRow(l).attempt = l.attempt
  BY <1>1, DecidedRowIs DEF TurnsFrom
<1>. QED BY <1>1, <1>2 DEF LedgerTurn, Unborn

LEMMA ReworkedTurn ==
  ASSUME NEW l, NEW n, TurnsFrom(l, n), l.life = "settled", l.rev < MaxRevision
  PROVE  LedgerTurn(l, Reworked(l, n), n)
<1>. DEFINE m == Reworked(l, n)
<1>1. l.rev \in Revisions /\ Grows(l, m)
  BY ReworkedGrows DEF TurnsFrom
<1>2. /\ m.rev = l.rev + 1 /\ m.life = "active" /\ m.attempt[l.rev + 1] = n
      /\ \A r \in Revisions \ {l.rev + 1} : m.attempt[r] = l.attempt[r]
  BY ReworkedRow DEF TurnsFrom
<1>3. l.rev \in Nat /\ Revisions \subseteq Nat /\ l.rev >= 1
  BY <1>1, BoundsAssumption DEF Revisions
<1>. HIDE DEF m
<1>4. \A r \in Revisions : Unborn(m, r) => Unborn(l, r)
  BY <1>2, <1>3 DEF Unborn
<1>5. LedgerTurn(l, m, n)
  BY <1>1, <1>2, <1>3, <1>4 DEF LedgerTurn
<1>. QED BY <1>5 DEF m

LEMMA RescopedTurn ==
  ASSUME NEW l, NEW n, TurnsFrom(l, n), NEW from, NEW to \in Scopes, "closed" \notin from
  PROVE  LedgerTurn(l, Rescoped(l, from, to), n)
<1>1. Grows(l, Rescoped(l, from, to))
  BY RescopedGrows DEF TurnsFrom
<1>2. /\ Rescoped(l, from, to).rev = l.rev /\ Rescoped(l, from, to).life = l.life
      /\ Rescoped(l, from, to).attempt = l.attempt
  BY RescopedRow DEF TurnsFrom
<1>. QED BY <1>1, <1>2 DEF LedgerTurn, Unborn, TurnsFrom

\* The same of the flags, whatever is flagged.
LEMMA FlagTurn ==
  ASSUME NEW l, NEW n, TurnsFrom(l, n), NEW v \in Recoveries
  PROVE  LedgerTurn(l, Flag(l, v), n) /\ LedgerTurn(l, Gave(l), n)
BY FlagRow, GaveRow, RunTurn DEF TurnsFrom

WithdrawEffect(lane) ==
  /\ lane \in Lanes /\ waiting' = [waiting EXCEPT ![lane] = 0]
  /\ UNCHANGED <<ledger, box, rows, queue, offered, held, ending, boot, unread, markers, disk>>
  /\ UNCHANGED <<restarts, handed, unsure, saved, skipped>>

ShutdownEffect ==
  /\ ending' = TRUE
  /\ UNCHANGED <<ledger, box, rows, queue, offered, waiting, held, boot, unread, markers, disk>>
  /\ UNCHANGED <<restarts, handed, unsure, saved, skipped>>

DelegationEffect ==
  \/ DispatchEffect \/ RetainEffect \/ DecideEffect \/ ReworkEffect \/ StopEffect \/ ResumeEffect \/ RemoveEffect

LaneEffect ==
  \E lane \in Lanes :
    (\E r \in Revisions : PrepareEffect(lane, r)) \/ HandOverEffect(lane) \/ WithdrawEffect(lane)

JobEffect ==
  \/ LookEffect \/ SaveItemEffect \/ SaveIndexEffect \/ SaveFailsEffect \/ SaveLedgerEffect \/ SaveMarkerEffect
  \/ PickEffect \/ RetireEffect \/ UnindexEffect \/ ReclaimEffect \/ ForgetEffect \/ GiveUpEffect

HostEffect ==
  \/ SaveChangedEffect \/ ShutdownEffect \/ BootEffect
  \/ \E r \in Revisions :
       ReclaimArchivedEffect(r) \/ PassOverEffect(r) \/ LeaveUnknownEffect(r) \/ RestoreEffect(r)

Effect == DelegationEffect \/ LaneEffect \/ JobEffect \/ HostEffect

LEMMA EveryEffect ==
  ASSUME Core, [Next]_vars
  PROVE  Effect \/ RestartEffect \/ UNCHANGED vars
<1>. USE DEF Core
<1>1. CASE UNCHANGED vars
  BY <1>1
<1>2. CASE Dispatch \/ Retain \/ Decide \/ Rework \/ Stop \/ Resume \/ Remove
  BY <1>2, DelegationEffects, ScopeEffects DEF DelegationEffect, Effect
<1>3. CASE \E lane \in Lanes : Delivery(lane)
  <2>1. PICK lane \in Lanes : Delivery(lane)
    BY <1>3
  <2>2. Withdraw(lane) => WithdrawEffect(lane)
    BY DEF Withdraw, WithdrawEffect, None, host, history
  <2>. QED BY <2>1, <2>2, DeliveryEffects DEF Delivery, LaneEffect, Effect
<1>4. CASE JobStep
  BY <1>4, SaveEffects, RecordEffects, ArchiveEffects DEF JobStep, JobEffect, Effect
<1>5. CASE SaveChangedLedger
  BY <1>5, HostEffects DEF HostEffect, Effect
<1>6. CASE Shutdown
  BY <1>6 DEF Shutdown, ShutdownEffect, history, HostEffect, Effect
<1>7. CASE Restart
  BY <1>7, HostEffects
<1>8. CASE Recovery
  <2>1. CASE OpenStore \/ StartReading \/ Offer
    BY <2>1, RecoveryEffects DEF HostEffect, Effect
  <2>2. CASE \E r \in Revisions : ReclaimArchived(r) \/ PassOver(r) \/ LeaveUnknown(r) \/ Restore(r)
    BY <2>2, RecoveryEffects, HostEffects DEF HostEffect, Effect
  <2>. QED BY <1>8, <2>1, <2>2 DEF Recovery
<1>. QED BY <1>1, <1>2, <1>3, <1>4, <1>5, <1>6, <1>7, <1>8 DEF Next

LedgerMoves ==
  /\ restarts' = restarts /\ LedgerTurn(ledger, ledger', restarts)
  /\ disk' \in DiskRows /\ (disk'.ledger = disk.ledger \/ disk'.ledger = ledger')

LEMMA TurnsHere ==
  ASSUME Core
  PROVE  TurnsFrom(ledger, restarts) /\ LedgerTurn(ledger, ledger, restarts) /\ ledger \in LedgerRows /\ disk \in DiskRows
<1>1. TurnsFrom(ledger, restarts)
  BY DEF Core, Basics, Typed, Fresh, TurnsFrom
<1>. QED BY <1>1, SameTurn DEF Core, Basics, Typed

LEMMA DelegationMoves ==
  ASSUME Core, DelegationEffect
  PROVE  LedgerMoves
<1>1. TurnsFrom(ledger, restarts) /\ LedgerTurn(ledger, ledger, restarts) /\ disk \in DiskRows
  BY TurnsHere
<1>2. CASE DispatchEffect
  BY <1>1, <1>2, BegunTurn DEF DispatchEffect, LedgerMoves
<1>3. CASE RetainEffect
  BY <1>1, <1>3, SettledTurn DEF RetainEffect, LedgerMoves
<1>4. CASE DecideEffect
  BY <1>1, <1>4, DecidedTurn DEF DecideEffect, LedgerMoves
<1>5. CASE ReworkEffect
  BY <1>1, <1>5, ReworkedTurn DEF ReworkEffect, LedgerMoves
<1>6. \A to : (UNCHANGED ledger \/ \E from : Rescoping(from, to)) => LedgerTurn(ledger, ledger', restarts)
  BY <1>1, RescopedTurn DEF Rescoping
<1>7. CASE StopEffect \/ ResumeEffect \/ RemoveEffect
  BY <1>1, <1>6, <1>7 DEF StopEffect, ResumeEffect, RemoveEffect, LedgerMoves
<1>. QED BY <1>2, <1>3, <1>4, <1>5, <1>7 DEF DelegationEffect

LEMMA LaneMoves ==
  ASSUME Core, LaneEffect
  PROVE  LedgerMoves
<1>1. /\ TurnsFrom(ledger, restarts) /\ LedgerTurn(ledger, ledger, restarts) /\ disk \in DiskRows
      /\ LedgerTurn(ledger, Gave(ledger), restarts) /\ LedgerTurn(ledger, Flag(ledger, "unknown"), restarts)
  BY TurnsHere, FlagTurn DEF Recoveries
<1>. QED BY <1>1 DEF LaneEffect, PrepareEffect, HandOverEffect, WithdrawEffect, LedgerMoves

\* What the save of an item leaves on the disk, in full.
ItemOnDisk(j, e) ==
  LET r == j.rev
      n == ledger.attempt[r] IN
  /\ e \in DiskRows /\ e.ledger = disk.ledger /\ e.index = disk.index /\ e.marker = disk.marker
  /\ e.body = disk.body \union {<<r, n>>}
  /\ e.item[r].saved /\ e.item[r].attempt = n
  /\ disk.item[r].delivered => e.item[r].delivered
  /\ disk.item[r].attempted => e.item[r].attempted
  /\ e.item[r].archived = disk.item[r].archived
  /\ \A s \in Revisions \ {r} : e.item[s] = disk.item[s]

LEMMA SavedItem ==
  ASSUME Typed, SaveItemEffect
  PROVE  ItemOnDisk(queue[1], disk')
<1>. DEFINE r == queue[1].rev
            n == ledger.attempt[r]
            given == queue[1].delivered
            tried == queue[1].kind = "prepare"
<1>1. queue[1] \in JobRows /\ r \in Revisions /\ disk' = ItemSaved(disk, r, n, given, tried)
  BY DEF SaveItemEffect, HeadGoes
<1>2. given \in BOOLEAN /\ tried \in BOOLEAN /\ disk \in DiskRows /\ n \in Attempts
  BY <1>1 DEF JobRows, Typed, LedgerRows
<1>. HIDE DEF r, n, given, tried
<1>3. LET e == disk' IN
      /\ e \in DiskRows /\ e.ledger = disk.ledger /\ e.index = disk.index /\ e.marker = disk.marker
      /\ e.body = disk.body \union {<<r, n>>}
      /\ e.item[r].saved /\ e.item[r].attempt = n
      /\ e.item[r].delivered = (disk.item[r].delivered \/ given)
      /\ e.item[r].attempted = (disk.item[r].attempted \/ tried)
      /\ e.item[r].archived = disk.item[r].archived
      /\ \A s \in Revisions \ {r} : e.item[s] = disk.item[s]
  BY <1>1, <1>2, ItemSavedIs
<1>. QED BY <1>3 DEF ItemOnDisk, r, n

LEMMA JobMoves ==
  ASSUME Core, JobEffect
  PROVE  LedgerMoves
<1>1. /\ TurnsFrom(ledger, restarts) /\ LedgerTurn(ledger, ledger, restarts) /\ disk \in DiskRows /\ ledger \in LedgerRows
      /\ LedgerTurn(ledger, Flag(ledger, "unsaved"), restarts) /\ LedgerTurn(ledger, Flag(ledger, "none"), restarts)
      /\ Flag(ledger, "unsaved") \in LedgerRows
  BY TurnsHere, FlagTurn, FlagRow DEF Recoveries
<1>2. CASE LookEffect \/ SaveFailsEffect \/ GiveUpEffect
  BY <1>1, <1>2 DEF LookEffect, SaveFailsEffect, GiveUpEffect, FlagsUnsaved, LedgerMoves
<1>3. \A r \in Revisions : ledger.attempt[r] \in Attempts /\ Result(r) \in Results
  BY <1>1 DEF LedgerRows, Result, Results
<1>4. CASE SaveItemEffect
  BY <1>1, <1>4, SavedItem DEF Core, Basics, ItemOnDisk, SaveItemEffect, LedgerMoves
<1>5. CASE SaveIndexEffect
  BY <1>1, <1>5, IndexedIs DEF SaveIndexEffect, LedgerMoves
<1>6. CASE SaveLedgerEffect
  <2>1. ledger' \in LedgerRows /\ LedgerTurn(ledger, ledger', restarts)
    BY <1>1, <1>6 DEF SaveLedgerEffect, FlagsUnsaved
  <2>2. disk' \in DiskRows /\ disk'.ledger = ledger'
    BY <1>1, <1>6, <2>1, LedgerSavedIs DEF SaveLedgerEffect
  <2>. QED BY <1>6, <2>1, <2>2 DEF SaveLedgerEffect, LedgerMoves
<1>7. CASE SaveMarkerEffect
  BY <1>1, <1>3, <1>7, RememberedIs DEF SaveMarkerEffect, LedgerMoves
<1>8. CASE PickEffect
  BY <1>1, <1>8, LedgerSavedIs DEF PickEffect, LedgerMoves
<1>9. CASE RetireEffect
  BY <1>1, <1>9, ArchivedIs DEF RetireEffect, LedgerMoves
<1>10. CASE UnindexEffect
  BY <1>1, <1>10, IndexedIs DEF UnindexEffect, LedgerMoves
<1>11. CASE ReclaimEffect
  BY <1>1, <1>3, <1>11, RememberedIs DEF ReclaimEffect, LedgerMoves
<1>12. CASE ForgetEffect
  BY <1>1, <1>3, <1>12, ForgottenIs DEF ForgetEffect, LedgerMoves
<1>. QED BY <1>2, <1>4, <1>5, <1>6, <1>7, <1>8, <1>9, <1>10, <1>11, <1>12 DEF JobEffect

LEMMA HostMoves ==
  ASSUME Core, HostEffect
  PROVE  LedgerMoves
<1>1. /\ TurnsFrom(ledger, restarts) /\ LedgerTurn(ledger, ledger, restarts) /\ disk \in DiskRows /\ ledger \in LedgerRows
      /\ LedgerTurn(ledger, Flag(ledger, "unknown"), restarts) /\ LedgerTurn(ledger, Flag(ledger, "none"), restarts)
  BY TurnsHere, FlagTurn DEF Recoveries
<1>2. \A r \in Revisions : Result(r) \in Results
  BY <1>1 DEF LedgerRows, Result, Results
<1>3. CASE SaveChangedEffect
  BY <1>1, <1>3, LedgerSavedIs DEF SaveChangedEffect, LedgerMoves
<1>4. CASE ShutdownEffect \/ BootEffect
  BY <1>1, <1>4 DEF ShutdownEffect, BootEffect, LedgerMoves
<1>5. ASSUME NEW r \in Revisions, ReclaimArchivedEffect(r)
      PROVE  LedgerMoves
  BY <1>1, <1>2, <1>5, ReclaimedIs DEF ReclaimArchivedEffect, LedgerMoves
<1>6. ASSUME NEW r \in Revisions, PassOverEffect(r) \/ LeaveUnknownEffect(r) \/ RestoreEffect(r)
      PROVE  LedgerMoves
  BY <1>1, <1>6 DEF PassOverEffect, LeaveUnknownEffect, RestoreEffect, LedgerMoves
<1>. QED BY <1>3, <1>4, <1>5, <1>6 DEF HostEffect

LEMMA EveryMove ==
  ASSUME Core, Effect
  PROVE  LedgerMoves
BY DelegationMoves, LaneMoves, JobMoves, HostMoves DEF Effect

-----------------------------------------------------------------------------
(* What the steps do to the rest.                                          *)

BoxRows == [Revisions -> {"none", "reserved", "pending", "delivered"}]

BoxTyped == box \in BoxRows /\ rows = {r \in Revisions : box[r] = "pending"}

LEMMA BoxSetTyped ==
  ASSUME BoxTyped, NEW r \in Revisions, NEW v \in {"none", "reserved", "pending", "delivered"}, BoxSet(r, v)
  PROVE  /\ box' \in BoxRows /\ box'[r] = v /\ \A s \in Revisions \ {r} : box'[s] = box[s]
         /\ v = "pending" /\ rows' = rows \union {r} => BoxTyped'
         /\ v # "pending" /\ rows' = rows \ {r} => BoxTyped'
<1>1. box' \in BoxRows /\ box'[r] = v /\ \A s \in Revisions \ {r} : box'[s] = box[s]
  BY DEF BoxTyped, BoxRows, BoxSet
<1>2. {s \in Revisions : box'[s] = "pending"} = IF v = "pending" THEN rows \union {r} ELSE rows \ {r}
  BY <1>1 DEF BoxTyped
<1>. QED BY <1>1, <1>2 DEF BoxTyped

LEMMA ReservedTyped ==
  ASSUME BoxTyped, NEW r \in Revisions, BoxReserved(r), rows' = rows
  PROVE  BoxTyped'
BY DEF BoxTyped, BoxReserved, BoxRows

LEMMA BoxEffects ==
  ASSUME Core, Effect
  PROVE  BoxTyped'
<1>1. BoxTyped
  BY DEF Core, Basics, Typed, BoxTyped, BoxRows
<1>2. CASE DispatchEffect
  BY <1>1, <1>2, ReservedTyped DEF DispatchEffect
<1>3. CASE ReworkEffect
  BY <1>1, <1>3, ReservedTyped DEF ReworkEffect
<1>4. CASE RetainEffect
  BY <1>1, <1>4, BoxSetTyped DEF RetainEffect, BoxTyped
<1>5. CASE DecideEffect \/ StopEffect \/ ResumeEffect \/ RemoveEffect
  BY <1>1, <1>5 DEF DecideEffect, StopEffect, ResumeEffect, RemoveEffect, BoxTyped
<1>6. ASSUME NEW lane \in Lanes, NEW r \in Revisions, PrepareEffect(lane, r)
      PROVE  BoxTyped'
  BY <1>1, <1>6 DEF PrepareEffect, BoxTyped
<1>7. ASSUME NEW lane \in Lanes, WithdrawEffect(lane)
      PROVE  BoxTyped'
  BY <1>1, <1>7 DEF WithdrawEffect, BoxTyped
<1>8. ASSUME NEW lane \in Lanes, HandOverEffect(lane)
      PROVE  BoxTyped'
  <2>1. CASE BoxSet(ledger.rev, "delivered")
    BY <1>1, <1>8, <2>1, BoxSetTyped DEF HandOverEffect
  <2>2. CASE box[ledger.rev] = "none" /\ UNCHANGED box
    BY <1>1, <1>8, <2>2 DEF HandOverEffect, BoxTyped
  <2>. QED BY <1>8, <2>1, <2>2 DEF HandOverEffect
<1>9. CASE UnindexEffect
  BY <1>1, <1>9, BoxSetTyped DEF UnindexEffect
<1>10. CASE \/ LookEffect \/ SaveItemEffect \/ SaveIndexEffect \/ SaveFailsEffect \/ SaveLedgerEffect \/ SaveMarkerEffect
            \/ PickEffect \/ RetireEffect \/ ReclaimEffect \/ ForgetEffect \/ GiveUpEffect
  BY <1>1, <1>10 DEF LookEffect, SaveItemEffect, SaveIndexEffect, SaveFailsEffect, SaveLedgerEffect, SaveMarkerEffect,
    PickEffect, RetireEffect, ReclaimEffect, ForgetEffect, GiveUpEffect, BoxTyped
<1>11. CASE SaveChangedEffect \/ ShutdownEffect \/ BootEffect
  BY <1>1, <1>11 DEF SaveChangedEffect, ShutdownEffect, BootEffect, BoxTyped
<1>12. ASSUME NEW r \in Revisions, ReclaimArchivedEffect(r) \/ PassOverEffect(r) \/ LeaveUnknownEffect(r)
       PROVE  BoxTyped'
  BY <1>1, <1>12 DEF ReclaimArchivedEffect, PassOverEffect, LeaveUnknownEffect, BoxTyped
<1>13. ASSUME NEW r \in Revisions, RestoreEffect(r)
       PROVE  BoxTyped'
  BY <1>1, <1>13, BoxSetTyped DEF RestoreEffect, BoxTyped
<1>. QED BY <1>2, <1>3, <1>4, <1>5, <1>6, <1>7, <1>8, <1>9, <1>10, <1>11, <1>12, <1>13
  DEF Effect, DelegationEffect, LaneEffect, JobEffect, HostEffect

\* An item is written for a settled result, in the name of its attempt; or it is archived or forgotten.
ItemsMove ==
  \A r \in Revisions :
    \/ disk'.item[r].saved = disk.item[r].saved /\ disk'.item[r].attempt = disk.item[r].attempt
    \/ disk'.item[r] = NoItem
    \/ r \in ledger.settled /\ disk'.item[r].attempt = ledger.attempt[r]

DiskMoves == disk.marker \subseteq disk'.marker /\ ItemsMove

LEMMA DiskEffects ==
  ASSUME Core, Effect
  PROVE  DiskMoves
<1>1. Typed /\ JobsPlaced /\ disk \in DiskRows /\ ledger \in LedgerRows
  BY DEF Core, Basics, Typed
<1>2. \A r \in Revisions : ledger.attempt[r] \in Attempts /\ Result(r) \in Results
  BY <1>1 DEF LedgerRows, Result, Results
<1>3. CASE UNCHANGED disk
  BY <1>3 DEF DiskMoves, ItemsMove
<1>4. CASE SaveItemEffect
  <2>1. queue[1].rev \in ledger.settled
    BY <1>1, <1>4, FirstJob DEF SaveItemEffect, HeadGoes
  <2>. QED BY <1>1, <1>4, <2>1, SavedItem DEF SaveItemEffect, ItemOnDisk, DiskMoves, ItemsMove
<1>5. CASE SaveIndexEffect
  BY <1>1, <1>5, IndexedIs DEF SaveIndexEffect, DiskMoves, ItemsMove
<1>6. CASE SaveLedgerEffect
  <2>1. ledger' \in LedgerRows
    BY <1>6, EveryMove DEF LedgerMoves, LedgerTurn, Grows
  <2>. QED BY <1>1, <1>6, <2>1, LedgerSavedIs DEF SaveLedgerEffect, DiskMoves, ItemsMove
<1>7. CASE SaveMarkerEffect
  BY <1>1, <1>2, <1>7, RememberedIs, SMTT(20) DEF SaveMarkerEffect, DiskMoves, ItemsMove
<1>8. CASE PickEffect \/ SaveChangedEffect
  <2>1. disk' = LedgerSaved(disk, ledger)
    BY <1>8 DEF PickEffect, SaveChangedEffect
  <2>. QED BY <1>1, <2>1, LedgerSavedIs DEF DiskMoves, ItemsMove
<1>9. CASE RetireEffect
  BY <1>1, <1>9, ArchivedIs DEF RetireEffect, DiskMoves, ItemsMove
<1>10. CASE UnindexEffect
  BY <1>1, <1>10, IndexedIs DEF UnindexEffect, DiskMoves, ItemsMove
<1>11. CASE ReclaimEffect
  BY <1>1, <1>2, <1>11, RememberedIs DEF ReclaimEffect, DiskMoves, ItemsMove
<1>12. CASE ForgetEffect
  BY <1>1, <1>2, <1>12, ForgottenIs DEF ForgetEffect, DiskMoves, ItemsMove
<1>13. ASSUME NEW r \in Revisions, ReclaimArchivedEffect(r)
       PROVE  DiskMoves
  BY <1>1, <1>2, <1>13, ReclaimedIs DEF ReclaimArchivedEffect, DiskMoves, ItemsMove
<1>14. CASE DelegationEffect
  BY <1>3, <1>14 DEF DelegationEffect, DispatchEffect, RetainEffect, DecideEffect, ReworkEffect, StopEffect, ResumeEffect,
    RemoveEffect
<1>15. CASE LaneEffect
  BY <1>3, <1>15 DEF LaneEffect, PrepareEffect, HandOverEffect, WithdrawEffect
<1>16. CASE LookEffect \/ SaveFailsEffect \/ GiveUpEffect \/ ShutdownEffect \/ BootEffect
  BY <1>3, <1>16 DEF LookEffect, SaveFailsEffect, GiveUpEffect, ShutdownEffect, BootEffect
<1>17. ASSUME NEW r \in Revisions, PassOverEffect(r) \/ LeaveUnknownEffect(r) \/ RestoreEffect(r)
       PROVE  DiskMoves
  BY <1>3, <1>17 DEF PassOverEffect, LeaveUnknownEffect, RestoreEffect
<1>. QED BY <1>4, <1>5, <1>6, <1>7, <1>8, <1>9, <1>10, <1>11, <1>12, <1>13, <1>14, <1>15, <1>16, <1>17
  DEF Effect, JobEffect, HostEffect

\* A hand-over is of the current result, which has been settled.
HandsMove ==
  /\ handed' \in [Results -> Nat] /\ unsure' \in [Results -> Nat]
  /\ \A x \in Results :
       handed'[x] # handed[x] => /\ x = Result(ledger.rev) /\ ledger.rev \in ledger.settled /\ CanDeliver(ledger.rev)
                                 /\ handed'[x] = handed[x] + 1
                                 /\ unsure'[x] = unsure[x] + (IF Marked(ledger.rev) THEN 0 ELSE 1)
  /\ \A x \in Results : handed'[x] = handed[x] => unsure'[x] = unsure[x]

LEMMA HandEffects ==
  ASSUME Core, Effect
  PROVE  HandsMove
<1>1. handed \in [Results -> Nat] /\ unsure \in [Results -> Nat] /\ ledger \in LedgerRows
  BY DEF Core, Basics, Typed
<1>2. CASE UNCHANGED <<handed, unsure>>
  BY <1>1, <1>2 DEF HandsMove
<1>3. ASSUME NEW lane \in Lanes, HandOverEffect(lane)
      PROVE  HandsMove
  <2>. DEFINE r == ledger.rev
              y == Result(r)
  <2>1. /\ r \in Revisions /\ waiting[lane] = r /\ CanDeliver(r)
        /\ handed' = [handed EXCEPT ![y] = @ + 1]
        /\ unsure' = IF Marked(r) THEN unsure ELSE [unsure EXCEPT ![y] = @ + 1]
    BY <1>3 DEF HandOverEffect
  <2>2. r \in ledger.settled
    <3>1. r # 0
      BY <2>1, BoundsAssumption DEF Revisions
    <3>. QED BY <2>1, <3>1 DEF Core, Known
  <2>3. y \in Results
    BY <1>1, <2>1 DEF Result, Results, LedgerRows
  <2>4. Marked(r) \in BOOLEAN
    BY DEF Marked
  <2>. HIDE DEF r, y
  <2>5. /\ handed' \in [Results -> Nat] /\ handed'[y] = handed[y] + 1 /\ handed[y] \in Nat
        /\ \A x \in Results \ {y} : handed'[x] = handed[x]
    BY <1>1, <2>1, <2>3
  <2>6. /\ unsure' \in [Results -> Nat] /\ unsure[y] \in Nat
        /\ unsure'[y] = unsure[y] + (IF Marked(r) THEN 0 ELSE 1)
        /\ \A x \in Results \ {y} : unsure'[x] = unsure[x]
    BY <1>1, <2>1, <2>3, <2>4
  <2>7. \A x \in Results : handed'[x] # handed[x] => x = y
    BY <2>5
  <2>8. \A x \in Results : handed'[x] = handed[x] => x # y
    BY <2>5
  <2>. QED BY <2>1, <2>2, <2>5, <2>6, <2>7, <2>8 DEF HandsMove, r, y
<1>4. CASE DelegationEffect
  BY <1>2, <1>4 DEF DelegationEffect, DispatchEffect, RetainEffect, DecideEffect, ReworkEffect, StopEffect, ResumeEffect,
    RemoveEffect
<1>5. CASE LaneEffect
  BY <1>2, <1>3, <1>5 DEF LaneEffect, PrepareEffect, WithdrawEffect
<1>6. CASE JobEffect
  BY <1>2, <1>6 DEF JobEffect, LookEffect, SaveItemEffect, SaveIndexEffect, SaveFailsEffect, SaveLedgerEffect,
    SaveMarkerEffect, PickEffect, RetireEffect, UnindexEffect, ReclaimEffect, ForgetEffect, GiveUpEffect
<1>7. CASE HostEffect
  BY <1>2, <1>7 DEF HostEffect, SaveChangedEffect, ShutdownEffect, BootEffect, ReclaimArchivedEffect, PassOverEffect,
    LeaveUnknownEffect, RestoreEffect
<1>. QED BY <1>4, <1>5, <1>6, <1>7 DEF Effect

\* The running job goes on: to its next step, or to its first one, if it archives.
RunsOn(n) ==
  /\ HeadGoes(n) /\ n <= Lasts(queue[1].kind) /\ queue[1].rev \in Revisions
  /\ queue[1].kind = "archive" /\ n > 1 => n > 2 /\ queue[1].at = n - 1

\* What a step does to the queue.
QueueMoves ==
  \/ UNCHANGED queue
  \/ \E kind \in Kinds, r \in 0 .. MaxRevision :
       /\ queue' = Append(queue, Job(kind, r))
       /\ kind # "archive" => r \in ledger'.settled
       /\ kind = "retain" => ledger'.rev = r /\ r >= 1 /\ ledger'.attempt[r] = restarts
  \/ HeadGone
  \/ \E n \in 1 .. 5 : RunsOn(n)
  \/ PickEffect

LEMMA QueueEffects ==
  ASSUME Core, Effect
  PROVE  QueueMoves
<1>1. Typed /\ JobsPlaced /\ ledger \in LedgerRows /\ TurnsFrom(ledger, restarts)
  BY TurnsHere DEF Core, Basics, Typed
<1>2. CASE UNCHANGED queue
  BY <1>2 DEF QueueMoves
<1>3. ASSUME NEW r, JobAdded("archive", r)
      PROVE  QueueMoves
  BY <1>3 DEF JobAdded, QueueMoves
<1>4. CASE DispatchEffect \/ DecideEffect \/ ReworkEffect \/ StopEffect \/ ResumeEffect \/ RemoveEffect
  BY <1>2, <1>3, <1>4 DEF DispatchEffect, DecideEffect, ReworkEffect, StopEffect, ResumeEffect, RemoveEffect
<1>5. CASE RetainEffect
  <2>1. /\ ledger.rev \in Revisions /\ ledger'.rev = ledger.rev /\ ledger'.attempt = ledger.attempt
        /\ ledger'.settled = ledger.settled \union {ledger.rev}
    BY <1>1, <1>5, SettledRow DEF RetainEffect
  <2>2. ledger.attempt[ledger.rev] = restarts /\ ledger.rev >= 1
    BY <1>5, <2>1, BoundsAssumption DEF RetainEffect, Core, Fresh, Revisions
  <2>3. CASE JobAdded("retain", ledger.rev)
    BY <2>1, <2>2, <2>3 DEF JobAdded, QueueMoves
  <2>. QED BY <1>2, <1>5, <2>3 DEF RetainEffect
<1>6. ASSUME NEW lane \in Lanes, NEW r \in Revisions, PrepareEffect(lane, r)
      PROVE  QueueMoves
  <2>1. r \in ledger.settled /\ ledger.settled \subseteq ledger'.settled
    BY <1>6, EveryMove DEF PrepareEffect, Core, Known, LedgerMoves, LedgerTurn, Grows, Ahead, Effect, LaneEffect
  <2>2. CASE JobAdded("prepare", r)
    BY <2>1, <2>2 DEF JobAdded, QueueMoves
  <2>. QED BY <1>2, <1>6, <2>2 DEF PrepareEffect
<1>7. ASSUME NEW lane \in Lanes, HandOverEffect(lane)
      PROVE  QueueMoves
  <2>1. ledger.rev \in ledger.settled /\ ledger.settled \subseteq ledger'.settled
    <3>1. ledger.rev # 0
      BY <1>7, BoundsAssumption DEF HandOverEffect, Revisions
    <3>. QED BY <1>7, <3>1, EveryMove DEF HandOverEffect, Core, Known, LedgerMoves, LedgerTurn, Grows, Ahead, Effect, LaneEffect
  <2>2. CASE JobAdded("delivered", ledger.rev)
    BY <2>1, <2>2 DEF JobAdded, QueueMoves
  <2>. QED BY <1>2, <1>7, <2>2 DEF HandOverEffect
<1>8. CASE LaneEffect
  BY <1>2, <1>6, <1>7, <1>8 DEF LaneEffect, WithdrawEffect
<1>9. ASSUME NEW n \in 1 .. 5, HeadGoes(n), n <= Lasts(queue[1].kind), queue[1].rev \in Revisions,
             queue[1].kind = "archive" /\ n > 1 => n > 2 /\ queue[1].at = n - 1
      PROVE  QueueMoves
  BY <1>9 DEF RunsOn, QueueMoves
<1>10. CASE HeadGone
  BY <1>10 DEF QueueMoves
<1>11. ASSUME queue # <<>>, queue[1].kind # "archive"
       PROVE  queue[1].rev \in Revisions /\ queue[1].kind \in Kinds
  BY <1>1, <1>11, FirstJob DEF LedgerRows, JobRows
<1>12. ASSUME NEW n \in {2, 3, 4}, HeadGoes(n), queue[1].kind \in {"retain", "delivered"} \/ (queue[1].kind = "prepare" /\ n \in {2, 3})
       PROVE  QueueMoves
  <2>1. n <= Lasts(queue[1].kind) /\ n \in 1 .. 5 /\ queue # <<>> /\ queue[1].kind # "archive"
    BY <1>12 DEF Lasts, HeadGoes
  <2>. QED BY <1>9, <1>11, <1>12, <2>1
<1>13. CASE \/ LookEffect \/ SaveItemEffect \/ SaveIndexEffect \/ SaveFailsEffect \/ SaveLedgerEffect \/ SaveMarkerEffect
            \/ GiveUpEffect
  <2>1. \A n : HeadGoes(n) => queue # <<>>
    BY DEF HeadGoes
  <2>2. CASE LookEffect
    BY <1>12, <2>2 DEF LookEffect
  <2>3. CASE SaveItemEffect
    BY <1>12, <2>3 DEF SaveItemEffect, Kinds
  <2>4. CASE SaveIndexEffect
    BY <1>10, <1>12, <2>4 DEF SaveIndexEffect, Kinds
  <2>5. CASE SaveFailsEffect
    BY <1>10, <1>12, <2>5 DEF SaveFailsEffect, Kinds
  <2>6. CASE SaveLedgerEffect
    BY <1>10, <1>12, <2>6 DEF SaveLedgerEffect, Kinds
  <2>7. CASE SaveMarkerEffect
    BY <1>12, <2>7 DEF SaveMarkerEffect
  <2>8. CASE GiveUpEffect
    BY <1>10, <2>8 DEF GiveUpEffect
  <2>. QED BY <1>13, <2>2, <2>3, <2>4, <2>5, <2>6, <2>7, <2>8
<1>14. CASE RetireEffect \/ UnindexEffect \/ ReclaimEffect \/ ForgetEffect
  BY <1>9, <1>14 DEF RetireEffect, UnindexEffect, ReclaimEffect, ForgetEffect, Lasts
<1>15. CASE PickEffect
  BY <1>15 DEF QueueMoves
<1>16. CASE HostEffect
  BY <1>2, <1>16 DEF HostEffect, SaveChangedEffect, ShutdownEffect, BootEffect, ReclaimArchivedEffect, PassOverEffect,
    LeaveUnknownEffect, RestoreEffect
<1>. QED BY <1>4, <1>5, <1>8, <1>13, <1>14, <1>15, <1>16 DEF Effect, DelegationEffect, JobEffect

LEMMA QueuePlaced ==
  ASSUME Core, Effect
  PROVE  queue' \in Seq(JobRows) /\ JobsPlaced'
<1>. DEFINE Placed(i, j) ==
       /\ j.at <= Lasts(j.kind)
       /\ j.kind # "archive" => j.rev \in ledger'.settled
       /\ j.at > 1 => i = 1 /\ j.rev \in Revisions
       /\ j.kind = "retain" => ledger'.rev >= 1 /\ ledger'.attempt[ledger'.rev] = restarts
<1>1. queue \in Seq(JobRows) /\ Len(queue) \in Nat /\ restarts' = restarts
  BY EveryMove DEF Core, Basics, Typed, LedgerMoves
<1>2. /\ ledger.settled \subseteq ledger'.settled
      /\ ledger.rev >= 1 /\ ledger.attempt[ledger.rev] = restarts
           => ledger'.rev >= 1 /\ ledger'.attempt[ledger'.rev] = restarts
  BY EveryMove DEF LedgerMoves, LedgerTurn, Grows, Ahead
<1>3. \A i \in 1 .. Len(queue) : Placed(i, queue[i]) /\ queue[i] \in JobRows
  BY <1>1, <1>2 DEF Core, Basics, JobsPlaced
<1>4. ASSUME queue' \in Seq(JobRows), \A i \in 1 .. Len(queue') : Placed(i, queue'[i])
      PROVE  JobsPlaced'
  BY <1>1, <1>4 DEF JobsPlaced
<1>5. CASE UNCHANGED queue
  BY <1>1, <1>3, <1>4, <1>5
<1>6. ASSUME NEW kind \in Kinds, NEW r \in 0 .. MaxRevision, queue' = Append(queue, Job(kind, r)),
             kind # "archive" => r \in ledger'.settled,
             kind = "retain" => ledger'.rev = r /\ r >= 1 /\ ledger'.attempt[r] = restarts
      PROVE  queue' \in Seq(JobRows) /\ JobsPlaced'
  <2>. DEFINE m == Job(kind, r)
  <2>1. m \in JobRows /\ m.kind = kind /\ m.rev = r /\ m.at = 1
    BY NewJob
  <2>2. \A i : Placed(i, m)
    BY <1>6, <2>1 DEF Lasts
  <2>. HIDE DEF m, Placed
  <2>3. /\ queue' \in Seq(JobRows) /\ Len(queue') = Len(queue) + 1
        /\ \A i \in 1 .. Len(queue) : queue'[i] = queue[i]
        /\ queue'[Len(queue) + 1] = m
    BY <1>1, <1>6, <2>1, Joined DEF m
  <2>4. \A i \in 1 .. Len(queue') : Placed(i, queue'[i])
    BY <1>1, <1>3, <2>2, <2>3
  <2>. QED BY <1>4, <2>3, <2>4
<1>7. CASE HeadGone
  <2>1. /\ queue' \in Seq(JobRows) /\ Len(queue') = Len(queue) - 1 /\ Len(queue) >= 1
        /\ \A i \in 1 .. Len(queue') : queue'[i] = queue[i + 1]
    BY <1>1, <1>7, HeadTaken DEF HeadGone
  <2>2. \A i \in 1 .. Len(queue') : i + 1 \in 1 .. Len(queue) /\ i + 1 # 1
    BY <1>1, <2>1
  <2>3. \A i \in 1 .. Len(queue') : Placed(i + 1, queue[i + 1]) /\ queue[i + 1] \in JobRows
    BY <1>3, <2>2
  <2>4. \A i \in 1 .. Len(queue') : Placed(i, queue'[i])
    BY <2>1, <2>2, <2>3 DEF JobRows
  <2>. QED BY <1>4, <2>1, <2>4
<1>8. ASSUME NEW m \in JobRows, queue # <<>>, queue' = <<m>> \o Tail(queue), Placed(1, m)
      PROVE  queue' \in Seq(JobRows) /\ JobsPlaced'
  <2>. HIDE DEF Placed
  <2>1. /\ queue' \in Seq(JobRows) /\ Len(queue') = Len(queue) /\ queue'[1] = m
        /\ \A i \in 2 .. Len(queue) : queue'[i] = queue[i]
    BY <1>1, <1>8, HeadReplaced
  <2>2. \A i \in 1 .. Len(queue') : Placed(i, queue'[i])
    BY <1>1, <1>3, <1>8, <2>1
  <2>. QED BY <1>4, <2>1, <2>2
<1>9. ASSUME NEW n \in 1 .. 5, RunsOn(n)
      PROVE  queue' \in Seq(JobRows) /\ JobsPlaced'
  <2>1. PICK m \in JobRows : Further(queue[1], m, n) /\ queue' = <<m>> \o Tail(queue) /\ queue # <<>>
    BY <1>9 DEF RunsOn, HeadGoes
  <2>2. Placed(1, queue[1])
    BY <1>1, <1>3, <2>1, HeadTaken
  <2>3. Placed(1, m)
    BY <1>9, <2>1, <2>2 DEF RunsOn, Further
  <2>. QED BY <1>8, <2>1, <2>3
<1>10. CASE PickEffect
  <2>1. PICK r \in Revisions : queue' = <<Picked(queue[1], r)>> \o Tail(queue)
    BY <1>10 DEF PickEffect
  <2>. DEFINE m == Picked(queue[1], r)
  <2>2. queue # <<>> /\ m \in JobRows /\ m.kind = "archive" /\ m.at = 2 /\ m.rev = r
    BY <1>10, PickedJob DEF PickEffect
  <2>3. Placed(1, m)
    BY <2>2 DEF Lasts
  <2>. QED BY <1>8, <2>1, <2>2, <2>3
<1>. QED BY <1>1, <1>5, <1>6, <1>7, <1>9, <1>10, QueueEffects DEF QueueMoves

\* The rest of the types.
HostTyped ==
  /\ held \in BOOLEAN /\ ending \in BOOLEAN
  /\ offered \in SUBSET Revisions /\ unread \in SUBSET Revisions
  /\ waiting \in [Lanes -> 0 .. MaxRevision]
  /\ boot \in {"closed", "reclaiming", "reading", "ready"} /\ (unread # {} => boot = "reading")
  /\ saved \in SUBSET Results /\ skipped \in SUBSET Revisions

LEMMA HostTypes ==
  ASSUME Core, Effect
  PROVE  HostTyped' /\ markers' = markers
<1>1. HostTyped /\ ledger \in LedgerRows /\ disk \in DiskRows /\ rows \subseteq Revisions
  BY DEF Core, Basics, Typed, HostTyped
<1>2. Revisions \subseteq 0 .. MaxRevision /\ 0 \in 0 .. MaxRevision
  BY BoundsAssumption DEF Revisions
<1>3. CASE DelegationEffect
  <2>1. CASE DispatchEffect \/ RetainEffect \/ DecideEffect \/ ReworkEffect
    BY <1>1, <2>1 DEF DispatchEffect, RetainEffect, DecideEffect, ReworkEffect, HostTyped
  <2>2. CASE StopEffect \/ ResumeEffect \/ RemoveEffect
    BY <1>1, <2>2 DEF StopEffect, ResumeEffect, RemoveEffect, HostTyped
  <2>. QED BY <1>3, <2>1, <2>2 DEF DelegationEffect
<1>4. ASSUME NEW lane \in Lanes, NEW r \in Revisions, PrepareEffect(lane, r)
      PROVE  HostTyped' /\ markers' = markers
  <2>1. waiting' \in [Lanes -> 0 .. MaxRevision]
    BY <1>1, <1>2, <1>4 DEF PrepareEffect, HostTyped
  <2>. QED BY <1>1, <1>4, <2>1 DEF PrepareEffect, HostTyped
<1>5. ASSUME NEW lane \in Lanes, HandOverEffect(lane) \/ WithdrawEffect(lane)
      PROVE  HostTyped' /\ markers' = markers
  <2>1. waiting' \in [Lanes -> 0 .. MaxRevision]
    BY <1>1, <1>2, <1>5 DEF HandOverEffect, WithdrawEffect, HostTyped
  <2>. QED BY <1>1, <1>5, <2>1 DEF HandOverEffect, WithdrawEffect, HostTyped
<1>6. CASE SaveItemEffect
  <2>1. Result(queue[1].rev) \in Results
    BY <1>1, <1>6 DEF SaveItemEffect, Result, Results, LedgerRows
  <2>. QED BY <1>1, <1>6, <2>1 DEF SaveItemEffect, HostTyped
<1>7. CASE \/ LookEffect \/ SaveIndexEffect \/ SaveFailsEffect \/ SaveLedgerEffect \/ SaveMarkerEffect
           \/ PickEffect \/ RetireEffect \/ UnindexEffect \/ ReclaimEffect \/ ForgetEffect \/ GiveUpEffect
  BY <1>1, <1>7 DEF LookEffect, SaveIndexEffect, SaveFailsEffect, SaveLedgerEffect, SaveMarkerEffect,
    PickEffect, RetireEffect, UnindexEffect, ReclaimEffect, ForgetEffect, GiveUpEffect, HostTyped
<1>8. CASE SaveChangedEffect \/ ShutdownEffect
  BY <1>1, <1>8 DEF SaveChangedEffect, ShutdownEffect, HostTyped
<1>9. CASE BootEffect
  <2>1. disk.index \in SUBSET Revisions
    BY <1>1 DEF DiskRows
  <2>. QED BY <1>1, <1>9, <2>1 DEF BootEffect, HostTyped
<1>10. ASSUME NEW r \in Revisions,
              ReclaimArchivedEffect(r) \/ PassOverEffect(r) \/ LeaveUnknownEffect(r) \/ RestoreEffect(r)
       PROVE  HostTyped' /\ markers' = markers
  BY <1>1, <1>10 DEF ReclaimArchivedEffect, PassOverEffect, LeaveUnknownEffect, RestoreEffect, HostTyped
<1>. QED BY <1>3, <1>4, <1>5, <1>6, <1>7, <1>8, <1>9, <1>10 DEF Effect, LaneEffect, JobEffect, HostEffect

LEMMA BasicsStep ==
  ASSUME Core, Effect
  PROVE  Basics'
<1>1. BoxTyped' /\ HostTyped' /\ markers' = markers /\ DiskMoves /\ HandsMove /\ LedgerMoves /\ queue' \in Seq(JobRows)
      /\ JobsPlaced'
  BY BoxEffects, HostTypes, DiskEffects, HandEffects, EveryMove, QueuePlaced
<1>2. Typed /\ Shape(ledger) /\ Shape(disk.ledger) /\ Ahead(disk.ledger, ledger)
      /\ ledger \in LedgerRows /\ disk.ledger \in LedgerRows
  BY DEF Core, Basics, Typed, DiskRows
<1>3. ledger' \in LedgerRows /\ disk' \in DiskRows /\ Shape(ledger') /\ Ahead(ledger, ledger')
  BY <1>1 DEF LedgerMoves, LedgerTurn, Grows
<1>4. Typed'
  BY <1>1, <1>2, <1>3 DEF Typed, BoxTyped, BoxRows, HostTyped, DiskMoves, HandsMove, LedgerMoves
<1>5. Shape(disk'.ledger) /\ Ahead(disk'.ledger, ledger')
  <2>1. CASE disk'.ledger = disk.ledger
    BY <1>2, <1>3, <2>1, AheadOfAll
  <2>2. CASE disk'.ledger = ledger'
    BY <1>3, <2>2, AheadItself
  <2>. QED BY <1>1, <2>1, <2>2 DEF LedgerMoves
<1>. QED BY <1>1, <1>3, <1>4, <1>5 DEF Basics

LEMMA FreshStep ==
  ASSUME Core, Effect
  PROVE  Fresh'
<1>1. DiskMoves /\ HandsMove /\ LedgerMoves
  BY DiskEffects, HandEffects, EveryMove
<1>2. Fresh /\ Shape(ledger) /\ restarts \in Nat /\ restarts' = restarts /\ ledger \in LedgerRows /\ handed \in [Results -> Nat]
  BY <1>1 DEF Core, Basics, Typed, Attempts, LedgerMoves
<1>3. \A r \in Revisions : ledger.attempt[r] \in Nat /\ <<r, restarts>> \in Results
  BY <1>2 DEF LedgerRows, Attempts, Results, Core, Basics, Typed
<1>4. ASSUME NEW r \in Revisions
      PROVE  /\ ledger'.attempt[r] <= restarts /\ disk'.ledger.attempt[r] <= restarts
             /\ disk'.item[r].attempt <= restarts
  <2>0. ledger.attempt[r] <= restarts /\ disk.ledger.attempt[r] <= restarts /\ disk.item[r].attempt <= restarts
    BY <1>2 DEF Fresh
  <2>1. ledger'.attempt[r] <= restarts
    <3>1. ledger'.attempt[r] = ledger.attempt[r] \/ ledger'.attempt[r] = restarts
      BY <1>1 DEF LedgerMoves, LedgerTurn
    <3>. QED BY <1>2, <2>0, <3>1
  <2>2. disk'.ledger.attempt[r] <= restarts
    BY <1>1, <1>2, <2>1 DEF LedgerMoves, Fresh
  <2>3. disk'.item[r].attempt <= restarts
    <3>1. \/ disk'.item[r].attempt = disk.item[r].attempt
          \/ disk'.item[r].attempt = 0
          \/ disk'.item[r].attempt = ledger.attempt[r]
      BY <1>1, NoItemIs DEF DiskMoves, ItemsMove
    <3>. QED BY <1>2, <2>0, <3>1
  <2>. QED BY <2>1, <2>2, <2>3
<1>5. ASSUME NEW r \in Revisions, Unborn(ledger', r)
      PROVE  ~(disk'.item[r].saved /\ disk'.item[r].attempt = restarts) /\ handed'[<<r, restarts>>] = 0
  <2>1. Unborn(ledger, r)
    BY <1>1, <1>5 DEF LedgerMoves, LedgerTurn
  <2>2. r \notin ledger.settled
    BY <1>2, <2>1, BoundsAssumption DEF Unborn, Shape, Revisions, LedgerRows
  <2>3. ~(disk'.item[r].saved /\ disk'.item[r].attempt = restarts)
    BY <1>1, <1>2, <2>1, <2>2, NoItemIs DEF DiskMoves, ItemsMove, Fresh
  <2>4. <<r, restarts>> \in Results /\ handed[<<r, restarts>>] = 0
    BY <1>2, <1>3, <2>1 DEF Fresh
  <2>5. CASE handed'[<<r, restarts>>] # handed[<<r, restarts>>]
    <3>1. <<r, restarts>> = Result(ledger.rev) /\ ledger.rev \in ledger.settled
      BY <1>1, <2>4, <2>5 DEF HandsMove
    <3>2. r = ledger.rev
      BY <3>1 DEF Result
    <3>. QED BY <2>2, <3>1, <3>2
  <2>. QED BY <2>3, <2>4, <2>5
<1>6. ASSUME NEW x \in Results, handed'[x] > 0
      PROVE  x[2] <= restarts
  <2>1. CASE handed'[x] = handed[x]
    BY <1>2, <1>6, <2>1 DEF Fresh
  <2>2. CASE handed'[x] # handed[x]
    <3>1. x = Result(ledger.rev) /\ ledger.rev \in Revisions
      BY <1>1, <1>2, <2>2 DEF HandsMove, LedgerRows
    <3>2. x[2] = ledger.attempt[ledger.rev]
      BY <3>1 DEF Result
    <3>. QED BY <1>2, <3>1, <3>2 DEF Fresh
  <2>. QED BY <2>1, <2>2
<1>7. ledger'.life = "active" => ledger'.attempt[ledger'.rev] = restarts
  BY <1>1 DEF LedgerMoves, LedgerTurn
<1>. QED BY <1>2, <1>4, <1>5, <1>6, <1>7 DEF Fresh

\* What is offered, waited for or has a row is settled.
LEMMA KnownStep ==
  ASSUME Core, Effect
  PROVE  Known'
<1>1. /\ ledger.settled \subseteq ledger'.settled /\ ledger \in LedgerRows
      /\ rows = {r \in Revisions : box[r] = "pending"} /\ BoxTyped /\ waiting \in [Lanes -> 0 .. MaxRevision]
  BY EveryMove DEF LedgerMoves, LedgerTurn, Grows, Ahead, Core, Basics, Typed, BoxTyped, BoxRows
<1>2. /\ offered \subseteq ledger.settled /\ rows \subseteq ledger.settled
      /\ \A lane \in Lanes : waiting[lane] = 0 \/ waiting[lane] \in ledger.settled
      /\ \A r \in Revisions : box[r] \in {"pending", "delivered"} => r \in ledger.settled
  BY <1>1 DEF Core, Known
<1>3. ASSUME offered' \subseteq offered \union rows
      PROVE  offered' \subseteq ledger'.settled
  BY <1>1, <1>2, <1>3
<1>4. ASSUME \A lane \in Lanes : waiting'[lane] \in {waiting[lane], 0}
      PROVE  \A lane \in Lanes : waiting'[lane] = 0 \/ waiting'[lane] \in ledger'.settled
  BY <1>1, <1>2, <1>4
<1>5. ASSUME \A r \in Revisions : box'[r] = box[r] \/ box'[r] \in {"none", "reserved"} \/ r \in ledger'.settled
      PROVE  \A r \in Revisions : box'[r] \in {"pending", "delivered"} => r \in ledger'.settled
  BY <1>1, <1>2, <1>5
<1>6. ASSUME offered' \subseteq offered \union rows, \A lane \in Lanes : waiting'[lane] \in {waiting[lane], 0},
             \A r \in Revisions : box'[r] = box[r] \/ box'[r] \in {"none", "reserved"} \/ r \in ledger'.settled
      PROVE  Known'
  BY <1>3, <1>4, <1>5, <1>6 DEF Known
<1>7. CASE DispatchEffect \/ ReworkEffect
  BY <1>6, <1>7 DEF DispatchEffect, ReworkEffect, BoxReserved
<1>8. CASE RetainEffect
  <2>1. ledger'.settled = ledger.settled \union {ledger.rev} /\ ledger.rev \in Revisions
    BY <1>1, <1>8, SettledRow DEF RetainEffect
  <2>2. \A r \in Revisions : box'[r] = box[r] \/ r \in ledger'.settled
    BY <1>1, <1>8, <2>1 DEF RetainEffect, BoxSet, BoxTyped, BoxRows
  <2>3. offered' \subseteq ledger'.settled
    BY <1>1, <1>2, <1>8, <2>1 DEF RetainEffect
  <2>4. waiting' = waiting
    BY <1>8 DEF RetainEffect
  <2>. QED BY <1>4, <1>5, <2>2, <2>3, <2>4 DEF Known
<1>9. CASE DecideEffect \/ StopEffect \/ ResumeEffect \/ RemoveEffect
  BY <1>6, <1>9 DEF DecideEffect, StopEffect, ResumeEffect, RemoveEffect
<1>10. ASSUME NEW lane \in Lanes, NEW r \in Revisions, PrepareEffect(lane, r)
       PROVE  Known'
  <2>1. r \in ledger.settled /\ waiting' = [waiting EXCEPT ![lane] = r] /\ UNCHANGED <<box, offered>>
    BY <1>2, <1>10 DEF PrepareEffect
  <2>2. \A k \in Lanes : waiting'[k] = 0 \/ waiting'[k] \in ledger'.settled
    BY <1>1, <1>2, <2>1
  <2>. QED BY <1>3, <1>5, <2>1, <2>2 DEF Known
<1>11. ASSUME NEW lane \in Lanes, WithdrawEffect(lane)
       PROVE  Known'
  <2>1. \A k \in Lanes : waiting'[k] \in {waiting[k], 0}
    BY <1>1, <1>11 DEF WithdrawEffect
  <2>. QED BY <1>6, <1>11, <2>1 DEF WithdrawEffect
<1>12. ASSUME NEW lane \in Lanes, HandOverEffect(lane)
       PROVE  Known'
  <2>1. \A k \in Lanes : waiting'[k] \in {waiting[k], 0}
    BY <1>1, <1>12 DEF HandOverEffect
  <2>2. ledger.rev \in ledger'.settled /\ ledger.rev \in Revisions /\ offered' = offered \ {ledger.rev}
    <3>1. ledger.rev # 0
      BY <1>12, BoundsAssumption DEF HandOverEffect, Revisions
    <3>. QED BY <1>1, <1>2, <1>12, <3>1 DEF HandOverEffect
  <2>3. \A r \in Revisions : box'[r] = box[r] \/ r \in ledger'.settled
    BY <1>1, <1>12, <2>2 DEF HandOverEffect, BoxSet, BoxTyped, BoxRows
  <2>. QED BY <1>6, <2>1, <2>2, <2>3
<1>13. CASE UnindexEffect
  <2>1. \A r \in Revisions : box'[r] = box[r] \/ box'[r] = "none"
    BY <1>1, <1>13 DEF UnindexEffect, BoxSet, BoxTyped, BoxRows
  <2>. QED BY <1>6, <1>13, <2>1 DEF UnindexEffect
<1>14. CASE \/ LookEffect \/ SaveItemEffect \/ SaveIndexEffect \/ SaveFailsEffect \/ SaveLedgerEffect \/ SaveMarkerEffect
            \/ PickEffect \/ RetireEffect \/ ReclaimEffect \/ ForgetEffect \/ GiveUpEffect
  BY <1>6, <1>14 DEF LookEffect, SaveItemEffect, SaveIndexEffect, SaveFailsEffect, SaveLedgerEffect, SaveMarkerEffect,
    PickEffect, RetireEffect, ReclaimEffect, ForgetEffect, GiveUpEffect
<1>15. CASE SaveChangedEffect \/ ShutdownEffect
  BY <1>6, <1>15 DEF SaveChangedEffect, ShutdownEffect
<1>16. CASE BootEffect
  BY <1>6, <1>16 DEF BootEffect
<1>17. ASSUME NEW r \in Revisions, ReclaimArchivedEffect(r) \/ PassOverEffect(r) \/ LeaveUnknownEffect(r)
       PROVE  Known'
  BY <1>6, <1>17 DEF ReclaimArchivedEffect, PassOverEffect, LeaveUnknownEffect
<1>18. ASSUME NEW r \in Revisions, RestoreEffect(r)
       PROVE  Known'
  <2>1. Entry(r) /\ Current(r) /\ OwnItem(r) /\ Fresh /\ Shape(ledger)
    BY <1>18 DEF RestoreEffect, Entry, Core, Basics
  <2>2. ledger.life # "active"
    <3>1. ASSUME ledger.life = "active"
          PROVE  FALSE
      <4>1. ledger.rev = r /\ Unborn(ledger, r) /\ ledger.attempt[r] = restarts
        BY <2>1, <3>1 DEF Current, Identity, Unborn, Fresh
      <4>. QED BY <2>1, <4>1 DEF Fresh, OwnItem
    <3>. QED BY <3>1
  <2>3. r \in ledger.settled
    BY <2>1, <2>2 DEF Current, Identity, Shape
  <2>4. \A s \in Revisions : box'[s] = box[s] \/ s \in ledger'.settled
    BY <1>1, <1>18, <2>3 DEF RestoreEffect, BoxSet, BoxTyped, BoxRows
  <2>. QED BY <1>6, <1>18, <2>4 DEF RestoreEffect
<1>. QED BY <1>7, <1>8, <1>9, <1>10, <1>11, <1>12, <1>13, <1>14, <1>15, <1>16, <1>17, <1>18
  DEF Effect, DelegationEffect, LaneEffect, JobEffect, HostEffect

LEMMA CoreRestart ==
  ASSUME Core, RestartEffect
  PROVE  Core'
<1>1. /\ disk \in DiskRows /\ disk.ledger \in LedgerRows /\ ledger \in LedgerRows /\ restarts \in Attempts
      /\ handed \in [Results -> Nat] /\ unsure \in [Results -> Nat] /\ saved \in SUBSET Results /\ Shape(disk.ledger)
  BY DEF Core, Basics, Typed, DiskRows
<1>2. /\ restarts' = restarts + 1 /\ restarts' \in Attempts /\ restarts \in Nat /\ restarts' \in Nat
      /\ disk' = disk /\ handed' = handed /\ unsure' = unsure /\ saved' = saved
  BY <1>1, BoundsAssumption DEF RestartEffect, Attempts
<1>3. ledger' \in LedgerRows /\ Shape(ledger') /\ Ahead(disk.ledger, ledger')
      /\ ledger'.attempt = disk.ledger.attempt /\ ledger'.rev = disk.ledger.rev /\ ledger'.life # "active"
  BY <1>1, InterruptedGrows, InterruptedRow DEF RestartEffect, Grows
<1>4. Typed'
  <2>1. box' \in [Revisions -> {"none", "reserved", "pending", "delivered"}] /\ rows' = {r \in Revisions : box'[r] = "pending"}
    BY DEF RestartEffect
  <2>2. queue' \in Seq(JobRows)
    BY EmptySeq DEF RestartEffect
  <2>3. waiting' \in [Lanes -> 0 .. MaxRevision]
    BY BoundsAssumption DEF RestartEffect
  <2>. QED BY <1>1, <1>2, <1>3, <2>1, <2>2, <2>3 DEF Typed, RestartEffect
<1>5. JobsPlaced'
  BY EmptySeq DEF JobsPlaced, RestartEffect
<1>6. Fresh'
  <2>1. \A r \in Revisions : ledger'.attempt[r] <= restarts /\ disk.item[r].attempt <= restarts
    BY <1>3 DEF Core, Fresh
  <2>2. \A r \in Revisions : disk.item[r].attempt \in Nat /\ disk.ledger.attempt[r] \in Nat
    BY <1>1 DEF DiskRows, ItemRows, LedgerRows, Attempts
  <2>3. \A x \in Results : handed[x] > 0 => x[2] <= restarts
    BY DEF Core, Fresh
  <2>4. \A r \in Revisions : <<r, restarts + 1>> \in Results /\ ~(restarts + 1 <= restarts)
    BY <1>2 DEF Results
  <2>5. \A r \in Revisions : handed[<<r, restarts + 1>>] = 0
    BY <1>1, <2>3, <2>4
  <2>6. \A x \in Results : handed'[x] > 0 => x[2] <= restarts'
    BY <1>2, <2>3 DEF Results, Attempts
  <2>7. \A r \in Revisions : /\ ledger'.attempt[r] <= restarts' /\ disk'.ledger.attempt[r] <= restarts'
                             /\ disk'.item[r].attempt <= restarts' /\ disk'.item[r].attempt # restarts'
                             /\ handed'[<<r, restarts'>>] = 0
    BY <1>2, <1>3, <2>1, <2>2, <2>5
  <2>. QED BY <1>3, <2>6, <2>7 DEF Fresh
<1>7. Known'
  BY DEF Known, RestartEffect
<1>. QED BY <1>2, <1>3, <1>4, <1>5, <1>6, <1>7, <1>1 DEF Core, Basics

LEMMA NewRow ==
  /\ NewLedger \in LedgerRows /\ NewLedger.rev = 0 /\ NewLedger.life = "none" /\ NewLedger.settled = {}
  /\ NewLedger.decided = {} /\ NewLedger.recovery = "none" /\ NewLedger.delivered = FALSE
  /\ \A r \in Revisions : NewLedger.attempt[r] = 0 /\ NewLedger.scope[r] = "open"
<1>. DEFINE a == [r \in Revisions |-> 0]
            s == [r \in Revisions |-> "open"]
<1>1. a \in [Revisions -> Attempts] /\ s \in [Revisions -> Scopes] /\ 0 \in 0 .. MaxRevision
  BY BoundsAssumption DEF Attempts, Scopes
<1>2. NewLedger = [rev |-> 0, life |-> "none", recovery |-> "none", delivered |-> FALSE, settled |-> {},
                   decided |-> {}, attempt |-> a, scope |-> s]
  BY DEF NewLedger
<1>3. \A r \in Revisions : a[r] = 0 /\ s[r] = "open"
  OBVIOUS
<1>. HIDE DEF a, s
<1>4. NewLedger \in LedgerRows
  BY <1>1, <1>2 DEF LedgerRows, Lives, Recoveries
<1>. QED BY <1>2, <1>3, <1>4

LEMMA CoreInit ==
  ASSUME Init
  PROVE  Core
<1>. DEFINE items == [r \in Revisions |-> NoItem]
<1>1. items \in [Revisions -> ItemRows] /\ \A r \in Revisions : items[r] = NoItem
  BY NoItemIs
<1>2. ledger = NewLedger /\ disk = [ledger |-> NewLedger, item |-> items, index |-> {}, body |-> {}, marker |-> {}]
  BY DEF Init
<1>. HIDE DEF items
<1>3. disk \in DiskRows /\ disk.ledger = NewLedger /\ disk.item = items /\ disk.index = {} /\ disk.marker = {}
  BY <1>1, <1>2, NewRow DEF DiskRows
<1>4. /\ box = [r \in Revisions |-> "none"]
      /\ rows = {} /\ held = FALSE /\ ending = FALSE /\ queue = <<>> /\ offered = {}
      /\ waiting = [lane \in Lanes |-> 0]
      /\ boot = "ready" /\ unread = {} /\ markers = {}
      /\ restarts = 0 /\ handed = [x \in Results |-> 0] /\ unsure = handed /\ saved = {} /\ skipped = {}
  BY DEF Init, None
<1>5. 0 \in Attempts /\ 0 \in 0 .. MaxRevision
  BY BoundsAssumption DEF Attempts
<1>6. Typed
  <2>1. queue \in Seq(JobRows)
    BY <1>4, EmptySeq
  <2>2. box \in [Revisions -> {"none", "reserved", "pending", "delivered"}] /\ rows = {r \in Revisions : box[r] = "pending"}
    BY <1>4
  <2>3. waiting \in [Lanes -> 0 .. MaxRevision] /\ handed \in [Results -> Nat] /\ unsure \in [Results -> Nat]
    BY <1>4, <1>5
  <2>. QED BY <1>2, <1>3, <1>4, <1>5, <2>1, <2>2, <2>3, NewRow DEF Typed
<1>7. Shape(ledger) /\ Shape(disk.ledger) /\ Ahead(disk.ledger, ledger)
  BY <1>2, <1>3, NewRow, AheadItself DEF Shape
<1>8. JobsPlaced
  BY <1>4, EmptySeq DEF JobsPlaced
<1>9. Fresh
  <2>1. \A r \in Revisions : <<r, 0>> \in Results
    BY <1>5 DEF Results
  <2>. QED BY <1>1, <1>2, <1>3, <1>4, <2>1, NewRow, NoItemIs DEF Fresh
<1>10. Known
  BY <1>4 DEF Known
<1>. QED BY <1>6, <1>7, <1>8, <1>9, <1>10 DEF Core, Basics

LEMMA CoreStays ==
  ASSUME Core, UNCHANGED vars
  PROVE  Core'
BY DEF vars, memory, host, history, Core, Basics, Typed, JobsPlaced, Fresh, Known

LEMMA CoreStep ==
  ASSUME Core, [Next]_vars
  PROVE  Core'
<1>1. CASE Effect
  BY <1>1, BasicsStep, FreshStep, KnownStep DEF Core
<1>. QED BY <1>1, CoreRestart, CoreStays, EveryEffect

\* The types and the attempts hold at every moment.
THEOREM CoreInvariance == Spec => []Core
<1>1. Init => Core
  BY CoreInit
<1>2. Core /\ [Next]_vars => Core'
  BY CoreStep
<1>. QED BY <1>1, <1>2, PTL DEF Spec

\* The ledger, the mailbox, what the host offers and the conversation have the values the host knows; a marker that was
\* loaded is one that was saved, and a row is offered on request exactly while it is pending.
THEOREM DeliveryTypeCorrect == Spec => []RTypeOK
<1>1. Core => RTypeOK
  <2>. SUFFICES ASSUME Core PROVE RTypeOK
    OBVIOUS
  <2>1. Typed /\ Shape(ledger) /\ ledger \in LedgerRows
    BY DEF Core, Basics, Typed
  <2>2. /\ ledger.rev \in 0 .. MaxRevision /\ ledger.life \in Lives /\ ledger.recovery \in Recoveries
        /\ ledger.settled \subseteq Revisions /\ ledger.scope \in [Revisions -> Scopes] /\ ledger.decided \subseteq ledger.settled
    BY <2>1 DEF LedgerRows, Shape
  <2>3. 0 .. MaxRevision = Revisions \union {None}
    BY BoundsAssumption DEF Revisions, None
  <2>. QED BY <2>1, <2>2, <2>3 DEF Typed, RTypeOK, Lives, Recoveries, Scopes
<1>. QED BY <1>1, CoreInvariance, PTL

\* What is handed over is the result of the current revision, of a coordinator that is not stopped and of a host that is
\* not ending, undecided and not handed over by this host before: what prepare() had read is read again after its wait.
THEOREM HandedOnlyWhileOwed == Spec => HandedWhileOwed
<1>. DEFINE Owed ==
       \A r \in Revisions : (\E a \in Attempts : handed'[<<r, a>>] # handed[<<r, a>>]) =>
         /\ ~held /\ ~ending
         /\ ledger.rev = r /\ ledger.scope[r] = "open" /\ r \notin ledger.decided
         /\ box[r] # "delivered"
<1>1. ASSUME Core, [Next]_vars
      PROVE  Owed
  <2>1. CASE Effect
    <3>1. SUFFICES ASSUME NEW r \in Revisions, NEW a \in Attempts, handed'[<<r, a>>] # handed[<<r, a>>]
                   PROVE  /\ ~held /\ ~ending
                          /\ ledger.rev = r /\ ledger.scope[r] = "open" /\ r \notin ledger.decided
                          /\ box[r] # "delivered"
      OBVIOUS
    <3>2. <<r, a>> \in Results
      BY DEF Results
    <3>3. <<r, a>> = Result(ledger.rev) /\ CanDeliver(ledger.rev)
      BY <1>1, <2>1, <3>1, <3>2, HandEffects DEF HandsMove
    <3>4. ledger.rev = r
      BY <3>3 DEF Result
    <3>. QED BY <3>3, <3>4, DeliverableIsSettled
  <2>2. CASE RestartEffect \/ UNCHANGED vars
    BY <2>2 DEF RestartEffect, vars, history
  <2>. QED BY <1>1, <2>1, <2>2, EveryEffect
<1>2. Core /\ [Next]_vars => [Owed]_vars
  BY <1>1
<1>. QED BY <1>2, CoreInvariance, PTL DEF Spec, HandedWhileOwed

-----------------------------------------------------------------------------
(* What is archived, and only then reclaimed, is closed by the ledger on   *)
(* the disk.                                                               *)

\* What comes first in the queue after each kind of change of it.
LEMMA HeadAfter ==
  ASSUME Core, queue' # <<>>
  PROVE  /\ UNCHANGED queue => queue # <<>> /\ queue'[1] = queue[1]
         /\ \A kind \in Kinds, r \in 0 .. MaxRevision :
              queue' = Append(queue, Job(kind, r)) => (queue # <<>> /\ queue'[1] = queue[1]) \/ queue'[1].at = 1
         /\ HeadGone => queue'[1].at = 1
         /\ \A n : HeadGoes(n) => Further(queue[1], queue'[1], n)
         /\ PickEffect => /\ queue'[1].kind = "archive" /\ queue'[1].at = 2 /\ queue'[1].rev \in Revisions
                          /\ ClosedBy(ledger, queue'[1].rev) /\ box[queue'[1].rev] # "none"
                          /\ box[queue'[1].rev] # "reserved"
<1>1. queue \in Seq(JobRows) /\ Len(queue) \in Nat /\ JobsPlaced
  BY DEF Core, Basics, Typed
<1>3. ASSUME NEW kind \in Kinds, NEW r \in 0 .. MaxRevision, queue' = Append(queue, Job(kind, r))
      PROVE  (queue # <<>> /\ queue'[1] = queue[1]) \/ queue'[1].at = 1
  <2>1. Job(kind, r) \in JobRows /\ Job(kind, r).at = 1
    BY NewJob
  <2>2. /\ \A i \in 1 .. Len(queue) : queue'[i] = queue[i]
        /\ queue'[Len(queue) + 1] = Job(kind, r)
    BY <1>1, <1>3, <2>1, Joined
  <2>3. CASE queue = <<>>
    <3>1. Len(queue) = 0
      BY <2>3
    <3>2. Len(queue) + 1 = 1
      BY <3>1
    <3>. QED BY <2>1, <2>2, <3>2
  <2>4. CASE queue # <<>>
    <3>1. 1 \in 1 .. Len(queue)
      BY <1>1, <2>4, HeadTaken
    <3>. QED BY <2>2, <2>4, <3>1
  <2>. QED BY <2>3, <2>4
<1>4. ASSUME HeadGone
      PROVE  queue'[1].at = 1
  <2>1. /\ queue' \in Seq(JobRows) /\ Len(queue') = Len(queue) - 1
        /\ \A i \in 1 .. Len(queue') : queue'[i] = queue[i + 1]
    BY <1>1, <1>4, HeadTaken DEF HeadGone
  <2>2. Len(queue') \in Nat /\ Len(queue') >= 1
    BY <2>1, HeadTaken
  <2>3. 1 \in 1 .. Len(queue') /\ 2 \in 1 .. Len(queue) /\ queue'[1] = queue[2]
    BY <1>1, <2>1, <2>2
  <2>4. queue[2] \in JobRows
    BY <1>1, <2>3, ElementOfSeq
  <2>5. queue[2].at \in 1 .. 5 /\ ~(queue[2].at > 1)
    BY <1>1, <2>3, <2>4 DEF JobsPlaced, JobRows
  <2>. QED BY <2>3, <2>5
<1>5. ASSUME NEW m \in JobRows, queue # <<>>, queue' = <<m>> \o Tail(queue)
      PROVE  queue'[1] = m
  BY <1>1, <1>5, HeadReplaced
<1>6. ASSUME NEW n, HeadGoes(n)
      PROVE  Further(queue[1], queue'[1], n)
  BY <1>5, <1>6 DEF HeadGoes
<1>7. ASSUME PickEffect
      PROVE  /\ queue'[1].kind = "archive" /\ queue'[1].at = 2 /\ queue'[1].rev \in Revisions
             /\ ClosedBy(ledger, queue'[1].rev) /\ box[queue'[1].rev] # "none" /\ box[queue'[1].rev] # "reserved"
  <2>1. PICK r \in Revisions : /\ box[r] # "none" /\ box[r] # "reserved" /\ ClosedBy(ledger, r)
                               /\ queue' = <<Picked(queue[1], r)>> \o Tail(queue)
    BY <1>7 DEF PickEffect
  <2>2. queue # <<>> /\ queue[1] \in JobRows /\ queue[1].kind = "archive"
    BY <1>7 DEF PickEffect
  <2>3. queue'[1] = Picked(queue[1], r)
    BY <1>5, <2>1, <2>2, PickedJob
  <2>. QED BY <2>1, <2>2, <2>3, PickedJob
<1>. QED BY <1>3, <1>4, <1>6, <1>7

LEMMA HeadMoves ==
  ASSUME Core, Effect, queue' # <<>>
  PROVE  \/ queue # <<>> /\ queue'[1] = queue[1]
         \/ queue'[1].at = 1
         \/ \E n \in 1 .. 5 : RunsOn(n) /\ Further(queue[1], queue'[1], n)
         \/ /\ PickEffect /\ queue'[1].kind = "archive" /\ queue'[1].at = 2 /\ queue'[1].rev \in Revisions
            /\ ClosedBy(ledger, queue'[1].rev) /\ box[queue'[1].rev] # "none" /\ box[queue'[1].rev] # "reserved"
BY HeadAfter, QueueEffects DEF QueueMoves, RunsOn

\* The job that retires and reclaims a row runs on the ground of the ledger on the disk, as the archived item does.
HeadClosed ==
  queue # <<>> /\ queue[1].kind = "archive" /\ queue[1].at > 1 => ClosedBy(disk.ledger, queue[1].rev)

ItemsClosed == \A r \in Revisions : disk.item[r].archived => ClosedBy(disk.ledger, r)

Reclaiming == HeadClosed /\ ItemsClosed /\ ReclaimedIsClosed

LEMMA DiskAhead ==
  ASSUME Core, Effect
  PROVE  /\ disk.ledger \in LedgerRows /\ disk'.ledger \in LedgerRows /\ Ahead(disk.ledger, disk'.ledger)
         /\ ledger' \in LedgerRows /\ Ahead(disk.ledger, ledger) /\ Ahead(disk.ledger, ledger')
         /\ Ahead(ledger, ledger') /\ Shape(disk.ledger) /\ Shape(ledger) /\ ledger \in LedgerRows
<1>1. /\ Shape(disk.ledger) /\ Ahead(disk.ledger, ledger) /\ Shape(ledger)
      /\ ledger \in LedgerRows /\ disk.ledger \in LedgerRows
  BY DEF Core, Basics, Typed, DiskRows
<1>2. /\ ledger' \in LedgerRows /\ Ahead(ledger, ledger') /\ disk' \in DiskRows
      /\ disk'.ledger = disk.ledger \/ disk'.ledger = ledger'
  BY EveryMove DEF LedgerMoves, LedgerTurn, Grows
<1>3. disk'.ledger \in LedgerRows
  BY <1>2 DEF DiskRows
<1>4. Ahead(disk.ledger, ledger')
  BY <1>1, <1>2, AheadOfAll
<1>. QED BY <1>1, <1>2, <1>3, <1>4, AheadItself

\* An item becomes archived in the step that retires it, and a body goes in the two steps that reclaim it.
ShredMoves ==
  /\ \A r \in Revisions : disk'.item[r].archived => disk.item[r].archived \/ (RetireEffect /\ r = queue[1].rev)
  /\ \A x \in saved' \ disk'.body :
       \/ x \in saved \ disk.body
       \/ ReclaimEffect /\ x = Result(queue[1].rev)
       \/ \E r \in Revisions : ReclaimArchivedEffect(r) /\ x = Result(r)

LEMMA ShredEffects ==
  ASSUME Core, Effect
  PROVE  ShredMoves
<1>1. Typed /\ disk \in DiskRows /\ ledger \in LedgerRows
  BY DEF Core, Basics, Typed
<1>2. \A r \in Revisions : ledger.attempt[r] \in Attempts /\ Result(r) \in Results
  BY <1>1 DEF LedgerRows, Result, Results
<1>3. CASE UNCHANGED <<disk, saved>>
  BY <1>3 DEF ShredMoves
<1>4. CASE SaveItemEffect
  <2>1. /\ \A r \in Revisions : disk'.item[r].archived = disk.item[r].archived
        /\ disk'.body = disk.body \union {Result(queue[1].rev)}
    BY <1>1, <1>4, SavedItem DEF SaveItemEffect, ItemOnDisk, Result
  <2>. QED BY <1>4, <2>1 DEF SaveItemEffect, ShredMoves
<1>5. CASE SaveIndexEffect
  BY <1>1, <1>5, IndexedIs DEF SaveIndexEffect, ShredMoves
<1>6. CASE SaveLedgerEffect
  <2>1. ledger' \in LedgerRows
    BY <1>6, EveryMove DEF LedgerMoves, LedgerTurn, Grows
  <2>. QED BY <1>1, <1>6, <2>1, LedgerSavedIs DEF SaveLedgerEffect, ShredMoves
<1>7. CASE SaveMarkerEffect
  BY <1>1, <1>2, <1>7, RememberedIs DEF SaveMarkerEffect, ShredMoves
<1>8. CASE PickEffect \/ SaveChangedEffect
  BY <1>1, <1>8, LedgerSavedIs DEF PickEffect, SaveChangedEffect, ShredMoves
<1>9. CASE RetireEffect
  <2>1. UNCHANGED saved
    BY <1>9 DEF RetireEffect
  <2>2. CASE disk' = Archived(disk, queue[1].rev)
    BY <1>1, <1>9, <2>1, <2>2, ArchivedIs DEF RetireEffect, ShredMoves
  <2>. QED BY <1>3, <1>9, <2>1, <2>2 DEF RetireEffect
<1>10. CASE UnindexEffect
  BY <1>1, <1>10, IndexedIs DEF UnindexEffect, ShredMoves
<1>11. CASE ReclaimEffect
  <2>1. UNCHANGED saved /\ disk'.item = disk.item /\ disk'.body = disk.body \ {Result(queue[1].rev)}
    BY <1>1, <1>2, <1>11, RememberedIs DEF ReclaimEffect
  <2>. QED BY <1>11, <2>1 DEF ShredMoves
<1>12. CASE ForgetEffect
  BY <1>1, <1>2, <1>12, ForgottenIs, NoItemIs DEF ForgetEffect, ShredMoves
<1>13. ASSUME NEW r \in Revisions, ReclaimArchivedEffect(r)
       PROVE  ShredMoves
  <2>1. /\ UNCHANGED saved /\ disk'.body = disk.body \ {Result(r)}
        /\ disk'.item[r] = NoItem /\ \A s \in Revisions \ {r} : disk'.item[s] = disk.item[s]
    BY <1>1, <1>2, <1>13, ReclaimedIs DEF ReclaimArchivedEffect
  <2>. QED BY <1>13, <2>1, NoItemIs DEF ShredMoves
<1>14. CASE DelegationEffect
  BY <1>3, <1>14 DEF DelegationEffect, DispatchEffect, RetainEffect, DecideEffect, ReworkEffect, StopEffect, ResumeEffect,
    RemoveEffect
<1>15. CASE LaneEffect
  BY <1>3, <1>15 DEF LaneEffect, PrepareEffect, HandOverEffect, WithdrawEffect
<1>16. CASE LookEffect \/ SaveFailsEffect \/ GiveUpEffect \/ ShutdownEffect \/ BootEffect
  BY <1>3, <1>16 DEF LookEffect, SaveFailsEffect, GiveUpEffect, ShutdownEffect, BootEffect
<1>17. ASSUME NEW r \in Revisions, PassOverEffect(r) \/ LeaveUnknownEffect(r) \/ RestoreEffect(r)
       PROVE  ShredMoves
  BY <1>3, <1>17 DEF PassOverEffect, LeaveUnknownEffect, RestoreEffect
<1>. QED BY <1>4, <1>5, <1>6, <1>7, <1>8, <1>9, <1>10, <1>11, <1>12, <1>13, <1>14, <1>15, <1>16, <1>17
  DEF Effect, JobEffect, HostEffect

LEMMA ReclaimingStep ==
  ASSUME Core, Reclaiming, [Next]_vars
  PROVE  Reclaiming'
<1>1. CASE Effect
  <2>1. /\ disk.ledger \in LedgerRows /\ disk'.ledger \in LedgerRows /\ Ahead(disk.ledger, disk'.ledger)
        /\ ledger \in LedgerRows /\ Ahead(disk.ledger, ledger) /\ Shape(disk.ledger)
    BY <1>1, DiskAhead
  <2>2. \A r : ClosedBy(disk.ledger, r) => /\ ClosedBy(disk'.ledger, r) /\ r \in Revisions
                                           /\ disk'.ledger.attempt[r] = disk.ledger.attempt[r]
                                           /\ ledger.attempt[r] = disk.ledger.attempt[r]
    BY <2>1, ClosedStays
  <2>3. HeadClosed'
    <3>1. SUFFICES ASSUME queue' # <<>>, queue'[1].kind = "archive", queue'[1].at > 1
                   PROVE  ClosedBy(disk'.ledger, queue'[1].rev)
      BY DEF HeadClosed
    <3>2. CASE queue # <<>> /\ queue'[1] = queue[1]
      BY <2>2, <3>1, <3>2 DEF Reclaiming, HeadClosed
    <3>3. CASE \E n \in 1 .. 5 : RunsOn(n) /\ Further(queue[1], queue'[1], n)
      <4>1. PICK n \in 1 .. 5 : RunsOn(n) /\ Further(queue[1], queue'[1], n)
        BY <3>3
      <4>2. queue[1].at > 1 /\ queue[1].kind = "archive" /\ queue[1].rev = queue'[1].rev /\ queue # <<>>
        BY <3>1, <4>1 DEF RunsOn, HeadGoes, Further, JobRows
      <4>. QED BY <2>2, <4>2 DEF Reclaiming, HeadClosed
    <3>4. CASE PickEffect /\ ClosedBy(ledger, queue'[1].rev)
      <4>1. disk'.ledger = ledger
        BY <2>1, <3>4, LedgerSavedIs DEF PickEffect, Core, Basics, Typed
      <4>. QED BY <3>4, <4>1
    <3>. QED BY <1>1, <3>1, <3>2, <3>3, <3>4, HeadMoves
  <2>4. ItemsClosed'
    <3>1. ASSUME NEW r \in Revisions, disk'.item[r].archived
          PROVE  ClosedBy(disk'.ledger, r)
      <4>1. CASE disk.item[r].archived
        BY <2>2, <4>1 DEF Reclaiming, ItemsClosed
      <4>2. CASE RetireEffect /\ r = queue[1].rev
        <5>1. queue # <<>>
          BY <4>2 DEF RetireEffect, HeadGoes
        <5>. QED BY <2>2, <4>2, <5>1 DEF RetireEffect, Reclaiming, HeadClosed
      <4>. QED BY <1>1, <3>1, <4>1, <4>2, ShredEffects DEF ShredMoves
    <3>. QED BY <3>1 DEF ItemsClosed
  <2>5. ReclaimedIsClosed'
    <3>1. ASSUME NEW x \in saved' \ disk'.body
          PROVE  ClosedBy(disk'.ledger, x[1]) /\ disk'.ledger.attempt[x[1]] = x[2]
      <4>1. CASE x \in saved \ disk.body
        BY <2>2, <4>1 DEF Reclaiming, ReclaimedIsClosed
      <4>2. ASSUME NEW r, x = Result(r), ClosedBy(disk.ledger, r)
            PROVE  ClosedBy(disk'.ledger, x[1]) /\ disk'.ledger.attempt[x[1]] = x[2]
        BY <2>2, <4>2 DEF Result
      <4>3. CASE ReclaimEffect /\ x = Result(queue[1].rev)
        <5>1. queue # <<>>
          BY <4>3 DEF ReclaimEffect, HeadGoes
        <5>. QED BY <4>2, <4>3, <5>1 DEF ReclaimEffect, Reclaiming, HeadClosed
      <4>4. CASE \E r \in Revisions : ReclaimArchivedEffect(r) /\ x = Result(r)
        BY <4>2, <4>4 DEF ReclaimArchivedEffect, Reclaiming, ItemsClosed
      <4>. QED BY <1>1, <3>1, <4>1, <4>3, <4>4, ShredEffects DEF ShredMoves
    <3>. QED BY <3>1 DEF ReclaimedIsClosed
  <2>. QED BY <2>3, <2>4, <2>5 DEF Reclaiming
<1>2. CASE RestartEffect
  BY <1>2 DEF RestartEffect, Reclaiming, HeadClosed, ItemsClosed, ReclaimedIsClosed
<1>3. CASE UNCHANGED vars
  BY <1>3 DEF vars, memory, history, Reclaiming, HeadClosed, ItemsClosed, ReclaimedIsClosed
<1>. QED BY <1>1, <1>2, <1>3, EveryEffect

LEMMA ReclaimingInvariance == Spec => []Reclaiming
<1>1. Init => Reclaiming
  <2>. SUFFICES ASSUME Init PROVE Reclaiming
    OBVIOUS
  <2>1. queue = <<>> /\ saved = {} /\ \A r \in Revisions : disk.item[r] = NoItem
    BY DEF Init
  <2>. QED BY <2>1, NoItemIs DEF Reclaiming, HeadClosed, ItemsClosed, ReclaimedIsClosed
<1>2. Core /\ Reclaiming /\ [Next]_vars => Reclaiming'
  BY ReclaimingStep
<1>. QED BY <1>1, <1>2, CoreInvariance, PTL DEF Spec

\* Saved text is gone only of a result that the ledger on the disk closes, so that no crash brings back a ledger that
\* still owes it (archiveDecided saves the ledger first, and reclaimClosed comes last).
THEOREM ReclaimedOnlyClosed == Spec => []ReclaimedIsClosed
<1>1. Reclaiming => ReclaimedIsClosed
  BY DEF Reclaiming
<1>. QED BY <1>1, ReclaimingInvariance, PTL

-----------------------------------------------------------------------------
(* What was handed over with something of it saved is not handed over      *)
(* again.                                                                  *)

\* The disk holds that a hand-over of the attempt was tried.
Tried(d, r, n) == d.item[r].saved /\ d.item[r].attempt = n /\ (d.item[r].attempted \/ d.item[r].delivered)

LEMMA TriedStays ==
  ASSUME Core, Reclaiming, Effect, NEW r \in Revisions, NEW n, Tried(disk, r, n)
  PROVE  Tried(disk', r, n) \/ (ClosedBy(disk.ledger, r) /\ ClosedBy(ledger, r))
<1>1. Typed /\ disk \in DiskRows /\ ledger \in LedgerRows
  BY DEF Core, Basics, Typed
<1>2. \A s \in Revisions : ledger.attempt[s] \in Attempts /\ Result(s) \in Results
  BY <1>1 DEF LedgerRows, Result, Results
<1>0. ASSUME ClosedBy(disk.ledger, r)
      PROVE  ClosedBy(ledger, r)
  BY <1>0, DiskAhead, ClosedStays
<1>3. CASE disk'.item = disk.item
  BY <1>3 DEF Tried
<1>4. CASE SaveItemEffect
  <2>1. CASE r = queue[1].rev
    <3>1. disk.item[r].attempt = ledger.attempt[r]
      BY <1>4, <2>1 DEF SaveItemEffect, Tried, OwnItem
    <3>2. /\ disk'.item[r].saved /\ disk'.item[r].attempt = ledger.attempt[r]
          /\ disk.item[r].delivered => disk'.item[r].delivered
          /\ disk.item[r].attempted => disk'.item[r].attempted
      BY <1>1, <1>4, <2>1, SavedItem DEF SaveItemEffect, ItemOnDisk
    <3>. QED BY <3>1, <3>2 DEF Tried
  <2>2. CASE r # queue[1].rev
    BY <1>1, <1>4, <2>2, SavedItem DEF SaveItemEffect, ItemOnDisk, Tried
  <2>. QED BY <2>1, <2>2
<1>5. CASE SaveIndexEffect
  BY <1>1, <1>3, <1>5, IndexedIs DEF SaveIndexEffect
<1>6. CASE SaveLedgerEffect
  BY <1>1, <1>3, <1>6, DiskAhead, LedgerSavedIs DEF SaveLedgerEffect
<1>7. CASE SaveMarkerEffect
  BY <1>1, <1>2, <1>3, <1>7, RememberedIs DEF SaveMarkerEffect
<1>8. CASE PickEffect \/ SaveChangedEffect
  BY <1>1, <1>3, <1>8, LedgerSavedIs DEF PickEffect, SaveChangedEffect
<1>9. CASE RetireEffect
  <2>1. CASE disk' = Archived(disk, queue[1].rev)
    BY <1>1, <1>9, <2>1, ArchivedIs DEF RetireEffect, Tried
  <2>. QED BY <1>3, <1>9, <2>1 DEF RetireEffect
<1>10. CASE UnindexEffect
  BY <1>1, <1>3, <1>10, IndexedIs DEF UnindexEffect
<1>11. CASE ReclaimEffect
  BY <1>1, <1>2, <1>3, <1>11, RememberedIs DEF ReclaimEffect
<1>12. CASE ForgetEffect
  <2>1. queue # <<>> /\ queue[1].rev \in Revisions
    BY <1>12 DEF ForgetEffect, HeadGoes
  <2>2. ClosedBy(disk.ledger, queue[1].rev)
    BY <1>12, <2>1 DEF ForgetEffect, Reclaiming, HeadClosed
  <2>3. \A s \in Revisions \ {queue[1].rev} : disk'.item[s] = disk.item[s]
    BY <1>1, <1>2, <1>12, <2>1, ForgottenIs DEF ForgetEffect
  <2>. QED BY <1>0, <2>2, <2>3 DEF Tried
<1>13. ASSUME NEW s \in Revisions, ReclaimArchivedEffect(s)
       PROVE  Tried(disk', r, n) \/ (ClosedBy(disk.ledger, r) /\ ClosedBy(ledger, r))
  <2>0. Result(s) \in Results /\ disk' = Reclaimed(disk, s, Result(s))
    BY <1>2, <1>13 DEF ReclaimArchivedEffect
  <2>1. \A t \in Revisions \ {s} : disk'.item[t] = disk.item[t]
    BY <1>1, <2>0, ReclaimedIs
  <2>2. ClosedBy(disk.ledger, s)
    BY <1>13 DEF ReclaimArchivedEffect, Reclaiming, ItemsClosed
  <2>. QED BY <1>0, <2>1, <2>2 DEF Tried
<1>14. CASE DelegationEffect
  BY <1>3, <1>14 DEF DelegationEffect, DispatchEffect, RetainEffect, DecideEffect, ReworkEffect, StopEffect, ResumeEffect,
    RemoveEffect
<1>15. CASE LaneEffect
  BY <1>3, <1>15 DEF LaneEffect, PrepareEffect, HandOverEffect, WithdrawEffect
<1>16. CASE LookEffect \/ SaveFailsEffect \/ GiveUpEffect \/ ShutdownEffect \/ BootEffect
  BY <1>3, <1>16 DEF LookEffect, SaveFailsEffect, GiveUpEffect, ShutdownEffect, BootEffect
<1>17. ASSUME NEW s \in Revisions, PassOverEffect(s) \/ LeaveUnknownEffect(s) \/ RestoreEffect(s)
       PROVE  Tried(disk', r, n) \/ (ClosedBy(disk.ledger, r) /\ ClosedBy(ledger, r))
  BY <1>3, <1>17 DEF PassOverEffect, LeaveUnknownEffect, RestoreEffect
<1>. QED BY <1>4, <1>5, <1>6, <1>7, <1>8, <1>9, <1>10, <1>11, <1>12, <1>13, <1>14, <1>15, <1>16, <1>17
  DEF Effect, JobEffect, HostEffect

\* A result with a hand-over that left a trace is closed, handed over by this host, or held back by that trace.
Spent(r) == ledger.delivered /\ box[r] \in {"delivered", "none"}

Traced(r) == ledger.recovery = "unknown" \/ Result(r) \in markers \/ Tried(disk, r, ledger.attempt[r])

Left(r) ==
  /\ box[r] = "none" /\ r \notin offered /\ \A lane \in Lanes : waiting[lane] # r
  /\ Traced(r) /\ ledger.attempt[r] < restarts

Over(r) == ClosedBy(ledger, r) \/ Spent(r) \/ Left(r)

Repeats(l, x) == handed[x] > unsure[x] /\ l.rev = x[1] /\ l.attempt[x[1]] = x[2]

MemoryKnows == \A x \in Results : Repeats(ledger, x) => Over(x[1])

\* The disk knows it as well, as the next host will find it.
DiskKnows ==
  \A x \in Results : Repeats(disk.ledger, x) =>
    \/ ClosedBy(disk.ledger, x[1]) \/ disk.ledger.delivered \/ disk.ledger.recovery = "unknown"
    \/ x \in disk.marker \/ Tried(disk, x[1], x[2])

HandedOnce == MemoryKnows /\ DiskKnows /\ RepeatedOnlyUnsaved

\* A step that leaves the current result as it is, as far as its hand-over goes.
KeepsOver(r) ==
  /\ ledger'.rev = ledger.rev /\ (ledger.delivered => ledger'.delivered)
  /\ box'[r] = box[r] \/ box'[r] = "none" \/ (~ledger.delivered /\ ~Left(r))
  /\ r \notin offered /\ box[r] = "none" => r \notin offered'
  /\ r \notin offered => \A lane \in Lanes : waiting'[lane] = r => waiting[lane] = r
  /\ \/ ledger'.recovery = ledger.recovery \/ ledger'.recovery = "unknown" \/ ~Left(r) \/ Result(r) \in markers

LEMMA OverStays ==
  ASSUME Core, Reclaiming, Effect, ledger.rev \in Revisions, Over(ledger.rev), KeepsOver(ledger.rev)
  PROVE  Over(ledger.rev)'
<1>. DEFINE r == ledger.rev
<1>1. /\ Ahead(ledger, ledger') /\ Shape(ledger) /\ ledger \in LedgerRows /\ ledger' \in LedgerRows
      /\ markers' = markers /\ restarts' = restarts
  BY DiskAhead, HostTypes, EveryMove DEF LedgerMoves
<1>2. ledger'.rev = r /\ ledger'.attempt[r] = ledger.attempt[r] /\ r \in Revisions
  BY <1>1, BoundsAssumption DEF Ahead, Revisions, KeepsOver
<1>. HIDE DEF r
<1>3. ASSUME ClosedBy(ledger, r)
      PROVE  ClosedBy(ledger', r)
  BY <1>1, <1>3, ClosedStays
<1>4. ASSUME Spent(r), ~ClosedBy(ledger, r), ~Left(r) \/ ledger.delivered
      PROVE  ledger'.delivered /\ box'[r] \in {"delivered", "none"}
  BY <1>4 DEF Spent, KeepsOver, r
<1>5. ASSUME Left(r), ~ClosedBy(ledger, r)
      PROVE  /\ box'[r] = "none" /\ r \notin offered' /\ \A lane \in Lanes : waiting'[lane] # r
             /\ ledger'.recovery = "unknown" \/ <<r, ledger'.attempt[r]>> \in markers'
                  \/ Tried(disk', r, ledger'.attempt[r])
             /\ ledger'.attempt[r] < restarts'
  <2>1. box'[r] = "none" /\ r \notin offered' /\ \A lane \in Lanes : waiting'[lane] # r
    BY <1>5 DEF Left, KeepsOver, r
  <2>2. ledger'.attempt[r] < restarts'
    BY <1>1, <1>2, <1>5 DEF Left
  <2>3. CASE Tried(disk, r, ledger.attempt[r])
    <3>1. Tried(disk', r, ledger.attempt[r])
      BY <1>2, <1>5, <2>3, TriedStays
    <3>. QED BY <1>2, <2>1, <2>2, <3>1
  <2>4. CASE Result(r) \in markers
    BY <1>1, <1>2, <2>1, <2>2, <2>4 DEF Result
  <2>5. CASE ledger.recovery = "unknown" /\ Result(r) \notin markers
    BY <1>5, <2>1, <2>2, <2>5 DEF KeepsOver, r
  <2>. QED BY <1>5, <2>3, <2>4, <2>5 DEF Left, Traced
<1>6. ClosedBy(ledger, r) \/ Spent(r) \/ Left(r)
  BY DEF Over, r
<1>7. \/ ClosedBy(ledger', r)
      \/ ledger'.delivered /\ box'[r] \in {"delivered", "none"}
      \/ /\ box'[r] = "none" /\ r \notin offered' /\ \A lane \in Lanes : waiting'[lane] # r
         /\ ledger'.recovery = "unknown" \/ <<r, ledger'.attempt[r]>> \in markers'
              \/ Tried(disk', r, ledger'.attempt[r])
         /\ ledger'.attempt[r] < restarts'
  BY <1>3, <1>4, <1>5, <1>6 DEF Spent
<1>8. r = ledger'.rev
  BY <1>2
<1>. QED BY <1>7, <1>8 DEF Over, Spent, Left, Traced, Result, r

LEMMA OverKept ==
  ASSUME Core, Effect, ledger.rev \in Revisions, ~DispatchEffect, ~RetainEffect, ~ReworkEffect,
         \A lane \in Lanes : ~HandOverEffect(lane)
  PROVE  KeepsOver(ledger.rev)
<1>. DEFINE r == ledger.rev
<1>1. /\ Typed /\ ledger \in LedgerRows /\ r \in Revisions /\ r \in 0 .. MaxRevision
      /\ BoxTyped /\ rows = {s \in Revisions : box[s] = "pending"} /\ waiting \in [Lanes -> 0 .. MaxRevision]
      /\ r # 0
  BY BoundsAssumption DEF Core, Basics, Typed, BoxTyped, BoxRows, LedgerRows, Revisions
<1>2. /\ box[r] = "none" => r \notin rows
      /\ \A v \in Recoveries : Flag(ledger, v).rev = r /\ Flag(ledger, v).recovery = v
                               /\ Flag(ledger, v).delivered = ledger.delivered
  BY <1>1, FlagRow DEF SameRun
<1>. SUFFICES KeepsOver(r)
  OBVIOUS
<1>. HIDE DEF r
<1>3. ASSUME ledger'.rev = ledger.rev, ledger.delivered => ledger'.delivered, box' = box, offered' = offered, waiting' = waiting,
             \/ ledger'.recovery = ledger.recovery \/ ledger'.recovery = "unknown" \/ ~Left(r) \/ Result(r) \in markers
      PROVE  KeepsOver(r)
  BY <1>3 DEF KeepsOver
<1>4. CASE DecideEffect
  BY <1>1, <1>3, <1>4, DecidedRowIs DEF DecideEffect, r
<1>5. ASSUME NEW to \in Scopes, (UNCHANGED ledger \/ \E from : Rescoping(from, to)), offered' \subseteq offered \union rows,
             box' = box, waiting' = waiting
      PROVE  KeepsOver(r)
  <2>1. ledger'.rev = ledger.rev /\ ledger'.delivered = ledger.delivered /\ ledger'.recovery = ledger.recovery
    BY <1>1, <1>5, RescopedRow DEF Rescoping
  <2>. QED BY <1>2, <1>5, <2>1 DEF KeepsOver
<1>6. CASE StopEffect \/ ResumeEffect \/ RemoveEffect
  BY <1>5, <1>6 DEF StopEffect, ResumeEffect, RemoveEffect, Scopes
<1>7. ASSUME NEW lane \in Lanes, NEW s \in Revisions, PrepareEffect(lane, s)
      PROVE  KeepsOver(r)
  <2>1. /\ s \in offered /\ waiting' = [waiting EXCEPT ![lane] = s] /\ UNCHANGED <<box, offered>>
        /\ ledger' = ledger \/ ledger' = Flag(ledger, "unknown")
    BY <1>7 DEF PrepareEffect
  <2>2. r \notin offered => \A k \in Lanes : waiting'[k] = r => waiting[k] = r
    BY <1>1, <2>1
  <2>3. /\ ledger'.rev = ledger.rev /\ ledger'.delivered = ledger.delivered
        /\ ledger'.recovery = ledger.recovery \/ ledger'.recovery = "unknown"
    BY <1>2, <2>1 DEF Recoveries, r
  <2>. QED BY <2>1, <2>2, <2>3 DEF KeepsOver
<1>8. ASSUME NEW lane \in Lanes, WithdrawEffect(lane)
      PROVE  KeepsOver(r)
  <2>1. \A k \in Lanes : waiting'[k] = r => waiting[k] = r
    BY <1>1, <1>8 DEF WithdrawEffect
  <2>. QED BY <1>8, <2>1 DEF WithdrawEffect, KeepsOver
<1>9. CASE LookEffect \/ SaveItemEffect \/ SaveIndexEffect \/ SaveFailsEffect \/ PickEffect \/ RetireEffect
           \/ ReclaimEffect \/ ForgetEffect
  BY <1>3, <1>9 DEF LookEffect, SaveItemEffect, SaveIndexEffect, SaveFailsEffect, PickEffect, RetireEffect,
    ReclaimEffect, ForgetEffect
<1>10. CASE SaveLedgerEffect \/ GiveUpEffect
  <2>1. FlagsUnsaved /\ UNCHANGED <<box, offered, waiting>> /\ queue # <<>>
    BY <1>10 DEF SaveLedgerEffect, GiveUpEffect, HeadGone, HeadGoes
  <2>2. ASSUME queue[1].kind = "retain"
        PROVE  ~Left(r)
    <3>1. 1 \in 1 .. Len(queue)
      BY <2>1, FirstJob DEF Core, Basics
    <3>2. ledger.attempt[r] = restarts /\ restarts \in Nat
      BY <2>2, <3>1 DEF Core, Basics, Typed, Attempts, JobsPlaced, r
    <3>. QED BY <3>2 DEF Left
  <2>3. /\ ledger'.rev = ledger.rev /\ ledger'.delivered = ledger.delivered
        /\ ledger'.recovery = ledger.recovery \/ ~Left(r)
    BY <1>2, <2>1, <2>2 DEF FlagsUnsaved, Recoveries, r
  <2>. QED BY <1>3, <2>1, <2>3
<1>11. CASE SaveMarkerEffect
  <2>1. queue[1].rev = r /\ box[r] # "none" /\ ledger' = Flag(ledger, "none") /\ UNCHANGED <<box, offered, waiting>>
    BY <1>11 DEF SaveMarkerEffect, Current, Identity, r
  <2>2. ledger'.rev = ledger.rev /\ ledger'.delivered = ledger.delivered
    BY <1>2, <2>1 DEF Recoveries, r
  <2>. QED BY <1>3, <2>1, <2>2 DEF Left
<1>12. CASE UnindexEffect
  <2>1. box'[r] = box[r] \/ box'[r] = "none"
    BY <1>1, <1>12 DEF UnindexEffect, BoxSet, BoxTyped, BoxRows
  <2>. QED BY <1>12, <2>1 DEF UnindexEffect, KeepsOver
<1>13. CASE SaveChangedEffect \/ ShutdownEffect
  BY <1>3, <1>13 DEF SaveChangedEffect, ShutdownEffect
<1>14. CASE BootEffect
  BY <1>2, <1>14 DEF BootEffect, KeepsOver
<1>15. ASSUME NEW s \in Revisions, ReclaimArchivedEffect(s) \/ PassOverEffect(s)
       PROVE  KeepsOver(r)
  BY <1>3, <1>15 DEF ReclaimArchivedEffect, PassOverEffect
<1>16. ASSUME NEW s \in Revisions, LeaveUnknownEffect(s)
       PROVE  KeepsOver(r)
  <2>1. /\ s = r /\ UNCHANGED <<box, offered, waiting>>
        /\ ledger' = Flag(ledger, IF Result(r) \in markers THEN "none" ELSE "unknown")
    BY <1>16 DEF LeaveUnknownEffect, Entry, Current, Identity, r
  <2>2. /\ ledger'.rev = ledger.rev /\ ledger'.delivered = ledger.delivered
        /\ ledger'.recovery = "unknown" \/ Result(r) \in markers
    BY <1>2, <2>1 DEF Recoveries, r
  <2>. QED BY <1>3, <2>1, <2>2
<1>17. ASSUME NEW s \in Revisions, RestoreEffect(s)
       PROVE  KeepsOver(r)
  <2>1. s = r /\ ~Attempted(r) /\ UNCHANGED <<offered, waiting>>
    BY <1>17 DEF RestoreEffect, Entry, Current, Identity, r
  <2>2. ~ledger.delivered /\ ~Left(r)
    BY <2>1 DEF Attempted, Left, Traced, Tried
  <2>3. ledger' = ledger \/ ledger' = Flag(ledger, "none")
    BY <1>17 DEF RestoreEffect
  <2>4. ledger'.rev = ledger.rev /\ ledger'.delivered = ledger.delivered
    BY <1>2, <2>3 DEF Recoveries, r
  <2>. QED BY <2>1, <2>2, <2>4 DEF KeepsOver
<1>. QED
  BY <1>4, <1>6, <1>7, <1>8, <1>9, <1>10, <1>11, <1>12, <1>13, <1>14, <1>15, <1>16, <1>17
  DEF Effect, DelegationEffect, LaneEffect, JobEffect, HostEffect

LEMMA HandsKept ==
  ASSUME Effect, \A lane \in Lanes : ~HandOverEffect(lane)
  PROVE  UNCHANGED <<handed, unsure>>
<1>1. CASE DelegationEffect
  BY <1>1 DEF DelegationEffect, DispatchEffect, RetainEffect, DecideEffect, ReworkEffect, StopEffect, ResumeEffect,
    RemoveEffect
<1>2. CASE LaneEffect
  BY <1>2 DEF LaneEffect, PrepareEffect, WithdrawEffect
<1>3. CASE JobEffect
  BY <1>3 DEF JobEffect, LookEffect, SaveItemEffect, SaveIndexEffect, SaveFailsEffect, SaveLedgerEffect,
    SaveMarkerEffect, PickEffect, RetireEffect, UnindexEffect, ReclaimEffect, ForgetEffect, GiveUpEffect
<1>4. CASE HostEffect
  BY <1>4 DEF HostEffect, SaveChangedEffect, ShutdownEffect, BootEffect, ReclaimArchivedEffect, PassOverEffect,
    LeaveUnknownEffect, RestoreEffect
<1>. QED BY <1>1, <1>2, <1>3, <1>4 DEF Effect

LEMMA MemoryStep ==
  ASSUME Core, Reclaiming, MemoryKnows, Effect
  PROVE  MemoryKnows'
<1>1. /\ handed \in [Results -> Nat] /\ unsure \in [Results -> Nat] /\ ledger \in LedgerRows /\ Fresh /\ restarts \in Attempts
      /\ BoxTyped
  BY DEF Core, Basics, Typed, BoxTyped, BoxRows
<1>2. ASSUME NEW r \in Revisions, Unborn(ledger, r), UNCHANGED <<handed, unsure>>
      PROVE  ~(handed'[<<r, restarts>>] > unsure'[<<r, restarts>>])
  <2>1. <<r, restarts>> \in Results /\ handed[<<r, restarts>>] = 0
    BY <1>1, <1>2 DEF Fresh, Results
  <2>. QED BY <1>1, <1>2, <2>1
<1>3. SUFFICES ASSUME NEW x \in Results, handed'[x] > unsure'[x], ledger'.rev = x[1], ledger'.attempt[x[1]] = x[2]
               PROVE  Over(x[1])'
  BY DEF MemoryKnows, Repeats
<1>4. x[1] \in Revisions /\ x = <<x[1], x[2]>>
  BY DEF Results
<1>5. CASE DispatchEffect
  <2>1. ledger'.rev = 1 /\ ledger'.life = "active" /\ UNCHANGED <<handed, unsure>> /\ restarts' = restarts /\ ledger.rev = 0
    BY <1>1, <1>5, BegunRow DEF DispatchEffect
  <2>2. ledger'.attempt[1] = restarts
    BY <1>5, <2>1, EveryMove DEF LedgerMoves, LedgerTurn
  <2>3. Unborn(ledger, 1)
    BY <2>1 DEF Unborn
  <2>. QED BY <1>2, <1>3, <1>4, <2>1, <2>2, <2>3
<1>6. CASE RetainEffect
  <2>1. ledger'.rev = ledger.rev /\ ledger'.attempt = ledger.attempt /\ ledger.life = "active" /\ UNCHANGED <<handed, unsure>>
    BY <1>1, <1>6, SettledRow DEF RetainEffect
  <2>2. Unborn(ledger, x[1]) /\ x[2] = restarts
    BY <1>1, <1>3, <2>1 DEF Unborn, Fresh
  <2>. QED BY <1>2, <1>3, <1>4, <2>1, <2>2
<1>7. CASE ReworkEffect
  <2>1. /\ ledger.rev \in Nat /\ ledger.rev < MaxRevision /\ ledger' = Reworked(ledger, restarts)
        /\ UNCHANGED <<handed, unsure>>
    BY <1>7, BoundsAssumption DEF ReworkEffect, Revisions
  <2>2. ledger'.rev = ledger.rev + 1 /\ ledger'.attempt[ledger.rev + 1] = restarts
    BY <1>1, <2>1, ReworkedRow
  <2>3. Unborn(ledger, x[1]) /\ x[2] = restarts
    BY <1>3, <2>1, <2>2 DEF Unborn
  <2>. QED BY <1>2, <1>3, <1>4, <2>1, <2>3
<1>8. ASSUME NEW lane \in Lanes, HandOverEffect(lane)
      PROVE  Over(x[1])'
  <2>1. ledger.rev \in Revisions /\ ledger'.rev = ledger.rev /\ ledger'.delivered
    BY <1>1, <1>8, GaveRow DEF HandOverEffect, SameRun
  <2>2. box'[ledger.rev] \in {"delivered", "none"}
    BY <1>1, <1>8, <2>1, BoxSetTyped DEF HandOverEffect
  <2>. QED BY <1>3, <2>1, <2>2 DEF Over, Spent
<1>9. CASE ~DispatchEffect /\ ~RetainEffect /\ ~ReworkEffect /\ \A lane \in Lanes : ~HandOverEffect(lane)
  <2>1. UNCHANGED <<handed, unsure>>
    BY <1>9, HandsKept
  <2>2. ledger.rev \in Revisions => KeepsOver(ledger.rev)
    BY <1>9, OverKept
  <2>3. Ahead(ledger, ledger') /\ ledger'.rev \in Revisions
    BY <1>3, <1>4, DiskAhead
  <2>4. CASE ledger.rev = ledger'.rev
    <3>1. ledger.rev = x[1] /\ ledger.attempt[x[1]] = x[2]
      BY <1>3, <1>4, <2>3, <2>4, BoundsAssumption DEF Ahead, Revisions
    <3>2. Over(ledger.rev)
      BY <1>3, <2>1, <3>1 DEF MemoryKnows, Repeats
    <3>3. Over(ledger.rev)'
      BY <1>4, <2>2, <3>1, <3>2, OverStays
    <3>. QED BY <2>4, <3>1, <3>3
  <2>5. CASE ledger.rev # ledger'.rev
    <3>1. ledger'.rev > ledger.rev
      BY <1>1, <2>3, <2>5, BoundsAssumption DEF Ahead, LedgerRows, Revisions
    <3>2. Unborn(ledger, x[1])
      BY <1>3, <3>1 DEF Unborn
    <3>3. x[2] = restarts
      BY <1>3, <2>5, EveryMove DEF LedgerMoves, LedgerTurn
    <3>. QED BY <1>2, <1>3, <1>4, <2>1, <3>2, <3>3
  <2>. QED BY <2>4, <2>5
<1>. QED BY <1>5, <1>6, <1>7, <1>8, <1>9

\* What is handed over is owed still.
LEMMA NotOver ==
  ASSUME NEW lane \in Lanes, HandOverEffect(lane)
  PROVE  ~Over(ledger.rev)
<1>. DEFINE r == ledger.rev
<1>1. r \in Revisions /\ waiting[lane] = r /\ CanDeliver(r)
  BY DEF HandOverEffect
<1>2. /\ ledger.scope[r] = "open" /\ r \notin ledger.decided
      /\ box[r] = "pending" \/ (box[r] = "none" /\ ~ledger.delivered)
  BY <1>1, DeliverableIsSettled
<1>3. ~(ledger.rev > r)
  BY <1>1, BoundsAssumption DEF Revisions
<1>. QED BY <1>1, <1>2, <1>3 DEF Over, Spent, Left, ClosedBy

LEMMA RepeatedStep ==
  ASSUME Core, HandedOnce, Effect
  PROVE  RepeatedOnlyUnsaved'
<1>1. HandsMove /\ handed \in [Results -> Nat] /\ unsure \in [Results -> Nat]
  BY HandEffects DEF Core, Basics, Typed
<1>2. SUFFICES ASSUME NEW x \in Results
               PROVE  handed'[x] <= unsure'[x] + 1
  BY DEF RepeatedOnlyUnsaved
<1>3. handed[x] <= unsure[x] + 1 /\ handed[x] \in Nat /\ unsure[x] \in Nat
  BY <1>1 DEF HandedOnce, RepeatedOnlyUnsaved
<1>4. CASE handed'[x] = handed[x]
  BY <1>1, <1>3, <1>4 DEF HandsMove
<1>5. CASE handed'[x] # handed[x]
  <2>1. /\ x = Result(ledger.rev) /\ handed'[x] = handed[x] + 1
        /\ unsure'[x] = unsure[x] + (IF Marked(ledger.rev) THEN 0 ELSE 1)
    BY <1>1, <1>5 DEF HandsMove
  <2>2. PICK lane \in Lanes : HandOverEffect(lane)
    BY <1>5, HandsKept
  <2>3. x[1] = ledger.rev /\ ledger.attempt[x[1]] = x[2]
    BY <2>1 DEF Result
  <2>4. ~(handed[x] > unsure[x])
    BY <2>2, <2>3, NotOver DEF HandedOnce, MemoryKnows, Repeats
  <2>. QED BY <1>3, <2>1, <2>4
<1>. QED BY <1>4, <1>5

LEMMA DiskStep ==
  ASSUME Core, Reclaiming, HandedOnce, Effect, MemoryKnows', Core'
  PROVE  DiskKnows'
<1>. DEFINE Remembers(d, x) ==
       \/ ClosedBy(d.ledger, x[1]) \/ d.ledger.delivered \/ d.ledger.recovery = "unknown"
       \/ x \in d.marker \/ Tried(d, x[1], x[2])
<1>1. SUFFICES ASSUME NEW x \in Results, handed'[x] > unsure'[x], disk'.ledger.rev = x[1], disk'.ledger.attempt[x[1]] = x[2]
               PROVE  Remembers(disk', x)
  BY DEF DiskKnows, Repeats
<1>2. x[1] \in Revisions /\ x = <<x[1], x[2]>>
  BY DEF Results
<1>3. /\ disk'.ledger = disk.ledger \/ disk'.ledger = ledger'
      /\ disk.marker \subseteq disk'.marker /\ markers' \subseteq disk'.marker
      /\ HandsMove /\ handed \in [Results -> Nat] /\ unsure \in [Results -> Nat]
  BY EveryMove, DiskEffects, HandEffects DEF LedgerMoves, DiskMoves, Core, Basics, Typed
<1>4. CASE disk'.ledger = ledger'
  <2>1. Over(x[1])'
    BY <1>1, <1>4 DEF MemoryKnows, Repeats
  <2>2. \/ ClosedBy(ledger', x[1]) \/ ledger'.delivered \/ ledger'.recovery = "unknown"
        \/ <<x[1], ledger'.attempt[x[1]]>> \in markers' \/ Tried(disk', x[1], ledger'.attempt[x[1]])
    BY <2>1 DEF Over, Spent, Left, Traced, Result
  <2>3. ledger'.attempt[x[1]] = x[2]
    BY <1>1, <1>4
  <2>. QED BY <1>2, <1>3, <1>4, <2>2, <2>3
<1>5. CASE disk'.ledger = disk.ledger /\ handed'[x] = handed[x]
  <2>1. handed[x] > unsure[x]
    BY <1>1, <1>3, <1>5 DEF HandsMove
  <2>2. Remembers(disk, x)
    BY <1>1, <1>5, <2>1 DEF HandedOnce, DiskKnows, Repeats
  <2>3. Tried(disk, x[1], x[2]) => Tried(disk', x[1], x[2]) \/ ClosedBy(disk.ledger, x[1])
    BY <1>2, TriedStays
  <2>. QED BY <1>3, <1>5, <2>2, <2>3
<1>6. CASE handed'[x] # handed[x]
  <2>1. /\ x = Result(ledger.rev) /\ handed'[x] = handed[x] + 1
        /\ unsure'[x] = unsure[x] + (IF Marked(ledger.rev) THEN 0 ELSE 1)
    BY <1>3, <1>6 DEF HandsMove
  <2>2. PICK lane \in Lanes : HandOverEffect(lane)
    BY <1>6, HandsKept
  <2>3. x[1] = ledger.rev /\ ledger.attempt[x[1]] = x[2] /\ disk' = disk
    BY <2>1, <2>2 DEF Result, HandOverEffect
  <2>4. ~(handed[x] > unsure[x])
    BY <2>2, <2>3, NotOver DEF HandedOnce, MemoryKnows, Repeats
  <2>5. Marked(ledger.rev)
    BY <1>1, <1>3, <2>1, <2>4
  <2>. QED BY <2>1, <2>3, <2>5 DEF Marked, Tried, OwnItem
<1>. QED BY <1>3, <1>4, <1>5, <1>6

\* The next host knows of a hand-over what the disk holds of it.
LEMMA HandedRestart ==
  ASSUME Core, HandedOnce, RestartEffect
  PROVE  HandedOnce'
<1>1. /\ disk' = disk /\ handed' = handed /\ unsure' = unsure /\ restarts' = restarts + 1
      /\ ledger' = Interrupted(disk.ledger) /\ markers' = disk.marker /\ offered' = {}
      /\ \A r \in Revisions : box'[r] = "none" /\ \A lane \in Lanes : waiting'[lane] # r
  BY BoundsAssumption DEF RestartEffect, Revisions
<1>2. /\ handed \in [Results -> Nat] /\ unsure \in [Results -> Nat] /\ restarts \in Nat /\ disk.ledger \in LedgerRows
      /\ \A x \in Results : handed[x] > 0 => x[2] <= restarts
  BY DEF Core, Basics, Typed, Fresh, DiskRows, Attempts
<1>3. /\ ledger'.rev = disk.ledger.rev /\ ledger'.recovery = disk.ledger.recovery
      /\ ledger'.delivered = disk.ledger.delivered /\ ledger'.settled = disk.ledger.settled
      /\ ledger'.decided = disk.ledger.decided /\ ledger'.attempt = disk.ledger.attempt
      /\ ledger'.scope = disk.ledger.scope
  BY <1>1, <1>2, InterruptedRow
<1>4. ASSUME NEW x \in Results, handed[x] > unsure[x], ledger'.rev = x[1], ledger'.attempt[x[1]] = x[2]
      PROVE  Over(x[1])'
  <2>1. x[1] \in Revisions /\ x = <<x[1], x[2]>> /\ x[2] \in Nat
    BY DEF Results, Attempts
  <2>2. x[2] < restarts'
    BY <1>1, <1>2, <1>4, <2>1
  <2>3. \/ ClosedBy(disk.ledger, x[1]) \/ disk.ledger.delivered \/ disk.ledger.recovery = "unknown"
        \/ x \in disk.marker \/ Tried(disk, x[1], x[2])
    BY <1>3, <1>4 DEF HandedOnce, DiskKnows, Repeats
  <2>4. \/ ClosedBy(ledger', x[1]) \/ ledger'.delivered \/ ledger'.recovery = "unknown"
        \/ <<x[1], ledger'.attempt[x[1]]>> \in markers' \/ Tried(disk', x[1], ledger'.attempt[x[1]])
    BY <1>1, <1>3, <1>4, <2>1, <2>3 DEF ClosedBy
  <2>5. /\ box'[x[1]] = "none" /\ x[1] \notin offered' /\ \A lane \in Lanes : waiting'[lane] # x[1]
        /\ ledger'.attempt[x[1]] < restarts'
    BY <1>1, <1>4, <2>1, <2>2
  <2>. QED BY <2>4, <2>5 DEF Over, Spent, Left, Traced, Result
<1>5. MemoryKnows'
  BY <1>1, <1>4 DEF MemoryKnows, Repeats
<1>6. DiskKnows' /\ RepeatedOnlyUnsaved'
  BY <1>1 DEF HandedOnce, DiskKnows, Repeats, RepeatedOnlyUnsaved
<1>. QED BY <1>5, <1>6 DEF HandedOnce

LEMMA HandedOnceStep ==
  ASSUME Core, Core', Reclaiming, HandedOnce, [Next]_vars
  PROVE  HandedOnce'
<1>1. CASE Effect
  <2>1. MemoryKnows'
    BY <1>1, MemoryStep DEF HandedOnce
  <2>. QED BY <1>1, <2>1, DiskStep, RepeatedStep DEF HandedOnce
<1>2. CASE UNCHANGED vars
  <2>1. UNCHANGED <<ledger, box, offered, waiting, markers, disk, restarts, handed, unsure>>
    BY <1>2 DEF vars, memory, host, history
  <2>2. MemoryKnows'
    BY <2>1 DEF HandedOnce, MemoryKnows, Repeats, Over, Spent, Left, Traced, Tried, Result
  <2>. QED BY <2>1, <2>2 DEF HandedOnce, DiskKnows, Repeats, RepeatedOnlyUnsaved
<1>. QED BY <1>1, <1>2, HandedRestart, EveryEffect

\* A result is handed over a second time only if nothing of the first time had been saved: once an attempt is on the
\* disk, no crash, restart or second lane repeats it.
THEOREM RepeatedOnlyWhenUnsaved == Spec => []RepeatedOnlyUnsaved
<1>1. Init => HandedOnce
  <2>. SUFFICES ASSUME Init PROVE HandedOnce
    OBVIOUS
  <2>1. \A x \in Results : handed[x] = 0 /\ unsure[x] = 0
    BY DEF Init
  <2>. QED BY <2>1 DEF HandedOnce, MemoryKnows, DiskKnows, Repeats, RepeatedOnlyUnsaved
<1>2. Core /\ Core' /\ Reclaiming /\ HandedOnce /\ [Next]_vars => HandedOnce'
  BY HandedOnceStep
<1>3. HandedOnce => RepeatedOnlyUnsaved
  BY DEF HandedOnce
<1>4. Spec => []Reclaiming
  BY ReclaimingInvariance
<1>. QED BY <1>1, <1>2, <1>3, <1>4, CoreInvariance, PTL DEF Spec

-----------------------------------------------------------------------------
(* No result is indexed without its item and its text.                     *)

\* How the items, the index and the bodies change, and in which step.
ItemsFollow ==
  \A r \in Revisions :
    \/ disk'.item[r] = disk.item[r]
    \/ disk'.item[r] = NoItem /\ ((ForgetEffect /\ r = queue[1].rev) \/ ReclaimArchivedEffect(r))
    \/ /\ SaveItemEffect /\ r = queue[1].rev
       /\ disk'.item[r].saved /\ disk'.item[r].attempt = ledger.attempt[r]
       /\ disk.item[r].delivered => disk'.item[r].delivered
       /\ disk.item[r].attempted => disk'.item[r].attempted
       /\ disk'.item[r].archived = disk.item[r].archived /\ Result(r) \in disk'.body
    \/ /\ RetireEffect /\ r = queue[1].rev /\ r \in disk.index
       /\ disk'.item[r].saved = disk.item[r].saved /\ disk'.item[r].attempt = disk.item[r].attempt
       /\ disk'.item[r].delivered = disk.item[r].delivered /\ disk'.item[r].attempted = disk.item[r].attempted

TextsFollow ==
  /\ \A r \in disk'.index : r \in disk.index \/ (SaveIndexEffect /\ r = queue[1].rev)
  /\ \A r \in disk.index : r \in disk'.index \/ (UnindexEffect /\ r = queue[1].rev)
  /\ \A x \in disk.body : \/ x \in disk'.body
                          \/ ReclaimEffect /\ x = Result(queue[1].rev)
                          \/ \E r \in Revisions : ReclaimArchivedEffect(r) /\ x = Result(r)

DiskFollows == ItemsFollow /\ TextsFollow

LEMMA DiskChanges ==
  ASSUME Core, Effect
  PROVE  DiskFollows
<1>1. Typed /\ disk \in DiskRows /\ ledger \in LedgerRows
  BY DEF Core, Basics, Typed
<1>2. \A r \in Revisions : ledger.attempt[r] \in Attempts /\ Result(r) \in Results
  BY <1>1 DEF LedgerRows, Result, Results
<1>3. CASE disk'.item = disk.item /\ disk'.index = disk.index /\ disk'.body = disk.body
  BY <1>3 DEF DiskFollows, ItemsFollow, TextsFollow
<1>4. CASE SaveItemEffect
  <2>1. /\ disk'.index = disk.index /\ disk'.body = disk.body \union {Result(queue[1].rev)}
        /\ disk'.item[queue[1].rev].saved /\ disk'.item[queue[1].rev].attempt = ledger.attempt[queue[1].rev]
        /\ disk.item[queue[1].rev].delivered => disk'.item[queue[1].rev].delivered
        /\ disk.item[queue[1].rev].attempted => disk'.item[queue[1].rev].attempted
        /\ disk'.item[queue[1].rev].archived = disk.item[queue[1].rev].archived
        /\ \A s \in Revisions \ {queue[1].rev} : disk'.item[s] = disk.item[s]
    BY <1>1, <1>4, SavedItem DEF ItemOnDisk, Result
  <2>. QED BY <1>4, <2>1 DEF DiskFollows, ItemsFollow, TextsFollow
<1>5. CASE SaveIndexEffect
  <2>1. disk'.item = disk.item /\ disk'.index = disk.index \union {queue[1].rev} /\ disk'.body = disk.body
    BY <1>1, <1>5, IndexedIs DEF SaveIndexEffect
  <2>. QED BY <1>5, <2>1 DEF DiskFollows, ItemsFollow, TextsFollow
<1>6. CASE SaveLedgerEffect
  <2>1. ledger' \in LedgerRows
    BY <1>6, EveryMove DEF LedgerMoves, LedgerTurn, Grows
  <2>. QED BY <1>1, <1>3, <1>6, <2>1, LedgerSavedIs DEF SaveLedgerEffect
<1>7. CASE SaveMarkerEffect
  BY <1>1, <1>2, <1>3, <1>7, RememberedIs DEF SaveMarkerEffect
<1>8. CASE PickEffect \/ SaveChangedEffect
  BY <1>1, <1>3, <1>8, LedgerSavedIs DEF PickEffect, SaveChangedEffect
<1>9. CASE RetireEffect
  <2>1. CASE queue[1].rev \in disk.index /\ disk' = Archived(disk, queue[1].rev)
    <3>1. /\ disk'.index = disk.index /\ disk'.body = disk.body
          /\ disk'.item[queue[1].rev].saved = disk.item[queue[1].rev].saved
          /\ disk'.item[queue[1].rev].attempt = disk.item[queue[1].rev].attempt
          /\ disk'.item[queue[1].rev].delivered = disk.item[queue[1].rev].delivered
          /\ disk'.item[queue[1].rev].attempted = disk.item[queue[1].rev].attempted
          /\ \A s \in Revisions \ {queue[1].rev} : disk'.item[s] = disk.item[s]
      BY <1>1, <1>9, <2>1, ArchivedIs DEF RetireEffect
    <3>. QED BY <1>9, <2>1, <3>1 DEF DiskFollows, ItemsFollow, TextsFollow
  <2>. QED BY <1>3, <1>9, <2>1 DEF RetireEffect
<1>10. CASE UnindexEffect
  <2>1. disk'.item = disk.item /\ disk'.index = disk.index \ {queue[1].rev} /\ disk'.body = disk.body
    BY <1>1, <1>10, IndexedIs DEF UnindexEffect
  <2>. QED BY <1>10, <2>1 DEF DiskFollows, ItemsFollow, TextsFollow
<1>11. CASE ReclaimEffect
  <2>1. disk'.item = disk.item /\ disk'.index = disk.index /\ disk'.body = disk.body \ {Result(queue[1].rev)}
    BY <1>1, <1>2, <1>11, RememberedIs DEF ReclaimEffect
  <2>. QED BY <1>11, <2>1 DEF DiskFollows, ItemsFollow, TextsFollow
<1>12. CASE ForgetEffect
  <2>1. /\ disk'.index = disk.index /\ disk'.body = disk.body /\ disk'.item[queue[1].rev] = NoItem
        /\ \A s \in Revisions \ {queue[1].rev} : disk'.item[s] = disk.item[s]
    BY <1>1, <1>2, <1>12, ForgottenIs DEF ForgetEffect
  <2>. QED BY <1>12, <2>1 DEF DiskFollows, ItemsFollow, TextsFollow
<1>13. ASSUME NEW r \in Revisions, ReclaimArchivedEffect(r)
       PROVE  DiskFollows
  <2>1. /\ disk'.index = disk.index /\ disk'.body = disk.body \ {Result(r)}
        /\ disk'.item[r] = NoItem /\ \A s \in Revisions \ {r} : disk'.item[s] = disk.item[s]
    BY <1>1, <1>2, <1>13, ReclaimedIs DEF ReclaimArchivedEffect
  <2>. QED BY <1>13, <2>1 DEF DiskFollows, ItemsFollow, TextsFollow
<1>14. CASE DelegationEffect
  BY <1>3, <1>14 DEF DelegationEffect, DispatchEffect, RetainEffect, DecideEffect, ReworkEffect, StopEffect, ResumeEffect,
    RemoveEffect
<1>15. CASE LaneEffect
  BY <1>3, <1>15 DEF LaneEffect, PrepareEffect, HandOverEffect, WithdrawEffect
<1>16. CASE LookEffect \/ SaveFailsEffect \/ GiveUpEffect \/ ShutdownEffect \/ BootEffect
  BY <1>3, <1>16 DEF LookEffect, SaveFailsEffect, GiveUpEffect, ShutdownEffect, BootEffect
<1>17. ASSUME NEW r \in Revisions, PassOverEffect(r) \/ LeaveUnknownEffect(r) \/ RestoreEffect(r)
       PROVE  DiskFollows
  BY <1>3, <1>17 DEF PassOverEffect, LeaveUnknownEffect, RestoreEffect
<1>. QED BY <1>4, <1>5, <1>6, <1>7, <1>8, <1>9, <1>10, <1>11, <1>12, <1>13, <1>14, <1>15, <1>16, <1>17
  DEF Effect, JobEffect, HostEffect

\* A job that saves something of a revision, and one that archives, by their places in the queue.
JobFor(i, r) == i \in 1 .. Len(queue) /\ queue[i].kind # "archive" /\ queue[i].rev = r
ArchiveAt(i) == i \in 1 .. Len(queue) /\ queue[i].kind = "archive"

\* A job is queued for the result that arrives, or for one that can still be delivered, and that has a row; and an archive
\* when all that has been settled is closed.
Added(j) ==
  IF j.kind = "archive"
    THEN \A r \in ledger'.settled : ClosedBy(ledger', r)
    ELSE /\ box'[j.rev] # "none"
         /\ \/ j.rev \in ledger.settled /\ ~ClosedBy(ledger, j.rev)
            \/ RetainEffect /\ j.rev = ledger.rev

\* The job that was at place i + n of the queue is now at i, or one was added at the end.
Shifted(n) ==
  \A i \in 1 .. Len(queue') :
    \/ /\ i + n \in 1 .. Len(queue) /\ queue'[i].kind = queue[i + n].kind
       /\ queue'[i].kind # "archive" => queue'[i].rev = queue[i + n].rev
    \/ n = 0 /\ i = Len(queue') /\ Added(queue'[i])

LEMMA QueueShifts ==
  ASSUME Core
  PROVE  /\ UNCHANGED queue => Shifted(0)
         /\ \A kind, r : JobAdded(kind, r) /\ Added(Job(kind, r)) => Shifted(0)
         /\ HeadGone => Shifted(1)
         /\ (\E n : HeadGoes(n)) \/ PickEffect => Shifted(0)
<1>1. queue \in Seq(JobRows) /\ Len(queue) \in Nat
  BY DEF Core, Basics, Typed
<1>2. ASSUME UNCHANGED queue
      PROVE  Shifted(0)
  BY <1>1, <1>2 DEF Shifted
<1>3. ASSUME NEW kind, NEW r, JobAdded(kind, r), Added(Job(kind, r))
      PROVE  Shifted(0)
  <2>. DEFINE m == Job(kind, r)
  <2>1. m \in JobRows /\ queue' = Append(queue, m) /\ Added(m)
    BY <1>3, NewJob DEF JobAdded
  <2>. HIDE DEF m
  <2>2. /\ Len(queue') = Len(queue) + 1
        /\ \A i \in 1 .. Len(queue) : queue'[i] = queue[i]
        /\ queue'[Len(queue) + 1] = m
    BY <1>1, <2>1, Joined
  <2>. QED BY <1>1, <2>1, <2>2 DEF Shifted
<1>4. ASSUME HeadGone
      PROVE  Shifted(1)
  <2>1. /\ Len(queue') = Len(queue) - 1 /\ Len(queue) >= 1
        /\ \A i \in 1 .. Len(queue') : queue'[i] = queue[i + 1]
    BY <1>1, <1>4, HeadTaken DEF HeadGone
  <2>2. \A i \in 1 .. Len(queue') : i + 1 \in 1 .. Len(queue)
    BY <1>1, <2>1
  <2>. QED BY <2>1, <2>2 DEF Shifted
<1>5. ASSUME NEW m \in JobRows, queue # <<>>, queue' = <<m>> \o Tail(queue), m.kind = queue[1].kind,
             m.kind # "archive" => m.rev = queue[1].rev
      PROVE  Shifted(0)
  <2>1. /\ Len(queue') = Len(queue) /\ queue'[1] = m
        /\ \A i \in 2 .. Len(queue) : queue'[i] = queue[i]
    BY <1>1, <1>5, HeadReplaced
  <2>2. \A i \in 1 .. Len(queue') : /\ i + 0 = i /\ i \in 1 .. Len(queue) /\ queue'[i].kind = queue[i].kind
                                    /\ queue'[i].kind # "archive" => queue'[i].rev = queue[i].rev
    BY <1>1, <1>5, <2>1
  <2>. QED BY <2>2 DEF Shifted
<1>6. ASSUME NEW n, HeadGoes(n)
      PROVE  Shifted(0)
  BY <1>5, <1>6 DEF HeadGoes, Further
<1>7. ASSUME PickEffect
      PROVE  Shifted(0)
  BY <1>5, <1>7, PickedJob DEF PickEffect
<1>. QED BY <1>2, <1>3, <1>4, <1>6, <1>7

LEMMA ShiftEffects ==
  ASSUME Core, Effect
  PROVE  \E n \in {0, 1} : Shifted(n)
<1>1. /\ Typed /\ Shape(ledger) /\ ledger \in LedgerRows /\ ledger.settled \subseteq Revisions
      /\ \A r \in ledger.settled : r \in Nat /\ r <= ledger.rev
  BY BoundsAssumption DEF Core, Basics, Typed, LedgerRows, Revisions, Shape
<1>2. CASE UNCHANGED queue
  BY <1>2, QueueShifts
<1>3. ASSUME NEW kind, NEW r, JobAdded(kind, r),
             kind = "archive" => \A s \in ledger'.settled : ClosedBy(ledger', s),
             kind # "archive" => /\ box'[r] # "none"
                                 /\ (r \in ledger.settled /\ ~ClosedBy(ledger, r)) \/ (RetainEffect /\ r = ledger.rev)
      PROVE  Shifted(0)
  <2>1. Job(kind, r).kind = kind /\ Job(kind, r).rev = r
    BY <1>3, NewJob DEF JobAdded
  <2>2. Added(Job(kind, r))
    BY <1>3, <2>1 DEF Added
  <2>. QED BY <1>3, <2>2, QueueShifts
<1>4. CASE RetainEffect
  <2>1. CASE BoxSet(ledger.rev, "pending") /\ JobAdded("retain", ledger.rev)
    <3>1. box'[ledger.rev] = "pending"
      BY <1>1, <1>4, <2>1 DEF RetainEffect, BoxSet, Typed
    <3>. QED BY <1>3, <1>4, <2>1, <3>1
  <2>. QED BY <1>2, <1>4, <2>1 DEF RetainEffect
<1>5. CASE DecideEffect
  <2>1. /\ ledger'.rev = ledger.rev /\ ledger'.settled = ledger.settled
        /\ ledger'.decided = ledger.decided \union {ledger.rev}
    BY <1>1, <1>5, DecidedRowIs DEF DecideEffect
  <2>2. \A s \in ledger'.settled : ClosedBy(ledger', s)
    BY <1>1, <2>1 DEF ClosedBy, LedgerRows
  <2>. QED BY <1>3, <1>5, <2>2 DEF DecideEffect
<1>6. CASE ReworkEffect
  <2>1. ledger.rev < MaxRevision /\ restarts \in Attempts /\ ledger' = Reworked(ledger, restarts)
    BY <1>1, <1>6 DEF ReworkEffect, Typed
  <2>2. ledger'.rev = ledger.rev + 1 /\ ledger'.settled = ledger.settled
    <3>1. ledger \in LedgerRows
      BY <1>1
    <3>. QED BY <2>1, <3>1, ReworkedRow
  <2>3. \A s \in ledger'.settled : ClosedBy(ledger', s)
    BY <1>1, <2>2, BoundsAssumption DEF ClosedBy, LedgerRows
  <2>. QED BY <1>3, <1>6, <2>3 DEF ReworkEffect
<1>7. CASE RemoveEffect
  BY <1>3, <1>7 DEF RemoveEffect
<1>8. ASSUME NEW r \in Revisions, CanDeliver(r), r \in ledger.settled
      PROVE  ~ClosedBy(ledger, r)
  BY <1>1, <1>8, DeliverableIsSettled DEF ClosedBy
<1>9. ASSUME NEW lane \in Lanes, NEW r \in Revisions, PrepareEffect(lane, r)
      PROVE  \E n \in {0, 1} : Shifted(n)
  <2>1. r \in ledger.settled /\ ~ClosedBy(ledger, r)
    BY <1>8, <1>9 DEF PrepareEffect, Core, Known
  <2>2. CASE JobAdded("prepare", r) /\ box[r] # "none"
    <3>1. box' = box
      BY <1>9 DEF PrepareEffect
    <3>. QED BY <1>3, <2>1, <2>2, <3>1
  <2>. QED BY <1>2, <1>9, <2>2 DEF PrepareEffect
<1>10. ASSUME NEW lane \in Lanes, HandOverEffect(lane)
       PROVE  \E n \in {0, 1} : Shifted(n)
  <2>1. ledger.rev \in Revisions /\ waiting[lane] = ledger.rev /\ CanDeliver(ledger.rev) /\ ledger.rev # 0
    BY <1>10, BoundsAssumption DEF HandOverEffect, Revisions
  <2>2. ledger.rev \in ledger.settled /\ ~ClosedBy(ledger, ledger.rev)
    BY <1>8, <2>1 DEF Core, Known
  <2>3. CASE JobAdded("delivered", ledger.rev) /\ BoxSet(ledger.rev, "delivered")
    <3>1. box'[ledger.rev] = "delivered"
      BY <1>1, <2>1, <2>3 DEF BoxSet, Typed
    <3>. QED BY <1>3, <2>2, <2>3, <3>1
  <2>. QED BY <1>2, <1>10, <2>3 DEF HandOverEffect
<1>11. CASE DispatchEffect \/ StopEffect \/ ResumeEffect
  BY <1>2, <1>11 DEF DispatchEffect, StopEffect, ResumeEffect
<1>12. CASE LaneEffect
  BY <1>2, <1>9, <1>10, <1>12 DEF LaneEffect, WithdrawEffect
<1>13. CASE JobEffect
  BY <1>13, QueueShifts DEF JobEffect, LookEffect, SaveItemEffect, SaveIndexEffect, SaveFailsEffect, SaveLedgerEffect,
    SaveMarkerEffect, RetireEffect, UnindexEffect, ReclaimEffect, ForgetEffect, GiveUpEffect
<1>14. CASE HostEffect
  BY <1>2, <1>14 DEF HostEffect, SaveChangedEffect, ShutdownEffect, BootEffect, ReclaimArchivedEffect, PassOverEffect,
    LeaveUnknownEffect, RestoreEffect
<1>. QED BY <1>4, <1>5, <1>6, <1>7, <1>11, <1>12, <1>13, <1>14 DEF Effect, DelegationEffect

\* No archive overtakes what is still to be saved: ahead of an archive there is nothing, neither an item on the disk nor a
\* job, of a result that is still open, or of which a job comes after that archive.
Clear(i, r) == ~OwnItem(r) /\ \A h \in 1 .. i - 1 : ~JobFor(h, r)

Ordered ==
  \A r \in Revisions, i \in Nat :
    /\ ArchiveAt(i)
    /\ \/ r \in ledger.settled /\ ~ClosedBy(ledger, r)
       \/ \E k \in Nat : k > i /\ JobFor(k, r)
    => Clear(i, r)

\* The step that makes a result's item its own is the save of that item.
LEMMA OwnFrom ==
  ASSUME Core, Effect, NEW r \in Revisions, r <= ledger.rev, OwnItem(r)'
  PROVE  ledger'.attempt[r] = ledger.attempt[r] /\ (OwnItem(r) \/ (SaveItemEffect /\ queue[1].rev = r))
<1>1. ledger'.attempt[r] = ledger.attempt[r]
  BY DiskAhead, BoundsAssumption DEF Ahead, Revisions, LedgerRows
<1>2. disk'.item[r].saved /\ disk'.item[r].attempt = ledger'.attempt[r]
  BY DEF OwnItem
<1>. QED BY <1>1, <1>2, DiskChanges, NoItemIs DEF DiskFollows, ItemsFollow, OwnItem

LEMMA RetainedIsNew ==
  ASSUME Core, RetainEffect
  PROVE  /\ ledger.rev \in Revisions /\ ledger.rev \notin ledger.settled /\ ~OwnItem(ledger.rev)
         /\ \A h : ~JobFor(h, ledger.rev) /\ ledger'.settled = ledger.settled \union {ledger.rev}
<1>1. ledger.rev \in Revisions /\ ledger.life = "active" /\ Unborn(ledger, ledger.rev) /\ ledger \in LedgerRows
  BY DEF RetainEffect, Unborn, Core, Basics, Typed
<1>2. ledger.rev \notin ledger.settled /\ ~OwnItem(ledger.rev)
  BY <1>1 DEF Core, Basics, Shape, Fresh, OwnItem
<1>3. ledger'.settled = ledger.settled \union {ledger.rev}
  BY <1>1, SettledRow DEF RetainEffect
<1>4. \A h : ~JobFor(h, ledger.rev)
  BY <1>2 DEF JobFor, Core, Basics, JobsPlaced
<1>. QED BY <1>1, <1>2, <1>3, <1>4

\* What is newly settled has just arrived.
LEMMA SettledFrom ==
  ASSUME Core, Effect, NEW r \in ledger'.settled, r \notin ledger.settled
  PROVE  RetainEffect /\ r = ledger.rev
<1>1. ledger \in LedgerRows /\ restarts \in Attempts /\ ledger.settled \subseteq Revisions
  BY DEF Core, Basics, Typed, LedgerRows
<1>2. CASE RetainEffect
  BY <1>2, RetainedIsNew
<1>3. CASE DispatchEffect
  BY <1>1, <1>3, BegunRow DEF DispatchEffect
<1>4. CASE DecideEffect
  BY <1>1, <1>4, DecidedRowIs DEF DecideEffect
<1>5. CASE ReworkEffect
  <2>1. ledger.rev < MaxRevision /\ ledger' = Reworked(ledger, restarts)
    BY <1>5 DEF ReworkEffect
  <2>. QED BY <1>1, <2>1, ReworkedRow
<1>6. CASE StopEffect \/ ResumeEffect \/ RemoveEffect
  <2>1. UNCHANGED ledger \/ \E from, to : Rescoping(from, to)
    BY <1>6 DEF StopEffect, ResumeEffect, RemoveEffect
  <2>. QED BY <1>1, <2>1, RescopedRow DEF Rescoping
<1>7. ledger' = ledger \/ (\E v \in Recoveries : ledger' = Flag(ledger, v)) \/ ledger' = Gave(ledger) => FALSE
  <2>1. ASSUME NEW v \in Recoveries, ledger' = Flag(ledger, v)
        PROVE  FALSE
    BY <1>1, <2>1, FlagRow DEF SameRun
  <2>2. ledger' # Gave(ledger)
    BY <1>1, GaveRow DEF SameRun
  <2>. QED BY <2>1, <2>2
<1>8. CASE LaneEffect
  BY <1>7, <1>8 DEF LaneEffect, PrepareEffect, HandOverEffect, WithdrawEffect, Recoveries
<1>9. CASE JobEffect
  BY <1>7, <1>9 DEF JobEffect, LookEffect, SaveItemEffect, SaveIndexEffect, SaveFailsEffect, SaveLedgerEffect,
    SaveMarkerEffect, PickEffect, RetireEffect, UnindexEffect, ReclaimEffect, ForgetEffect, GiveUpEffect, FlagsUnsaved,
    Recoveries
<1>10. CASE HostEffect
  BY <1>7, <1>10 DEF HostEffect, SaveChangedEffect, ShutdownEffect, BootEffect, ReclaimArchivedEffect, PassOverEffect,
    LeaveUnknownEffect, RestoreEffect, Recoveries
<1>. QED BY <1>2, <1>3, <1>4, <1>5, <1>6, <1>8, <1>9, <1>10 DEF Effect, DelegationEffect

LEMMA OrderedStep ==
  ASSUME Core, Ordered, Effect
  PROVE  Ordered'
<1>1. PICK n \in {0, 1} : Shifted(n)
  BY ShiftEffects
<1>2. /\ queue \in Seq(JobRows) /\ Len(queue) \in Nat /\ queue' \in Seq(JobRows) /\ Len(queue') \in Nat
      /\ ledger.settled \subseteq ledger'.settled /\ \A r \in ledger.settled : r \in Revisions /\ r <= ledger.rev
      /\ \A r : ClosedBy(ledger, r) => ClosedBy(ledger', r)
  <2>1. queue \in Seq(JobRows) /\ queue' \in Seq(JobRows)
    BY QueuePlaced DEF Core, Basics, Typed
  <2>2. ledger.settled \subseteq ledger'.settled /\ \A r : ClosedBy(ledger, r) => ClosedBy(ledger', r)
    BY DiskAhead, ClosedStays DEF Ahead
  <2>3. \A r \in ledger.settled : r \in Revisions /\ r <= ledger.rev
    BY DiskAhead, BoundsAssumption DEF Shape, LedgerRows, Revisions
  <2>. QED BY <2>1, <2>2, <2>3, LenProperties
<1>3. SUFFICES ASSUME NEW r \in Revisions, NEW i \in Nat, ArchiveAt(i)',
                      \/ r \in ledger'.settled /\ ~ClosedBy(ledger', r)
                      \/ \E k \in Nat : k > i /\ JobFor(k, r)'
               PROVE  ~OwnItem(r)' /\ \A h \in 1 .. i - 1 : ~JobFor(h, r)'
  BY DEF Ordered, Clear
<1>4. i \in 1 .. Len(queue') /\ queue'[i].kind = "archive"
  BY <1>3 DEF ArchiveAt
<1>5. i + n \in 1 .. Len(queue) /\ queue[i + n].kind = "archive"
  <2>1. ASSUME i = Len(queue'), \A s \in ledger'.settled : ClosedBy(ledger', s)
        PROVE  FALSE
    BY <1>2, <1>3, <2>1 DEF JobFor
  <2>. QED BY <1>1, <1>4, <2>1 DEF Shifted, Added
\* Of whom there is a job now, there was one; or it has been added.
<1>6. ASSUME NEW k \in Nat, JobFor(k, r)'
      PROVE  \/ JobFor(k + n, r)
             \/ k = Len(queue') /\ r \in ledger.settled /\ ~ClosedBy(ledger, r)
             \/ k = Len(queue') /\ RetainEffect /\ r = ledger.rev
  BY <1>1, <1>6 DEF JobFor, Shifted, Added
<1>7. CASE RetainEffect /\ r = ledger.rev
  <2>1. ~OwnItem(r) /\ \A h : ~JobFor(h, r)
    BY <1>7, RetainedIsNew
  <2>2. ~OwnItem(r)'
    <3>1. r <= ledger.rev
      BY <1>7, BoundsAssumption DEF Revisions
    <3>2. SaveItemEffect => queue[1].rev \in ledger.settled
      BY FirstJob DEF SaveItemEffect, HeadGoes, Core, Basics
    <3>. QED BY <1>7, <2>1, <3>1, <3>2, OwnFrom, RetainedIsNew
  <2>3. \A h \in 1 .. i - 1 : ~JobFor(h, r)'
    BY <1>2, <1>4, <1>6, <2>1, <1>5
  <2>. QED BY <2>2, <2>3
<1>8. CASE ~(RetainEffect /\ r = ledger.rev)
  <2>1. ASSUME r \in ledger'.settled, r \notin ledger.settled
        PROVE  FALSE
    BY <1>8, <2>1, SettledFrom
  <2>2. \/ r \in ledger.settled /\ ~ClosedBy(ledger, r)
        \/ \E k \in Nat : k > i + n /\ JobFor(k, r)
    <3>1. CASE r \in ledger'.settled /\ ~ClosedBy(ledger', r)
      BY <1>2, <2>1, <3>1
    <3>2. ASSUME NEW k \in Nat, k > i, JobFor(k, r)'
          PROVE  \/ r \in ledger.settled /\ ~ClosedBy(ledger, r)
                 \/ \E m \in Nat : m > i + n /\ JobFor(m, r)
      BY <1>6, <1>8, <3>2
    <3>. QED BY <1>3, <3>1, <3>2
  <2>3. Clear(i + n, r)
    BY <1>5, <2>2 DEF Ordered, ArchiveAt
  <2>4. \A h \in 1 .. i - 1 : ~JobFor(h, r)'
    BY <1>2, <1>4, <1>6, <1>8, <2>3 DEF Clear
  <2>5. ~OwnItem(r)'
    <3>1. r \in ledger.settled
      BY <2>2 DEF JobFor, Core, Basics, JobsPlaced
    <3>2. ASSUME SaveItemEffect, queue[1].rev = r
          PROVE  FALSE
      <4>1. queue # <<>> /\ queue[1].kind # "archive" /\ 1 \in 1 .. Len(queue)
        BY <1>2, <3>2, HeadTaken DEF SaveItemEffect, HeadGoes
      <4>2. JobFor(1, r) /\ i + n # 1 /\ 1 \in 1 .. (i + n) - 1
        BY <1>4, <1>5, <3>2, <4>1 DEF JobFor
      <4>. QED BY <2>3, <4>2 DEF Clear
    <3>. QED BY <1>2, <2>3, <3>1, <3>2, OwnFrom DEF Clear
  <2>. QED BY <2>4, <2>5
<1>. QED BY <1>7, <1>8

\* A job comes to its third or fifth step by the step before.
LEMMA HeadArrives ==
  ASSUME Core, Effect, queue' # <<>>, queue'[1].at \in {3, 5}
  PROVE  /\ queue # <<>>
         /\ \/ queue'[1] = queue[1]
            \/ SaveItemEffect /\ Further(queue[1], queue'[1], 3) /\ queue[1].kind # "archive"
            \/ RetireEffect /\ Further(queue[1], queue'[1], 3) /\ queue[1].kind = "archive"
            \/ ReclaimEffect /\ Further(queue[1], queue'[1], 5) /\ queue[1].kind = "archive"
<1>. DEFINE Goal ==
       /\ queue # <<>>
       /\ \/ queue'[1] = queue[1]
          \/ SaveItemEffect /\ Further(queue[1], queue'[1], 3) /\ queue[1].kind # "archive"
          \/ RetireEffect /\ Further(queue[1], queue'[1], 3) /\ queue[1].kind = "archive"
          \/ ReclaimEffect /\ Further(queue[1], queue'[1], 5) /\ queue[1].kind = "archive"
<1>1. UNCHANGED queue => Goal
  BY HeadAfter
<1>2. \A kind, r : JobAdded(kind, r) => Goal
  BY HeadAfter DEF JobAdded
<1>3. ~HeadGone /\ ~PickEffect
  BY HeadAfter
<1>4. \A n : HeadGoes(n) => queue # <<>> /\ Further(queue[1], queue'[1], n) /\ n \in {3, 5}
  BY HeadAfter DEF Further, HeadGoes
<1>5. SaveItemEffect => Goal
  BY <1>4 DEF SaveItemEffect
<1>6. RetireEffect => Goal
  BY <1>4 DEF RetireEffect
<1>7. ReclaimEffect => Goal
  BY <1>4 DEF ReclaimEffect
<1>. SUFFICES Goal
  OBVIOUS
<1>. HIDE DEF Goal
<1>8. CASE DelegationEffect
  BY <1>1, <1>2, <1>8 DEF DelegationEffect, DispatchEffect, RetainEffect, DecideEffect, ReworkEffect, StopEffect,
    ResumeEffect, RemoveEffect
<1>9. CASE LaneEffect
  BY <1>1, <1>2, <1>9 DEF LaneEffect, PrepareEffect, HandOverEffect, WithdrawEffect
<1>10. CASE JobEffect
  BY <1>3, <1>4, <1>5, <1>6, <1>7, <1>10 DEF JobEffect, LookEffect, SaveIndexEffect, SaveFailsEffect, SaveLedgerEffect,
    SaveMarkerEffect, UnindexEffect, ForgetEffect, GiveUpEffect
<1>11. CASE HostEffect
  BY <1>1, <1>11 DEF HostEffect, SaveChangedEffect, ShutdownEffect, BootEffect, ReclaimArchivedEffect, PassOverEffect,
    LeaveUnknownEffect, RestoreEffect
<1>. QED BY <1>8, <1>9, <1>10, <1>11 DEF Effect

\* An archived item is not the one a job has still to save to; a job that indexes has saved its item and text, and one
\* that forgets an item has taken it from the index.
Shelved ==
  \A r \in Revisions :
    disk.item[r].archived => disk.item[r].saved /\ (OwnItem(r) => \A k \in Nat : ~JobFor(k, r))

HeadSaved ==
  queue # <<>> /\ queue[1].kind # "archive" /\ queue[1].at = 3 =>
    OwnItem(queue[1].rev) /\ Result(queue[1].rev) \in disk.body

HeadUnindexed == queue # <<>> /\ queue[1].kind = "archive" /\ queue[1].at = 5 => queue[1].rev \notin disk.index

Texts == Ordered /\ Shelved /\ HeadSaved /\ HeadUnindexed /\ BodyBehindIndex

LEMMA ShelvedStep ==
  ASSUME Core, Reclaiming, Texts, Effect
  PROVE  Shelved'
<1>1. PICK n \in {0, 1} : Shifted(n)
  BY ShiftEffects
<1>2. /\ queue \in Seq(JobRows) /\ Len(queue) \in Nat /\ queue' \in Seq(JobRows) /\ Len(queue') \in Nat
      /\ \A r \in ledger.settled : r \in Revisions /\ r <= ledger.rev
      /\ \A r : ClosedBy(disk.ledger, r) => ClosedBy(ledger, r)
  <2>1. queue \in Seq(JobRows) /\ queue' \in Seq(JobRows)
    BY QueuePlaced DEF Core, Basics, Typed
  <2>2. \A r : ClosedBy(disk.ledger, r) => ClosedBy(ledger, r)
    BY DiskAhead, ClosedStays
  <2>3. \A r \in ledger.settled : r \in Revisions /\ r <= ledger.rev
    BY DiskAhead, BoundsAssumption DEF Shape, LedgerRows, Revisions
  <2>. QED BY <2>1, <2>2, <2>3, LenProperties
<1>3. SUFFICES ASSUME NEW r \in Revisions, disk'.item[r].archived
               PROVE  disk'.item[r].saved /\ (OwnItem(r)' => \A k \in Nat : ~JobFor(k, r)')
  BY DEF Shelved
<1>4. DiskFollows /\ (disk.item[r].archived => disk.item[r].saved)
  BY DiskChanges DEF Texts, Shelved
<1>5. disk'.item[r].saved
  BY <1>3, <1>4, NoItemIs DEF DiskFollows, ItemsFollow, Texts, BodyBehindIndex
<1>6. ASSUME NEW k \in Nat, JobFor(k, r)', OwnItem(r)'
      PROVE  FALSE
  <2>1. \/ k + n \in Nat /\ JobFor(k + n, r) /\ r \in ledger.settled
        \/ r \in ledger.settled /\ ~ClosedBy(ledger, r)
        \/ RetainEffect /\ r = ledger.rev
    <3>1. \/ JobFor(k + n, r)
          \/ r \in ledger.settled /\ ~ClosedBy(ledger, r)
          \/ RetainEffect /\ r = ledger.rev
      BY <1>1, <1>6 DEF JobFor, Shifted, Added
    <3>2. JobFor(k + n, r) => r \in ledger.settled /\ k + n \in Nat
      BY DEF JobFor, Core, Basics, JobsPlaced
    <3>. QED BY <3>1, <3>2
  <2>2. CASE RetainEffect /\ r = ledger.rev
    <3>1. r <= ledger.rev /\ r \notin ledger.settled /\ ~OwnItem(r)
      BY <2>2, BoundsAssumption, RetainedIsNew DEF Revisions
    <3>2. SaveItemEffect => queue[1].rev \in ledger.settled
      BY FirstJob DEF SaveItemEffect, HeadGoes, Core, Basics
    <3>. QED BY <1>6, <3>1, <3>2, OwnFrom
  <2>3. CASE ~(RetainEffect /\ r = ledger.rev)
    <3>1. r \in ledger.settled /\ r <= ledger.rev
      BY <1>2, <2>1, <2>3
    <3>2. ~(disk.item[r].archived /\ OwnItem(r))
      <4>1. disk.item[r].archived => ClosedBy(ledger, r)
        BY <1>2 DEF Reclaiming, ItemsClosed
      <4>. QED BY <2>1, <2>3, <4>1 DEF Texts, Shelved
    <3>3. OwnItem(r) \/ (SaveItemEffect /\ queue[1].rev = r)
      BY <1>6, <3>1, OwnFrom
    <3>4. CASE OwnItem(r)
      <4>1. RetireEffect /\ r = queue[1].rev
        BY <1>3, <3>2, <3>4, ShredEffects DEF ShredMoves
      <4>2. queue # <<>> /\ queue[1].kind = "archive" /\ 1 \in 1 .. Len(queue)
        BY <1>2, <4>1, HeadTaken DEF RetireEffect, HeadGoes
      <4>3. ArchiveAt(1) /\ \A i \in Nat : JobFor(i, r) => i > 1
        BY <4>2 DEF ArchiveAt, JobFor
      <4>4. Clear(1, r)
        BY <2>1, <2>3, <4>3 DEF Texts, Ordered
      <4>. QED BY <3>4, <4>4 DEF Clear
    <3>5. CASE SaveItemEffect /\ queue[1].rev = r /\ ~OwnItem(r)
      <4>1. ~disk.item[r].saved
        BY <3>5 DEF SaveItemEffect
      <4>2. disk'.item[r].archived = disk.item[r].archived
        BY <3>5, SavedItem DEF ItemOnDisk, Core, Basics
      <4>. QED BY <1>3, <1>4, <4>1, <4>2
    <3>. QED BY <3>3, <3>4, <3>5
  <2>. QED BY <2>2, <2>3
<1>. QED BY <1>5, <1>6

LEMMA HeadSavedStep ==
  ASSUME Core, Texts, Effect
  PROVE  HeadSaved' /\ HeadUnindexed'
<1>1. DiskFollows /\ queue \in Seq(JobRows) /\ \A r \in Revisions : Result(r) \in Results
  BY DiskChanges DEF Core, Basics, Typed, LedgerRows, Result, Results
<1>2. ASSUME queue # <<>>, queue[1].kind # "archive", queue[1].at = 3
      PROVE  /\ queue[1].rev \in Revisions /\ ledger'.attempt[queue[1].rev] = ledger.attempt[queue[1].rev]
             /\ disk'.item[queue[1].rev] = disk.item[queue[1].rev] /\ Result(queue[1].rev) \in disk'.body
  <2>. DEFINE r == queue[1].rev
  <2>1. r \in Revisions /\ r \in ledger.settled /\ 1 \in 1 .. Len(queue)
    BY <1>2, FirstJob DEF Core, Basics, Typed, LedgerRows
  <2>2. ledger'.attempt[r] = ledger.attempt[r]
    BY <2>1, DiskAhead, BoundsAssumption DEF Ahead, Shape, LedgerRows, Revisions
  <2>3. JobFor(1, r) /\ OwnItem(r) /\ Result(r) \in disk.body
    BY <1>2, <2>1 DEF JobFor, Texts, HeadSaved
  <2>4. ~disk.item[r].archived
    BY <2>1, <2>3 DEF Texts, Shelved
  <2>5. ~ReclaimArchivedEffect(r)
    BY <2>4 DEF ReclaimArchivedEffect
  <2>6. disk'.item[r] = disk.item[r]
    BY <1>1, <1>2, <2>1, <2>5 DEF DiskFollows, ItemsFollow, ForgetEffect, SaveItemEffect, RetireEffect
  <2>7. Result(r) \in disk'.body
    <3>1. ASSUME NEW s \in Revisions, ReclaimArchivedEffect(s), Result(r) = Result(s)
          PROVE  FALSE
      <4>1. r = s
        BY <3>1 DEF Result
      <4>. QED BY <2>5, <3>1, <4>1
    <3>. QED BY <1>1, <1>2, <2>3, <3>1 DEF DiskFollows, TextsFollow, ReclaimEffect
  <2>. QED BY <2>1, <2>2, <2>6, <2>7
<1>3. ASSUME SaveItemEffect, Further(queue[1], queue'[1], 3)
      PROVE  OwnItem(queue[1].rev)' /\ Result(queue[1].rev)' \in disk'.body
  <2>1. ItemOnDisk(queue[1], disk') /\ ledger' = ledger /\ queue'[1].rev = queue[1].rev
    BY <1>3, SavedItem DEF SaveItemEffect, Further, Core, Basics
  <2>. QED BY <2>1 DEF ItemOnDisk, OwnItem, Result
<1>4. HeadSaved'
  <2>1. SUFFICES ASSUME queue' # <<>>, queue'[1].kind # "archive", queue'[1].at = 3
                 PROVE  OwnItem(queue[1].rev)' /\ Result(queue[1].rev)' \in disk'.body
    BY DEF HeadSaved
  <2>2. queue # <<>> /\ (queue'[1] = queue[1] \/ (SaveItemEffect /\ Further(queue[1], queue'[1], 3)))
    BY <2>1, HeadArrives DEF Further
  <2>3. CASE queue'[1] = queue[1]
    <3>1. OwnItem(queue[1].rev)
      BY <2>1, <2>2, <2>3 DEF Texts, HeadSaved
    <3>. QED BY <1>2, <2>1, <2>2, <2>3, <3>1 DEF OwnItem, Result
  <2>. QED BY <1>3, <2>2, <2>3
<1>5. HeadUnindexed'
  <2>1. SUFFICES ASSUME queue' # <<>>, queue'[1].kind = "archive", queue'[1].at = 5
                 PROVE  queue'[1].rev \notin disk'.index
    BY DEF HeadUnindexed
  <2>2. queue # <<>> /\ (queue'[1] = queue[1] \/ (ReclaimEffect /\ Further(queue[1], queue'[1], 5)))
    BY <2>1, HeadArrives DEF Further
  <2>3. CASE queue'[1] = queue[1]
    <3>1. queue[1].rev \notin disk.index
      BY <2>1, <2>2, <2>3 DEF Texts, HeadUnindexed
    <3>2. ~SaveIndexEffect
      BY <2>1, <2>3 DEF SaveIndexEffect
    <3>. QED BY <1>1, <2>3, <3>1, <3>2 DEF DiskFollows, TextsFollow
  <2>4. CASE ReclaimEffect /\ Further(queue[1], queue'[1], 5)
    <3>1. disk'.index = disk.index /\ queue[1].rev \notin disk.index /\ queue'[1].rev = queue[1].rev
      BY <1>1, <2>4, RememberedIs DEF ReclaimEffect, Further, Core, Basics, Typed
    <3>. QED BY <3>1
  <2>. QED BY <2>2, <2>3, <2>4
<1>. QED BY <1>4, <1>5

LEMMA BodyStep ==
  ASSUME Core, Texts, Effect
  PROVE  BodyBehindIndex'
<1>1. DiskFollows /\ Typed /\ disk \in DiskRows /\ disk' \in DiskRows
  BY DiskChanges, EveryMove DEF LedgerMoves, Core, Basics, Typed
<1>2. SUFFICES ASSUME NEW r \in disk'.index
               PROVE  disk'.item[r].saved /\ <<r, disk'.item[r].attempt>> \in disk'.body
  BY DEF BodyBehindIndex
<1>3. r \in Revisions
  BY <1>1 DEF DiskRows
<1>4. CASE r \in disk.index
  <2>1. disk.item[r].saved /\ <<r, disk.item[r].attempt>> \in disk.body
    BY <1>4 DEF Texts, BodyBehindIndex
  <2>2. <<r, disk.item[r].attempt>> \in disk'.body
    <3>1. ASSUME ReclaimEffect
          PROVE  <<r, disk.item[r].attempt>> # Result(queue[1].rev)
      BY <1>4, <3>1 DEF ReclaimEffect, Result
    <3>2. ASSUME NEW s \in Revisions, ReclaimArchivedEffect(s)
          PROVE  <<r, disk.item[r].attempt>> # Result(s)
      BY <1>4, <3>2 DEF ReclaimArchivedEffect, Result
    <3>. QED BY <1>1, <2>1, <3>1, <3>2 DEF DiskFollows, TextsFollow
  <2>3. ~(ForgetEffect /\ r = queue[1].rev) /\ ~ReclaimArchivedEffect(r)
    BY <1>4 DEF ForgetEffect, HeadGoes, ReclaimArchivedEffect, Texts, HeadUnindexed
  <2>4. CASE SaveItemEffect /\ r = queue[1].rev
    BY <1>1, <2>4, SavedItem DEF ItemOnDisk
  <2>5. CASE disk'.item[r].saved = disk.item[r].saved /\ disk'.item[r].attempt = disk.item[r].attempt
    BY <2>1, <2>2, <2>5
  <2>. QED BY <1>1, <1>3, <2>3, <2>4, <2>5 DEF DiskFollows, ItemsFollow
<1>5. CASE SaveIndexEffect /\ r = queue[1].rev
  <2>1. disk'.item = disk.item /\ disk'.body = disk.body
    BY <1>1, <1>5, IndexedIs DEF SaveIndexEffect
  <2>2. OwnItem(r) /\ Result(r) \in disk.body
    BY <1>5 DEF SaveIndexEffect, HeadGoes, HeadGone, Texts, HeadSaved
  <2>. QED BY <2>1, <2>2 DEF OwnItem, Result
<1>. QED BY <1>1, <1>4, <1>5 DEF DiskFollows, TextsFollow

LEMMA TextsStep ==
  ASSUME Core, Reclaiming, Texts, [Next]_vars
  PROVE  Texts'
<1>1. CASE Effect
  BY <1>1, OrderedStep, ShelvedStep, HeadSavedStep, BodyStep DEF Texts
<1>2. CASE RestartEffect
  <2>1. disk' = disk /\ queue' = <<>> /\ Len(queue') = 0
    BY <1>2 DEF RestartEffect
  <2>2. \A i : ~JobFor(i, 0)' /\ ~ArchiveAt(i)' /\ \A r : ~JobFor(i, r)'
    BY <2>1 DEF JobFor, ArchiveAt
  <2>. QED BY <2>1, <2>2 DEF Texts, Ordered, Shelved, HeadSaved, HeadUnindexed, BodyBehindIndex
<1>3. CASE UNCHANGED vars
  <2>1. UNCHANGED <<ledger, queue, disk>>
    BY <1>3 DEF vars, memory
  <2>. QED BY <2>1 DEF Texts, Ordered, Clear, ArchiveAt, JobFor, Shelved, HeadSaved, HeadUnindexed, BodyBehindIndex,
    OwnItem, Result
<1>. QED BY <1>1, <1>2, <1>3, EveryEffect

LEMMA TextsInvariance == Spec => []Texts
<1>1. Init => Texts
  <2>. SUFFICES ASSUME Init PROVE Texts
    OBVIOUS
  <2>1. queue = <<>> /\ Len(queue) = 0 /\ disk.index = {} /\ \A r \in Revisions : disk.item[r] = NoItem
    BY DEF Init
  <2>2. \A i : ~ArchiveAt(i)
    BY <2>1 DEF ArchiveAt
  <2>. QED BY <2>1, <2>2, NoItemIs DEF Texts, Ordered, Shelved, HeadSaved, HeadUnindexed, BodyBehindIndex
<1>2. Core /\ Reclaiming /\ Texts /\ [Next]_vars => Texts'
  BY TextsStep
<1>. QED BY <1>1, <1>2, CoreInvariance, ReclaimingInvariance, PTL DEF Spec

\* At every crash point an indexed result has its item and its text: the saves go from the text to the index, the archive
\* from the index to the text, and no archive comes between two saves of a result.
THEOREM IndexedHasItsText == Spec => []BodyBehindIndex
<1>1. Texts => BodyBehindIndex
  BY DEF Texts
<1>. QED BY <1>1, TextsInvariance, PTL


-----------------------------------------------------------------------------
(* A result that was saved and is still owed is known to the host.         *)

\* A row leaves the mailbox only as it is taken from the index.
LEMMA RowLeaves ==
  ASSUME Core, Effect, NEW r \in Revisions, box[r] # "none", box'[r] = "none"
  PROVE  UnindexEffect /\ r = queue[1].rev
<1>1. box \in BoxRows /\ ledger \in LedgerRows
  BY DEF Core, Basics, Typed, BoxRows
<1>2. box' # box
  OBVIOUS
<1>3. \A s \in Revisions : \A v : BoxSet(s, v) /\ v # "none" => FALSE
  BY <1>1 DEF BoxSet, BoxRows
<1>4. \A s : ~BoxReserved(s)
  BY DEF BoxReserved
<1>5. ~DelegationEffect
  BY <1>2, <1>3, <1>4 DEF DelegationEffect, DispatchEffect, RetainEffect, DecideEffect, ReworkEffect, StopEffect,
    ResumeEffect, RemoveEffect
<1>6. ~LaneEffect
  BY <1>2, <1>3 DEF LaneEffect, PrepareEffect, HandOverEffect, WithdrawEffect
<1>7. ~HostEffect
  <2>1. \A s \in Revisions : ~RestoreEffect(s)
    BY <1>2, <1>3 DEF RestoreEffect
  <2>. QED BY <1>2, <2>1 DEF HostEffect, SaveChangedEffect, ShutdownEffect, BootEffect, ReclaimArchivedEffect,
    PassOverEffect, LeaveUnknownEffect
<1>8. UnindexEffect
  BY <1>2, <1>5, <1>6, <1>7 DEF Effect, JobEffect, LookEffect, SaveItemEffect, SaveIndexEffect, SaveFailsEffect,
    SaveLedgerEffect, SaveMarkerEffect, PickEffect, RetireEffect, ReclaimEffect, ForgetEffect, GiveUpEffect
<1>9. r = queue[1].rev
  BY <1>1, <1>8 DEF UnindexEffect, BoxSet, BoxRows
<1>. QED BY <1>8, <1>9

\* How far the recovery is, and what it has still to read.
HostFollows ==
  /\ ending => ending'
  /\ \A r \in Revisions : r \in skipped => r \in skipped'
  /\ \A r \in unread : \/ r \in unread'
                       \/ PassOverEffect(r) \/ LeaveUnknownEffect(r) \/ RestoreEffect(r)
  /\ \/ boot' = boot \/ boot' \in {"closed", "reclaiming"}
     \/ boot = "reading" /\ boot' = "ready"
     \/ boot' = "reading" /\ unread' = disk'.index

LEMMA HostChanges ==
  ASSUME Core, Effect
  PROVE  HostFollows
<1>1. UNCHANGED <<ending, skipped, unread, boot>> => HostFollows
  BY DEF HostFollows
<1>2. CASE DelegationEffect
  BY <1>1, <1>2 DEF DelegationEffect, DispatchEffect, RetainEffect, DecideEffect, ReworkEffect, StopEffect, ResumeEffect,
    RemoveEffect
<1>3. CASE LaneEffect
  BY <1>1, <1>3 DEF LaneEffect, PrepareEffect, HandOverEffect, WithdrawEffect
<1>4. CASE JobEffect
  BY <1>1, <1>4 DEF JobEffect, LookEffect, SaveItemEffect, SaveIndexEffect, SaveFailsEffect, SaveLedgerEffect,
    SaveMarkerEffect, PickEffect, RetireEffect, UnindexEffect, ReclaimEffect, ForgetEffect, GiveUpEffect
<1>5. CASE SaveChangedEffect \/ ShutdownEffect
  BY <1>5 DEF SaveChangedEffect, ShutdownEffect, HostFollows
<1>6. CASE BootEffect
  <2>1. unread # {} => boot = "reading"
    BY DEF Core, Basics, Typed
  <2>. QED BY <1>6, <2>1 DEF BootEffect, HostFollows
<1>7. ASSUME NEW s \in Revisions, ReclaimArchivedEffect(s) \/ PassOverEffect(s) \/ LeaveUnknownEffect(s) \/ RestoreEffect(s)
      PROVE  HostFollows
  <2>1. CASE ReclaimArchivedEffect(s)
    BY <1>1, <2>1 DEF ReclaimArchivedEffect
  <2>2. CASE PassOverEffect(s) \/ LeaveUnknownEffect(s) \/ RestoreEffect(s)
    <3>1. unread' = unread \ {s} /\ ending' = ending /\ boot' = boot
          /\ \A r \in Revisions : r \in skipped => r \in skipped'
      BY <2>2 DEF PassOverEffect, LeaveUnknownEffect, RestoreEffect
    <3>. QED BY <2>2, <3>1 DEF HostFollows
  <2>. QED BY <1>7, <2>1, <2>2
<1>. QED BY <1>2, <1>3, <1>4, <1>5, <1>6, <1>7 DEF Effect, HostEffect

\* What the ledger knows of a hand-over of the current result it forgets only as that result arrives or has a row, or
\* where a marker tells of it as well, or in the host that began its attempt.
LEMMA HintStays ==
  ASSUME Core, Effect, ledger.rev \in Revisions, ledger'.rev = ledger.rev
  PROVE  /\ ledger.delivered => ledger'.delivered
         /\ ledger.recovery = "unknown" =>
              \/ ledger'.recovery = "unknown" \/ RetainEffect \/ box[ledger.rev] # "none"
              \/ Result(ledger.rev) \in markers \/ ledger.attempt[ledger.rev] = restarts
<1>. DEFINE r == ledger.rev
            Goal == /\ ledger.delivered => ledger'.delivered
                    /\ ledger.recovery = "unknown" =>
                         \/ ledger'.recovery = "unknown" \/ RetainEffect \/ box[r] # "none"
                         \/ Result(r) \in markers \/ ledger.attempt[r] = restarts
<1>1. ledger \in LedgerRows /\ r # 0 /\ restarts \in Attempts /\ Typed /\ JobsPlaced /\ r \in Revisions
  BY BoundsAssumption DEF Core, Basics, Typed, Revisions
<1>2. /\ \A v \in Recoveries : Flag(ledger, v).recovery = v /\ Flag(ledger, v).delivered = ledger.delivered
      /\ Gave(ledger).recovery = ledger.recovery /\ Gave(ledger).delivered
  BY <1>1, FlagRow, GaveRow
<1>3. ledger' = ledger => Goal
  OBVIOUS
<1>4. RetainEffect => Goal
  <2>1. RetainEffect => ledger'.delivered = ledger.delivered
    BY <1>1, SettledRow DEF RetainEffect
  <2>. QED BY <2>1
<1>5. DecideEffect => Goal
  BY <1>1, DecidedRowIs DEF DecideEffect
<1>6. ~DispatchEffect
  BY <1>1 DEF DispatchEffect
<1>7. ~ReworkEffect
  <2>1. ASSUME ReworkEffect PROVE FALSE
    <3>1. r < MaxRevision /\ ledger' = Reworked(ledger, restarts)
      BY <2>1 DEF ReworkEffect
    <3>2. ledger'.rev = r + 1
      BY <1>1, <3>1, ReworkedRow
    <3>3. r \in Nat
      BY <1>1, BoundsAssumption DEF LedgerRows
    <3>. QED BY <3>2, <3>3
  <2>. QED BY <2>1
<1>8. StopEffect \/ ResumeEffect \/ RemoveEffect => Goal
  <2>1. ASSUME NEW from, NEW to, Rescoping(from, to)
        PROVE  Goal
    BY <1>1, <2>1, RescopedRow DEF Rescoping
  <2>. QED BY <1>3, <2>1 DEF StopEffect, ResumeEffect, RemoveEffect
<1>9. ledger' = Gave(ledger) \/ ledger' = Flag(ledger, "unknown") => Goal
  BY <1>2 DEF Recoveries
<1>10. ASSUME FlagsUnsaved, queue # <<>>
       PROVE  Goal
  <2>1. CASE queue[1].kind = "retain" /\ ledger' = Flag(ledger, "unsaved")
    <3>1. 1 \in 1 .. Len(queue)
      BY <1>1, <1>10, FirstJob
    <3>2. ledger.attempt[r] = restarts
      BY <1>1, <2>1, <3>1 DEF JobsPlaced
    <3>. QED BY <1>2, <2>1, <3>2 DEF Recoveries
  <2>. QED BY <1>3, <1>10, <2>1 DEF FlagsUnsaved
<1>11. SaveMarkerEffect => Goal
  <2>1. SaveMarkerEffect => box[r] # "none" /\ ledger' = Flag(ledger, "none")
    BY DEF SaveMarkerEffect, Current, Identity
  <2>. QED BY <1>2, <2>1 DEF Recoveries
<1>12. \A s \in Revisions : LeaveUnknownEffect(s) => Goal
  <2>1. ASSUME NEW s \in Revisions, LeaveUnknownEffect(s)
        PROVE  Goal
    <3>1. s = r /\ ledger' = Flag(ledger, IF Result(r) \in markers THEN "none" ELSE "unknown")
      BY <2>1 DEF LeaveUnknownEffect, Entry, Current, Identity
    <3>. QED BY <1>2, <3>1 DEF Recoveries
  <2>. QED BY <2>1
<1>13. \A s \in Revisions : RestoreEffect(s) => Goal
  <2>1. ASSUME NEW s \in Revisions, RestoreEffect(s)
        PROVE  Goal
    <3>1. s = r /\ ~Attempted(r) /\ (ledger' = ledger \/ ledger' = Flag(ledger, "none"))
      BY <2>1 DEF RestoreEffect, Entry, Current, Identity
    <3>2. ~ledger.delivered /\ ledger.recovery # "unknown"
      BY <3>1 DEF Attempted
    <3>. QED BY <3>2
  <2>. QED BY <2>1
<1>. SUFFICES Goal
  OBVIOUS
<1>. HIDE DEF Goal
<1>14. CASE DelegationEffect
  BY <1>4, <1>5, <1>6, <1>7, <1>8, <1>14 DEF DelegationEffect
<1>15. CASE LaneEffect
  BY <1>3, <1>9, <1>15 DEF LaneEffect, PrepareEffect, HandOverEffect, WithdrawEffect
<1>16. CASE JobEffect
  BY <1>3, <1>10, <1>11, <1>16 DEF JobEffect, LookEffect, SaveItemEffect, SaveIndexEffect, SaveFailsEffect,
    SaveLedgerEffect, PickEffect, RetireEffect, UnindexEffect, ReclaimEffect, ForgetEffect, GiveUpEffect, HeadGone, HeadGoes
<1>17. CASE HostEffect
  BY <1>3, <1>12, <1>13, <1>17 DEF HostEffect, SaveChangedEffect, ShutdownEffect, BootEffect, ReclaimArchivedEffect,
    PassOverEffect
<1>. QED BY <1>14, <1>15, <1>16, <1>17 DEF Effect

\* The job that takes a row from the index finds it there, and the one that forgets an item finds it its own, or gone.
HeadIndexed == queue # <<>> /\ queue[1].kind = "archive" /\ queue[1].at = 3 => queue[1].rev \in disk.index

HeadForgets ==
  queue # <<>> /\ queue[1].kind = "archive" /\ queue[1].at = 5 =>
    OwnItem(queue[1].rev) \/ ~disk.item[queue[1].rev].saved

\* A result with a save to come has a row, unless the item of another attempt is in the way of that save.
Seated ==
  \A r \in Revisions, k \in Nat : JobFor(k, r) => box[r] # "none" \/ (disk.item[r].saved /\ ~OwnItem(r))

\* What this very host began and indexed has a row.
Valid ==
  \A r \in Revisions : r \in disk.index /\ ledger.attempt[r] = restarts /\ OwnItem(r) => box[r] # "none"

\* So has what recovery has read and found still owed.
Awaited(r) == ~ending /\ OwnItem(r) /\ Identity(r) /\ ledger.life = "settled" /\ ~Attempted(r)

SavedKnown ==
  boot \in {"reading", "ready"} =>
    \A r \in Revisions : r \in disk.index /\ r \notin skipped \union unread /\ Awaited(r) => box[r] # "none"

Rowed == HeadIndexed /\ HeadForgets /\ Seated /\ Valid /\ SavedKnown

LEMMA HeadIndexedStep ==
  ASSUME Core, Reclaiming, HeadIndexed, HeadForgets, Effect
  PROVE  HeadIndexed' /\ HeadForgets'
<1>1. DiskFollows /\ Typed /\ disk \in DiskRows /\ JobsPlaced
  BY DiskChanges DEF Core, Basics, Typed
<1>2. HeadIndexed'
  <2>1. SUFFICES ASSUME queue' # <<>>, queue'[1].kind = "archive", queue'[1].at = 3
                 PROVE  queue'[1].rev \in disk'.index
    BY DEF HeadIndexed
  <2>2. queue # <<>> /\ (queue'[1] = queue[1] \/ (RetireEffect /\ Further(queue[1], queue'[1], 3)))
    BY <2>1, HeadArrives DEF Further
  <2>3. ~UnindexEffect
    <3>1. ASSUME UnindexEffect PROVE FALSE
      <4>1. HeadGoes(4)
        BY <3>1 DEF UnindexEffect
      <4>2. queue'[1].at = 4
        BY <2>1, <4>1, HeadAfter DEF Further
      <4>. QED BY <2>1, <4>2
    <3>. QED BY <3>1
  <2>4. queue'[1].rev = queue[1].rev
    BY <2>2 DEF Further
  <2>5. CASE queue'[1] = queue[1]
    BY <1>1, <2>1, <2>2, <2>3, <2>5 DEF HeadIndexed, DiskFollows, TextsFollow
  <2>6. CASE RetireEffect
    <3>1. ~HeadGoes(1)
      <4>1. ASSUME HeadGoes(1) PROVE FALSE
        BY <2>1, <4>1, HeadAfter DEF Further
      <4>. QED BY <4>1
    <3>2. queue[1].rev \in disk.index
      BY <2>6, <3>1 DEF RetireEffect
    <3>. QED BY <1>1, <2>3, <2>4, <3>2 DEF DiskFollows, TextsFollow
  <2>. QED BY <2>2, <2>5, <2>6
<1>3. HeadForgets'
  <2>1. SUFFICES ASSUME queue' # <<>>, queue'[1].kind = "archive", queue'[1].at = 5
                 PROVE  OwnItem(queue[1].rev)' \/ ~disk'.item[queue[1].rev].saved
    BY HeadArrives DEF HeadForgets, Further
  <2>2. queue # <<>> /\ (queue'[1] = queue[1] \/ (ReclaimEffect /\ Further(queue[1], queue'[1], 5)))
    BY <2>1, HeadArrives DEF Further
  <2>3. CASE queue'[1] = queue[1]
    <3>. DEFINE r == queue[1].rev
    <3>1. queue[1].kind = "archive" /\ queue[1].at = 5 /\ r \in Revisions
      BY <1>1, <2>1, <2>2, <2>3, FirstJob
    <3>2. ClosedBy(disk.ledger, r)
      BY <2>2, <3>1 DEF Reclaiming, HeadClosed
    <3>3. ClosedBy(ledger, r)
      BY <3>2, DiskAhead, ClosedStays
    <3>4. ledger'.attempt[r] = ledger.attempt[r]
      BY <3>3, DiskAhead, ClosedStays
    <3>5. OwnItem(r) \/ ~disk.item[r].saved
      BY <2>2, <3>1 DEF HeadForgets
    <3>6. \/ disk'.item[r] = disk.item[r]
          \/ disk'.item[r] = NoItem
      BY <1>1, <3>1 DEF DiskFollows, ItemsFollow, SaveItemEffect, RetireEffect
    <3>. QED BY <2>3, <3>4, <3>5, <3>6, NoItemIs DEF OwnItem
  <2>4. CASE ReclaimEffect
    <3>1. OwnItem(queue[1].rev) /\ ledger' = ledger /\ queue[1].rev \in Revisions
      BY <2>4 DEF ReclaimEffect
    <3>2. disk'.item[queue[1].rev] = disk.item[queue[1].rev]
      <4>1. ~ForgetEffect /\ ~SaveItemEffect /\ ~RetireEffect
        BY <2>4 DEF ReclaimEffect, ForgetEffect, SaveItemEffect, RetireEffect
      <4>2. Result(queue[1].rev) \in Results
        BY <1>1, <3>1 DEF Typed, LedgerRows, Result, Results
      <4>. QED BY <1>1, <2>4, <4>2, RememberedIs DEF ReclaimEffect
    <3>3. queue'[1].rev = queue[1].rev
      BY <2>2 DEF Further
    <3>. QED BY <3>1, <3>2, <3>3 DEF OwnItem
  <2>. QED BY <2>2, <2>3, <2>4
<1>. QED BY <1>2, <1>3

LEMMA SeatedStep ==
  ASSUME Core, Texts, HeadIndexed, HeadForgets, Seated, Effect
  PROVE  Seated'
<1>1. PICK n \in {0, 1} : Shifted(n)
  BY ShiftEffects
<1>2. /\ DiskFollows /\ Typed /\ disk \in DiskRows /\ JobsPlaced /\ queue \in Seq(JobRows) /\ Len(queue) \in Nat
      /\ queue' \in Seq(JobRows) /\ Len(queue') \in Nat
  BY DiskChanges, QueuePlaced, LenProperties DEF Core, Basics, Typed
<1>3. SUFFICES ASSUME NEW r \in Revisions, NEW k \in Nat, JobFor(k, r)', box'[r] = "none"
               PROVE  disk'.item[r].saved /\ ~OwnItem(r)'
  BY DEF Seated
<1>4. JobFor(k + n, r) /\ k + n \in Nat
  BY <1>1, <1>2, <1>3 DEF JobFor, Shifted, Added
<1>5. r \in ledger.settled
  BY <1>2, <1>4 DEF JobFor, JobsPlaced
<1>6. ledger'.attempt[r] = ledger.attempt[r]
  BY <1>5, DiskAhead, BoundsAssumption DEF Ahead, Shape, LedgerRows, Revisions
<1>7. CASE box[r] # "none"
  <2>1. UnindexEffect /\ r = queue[1].rev
    BY <1>3, <1>7, RowLeaves
  <2>2. queue # <<>> /\ queue[1].kind = "archive" /\ queue[1].at = 3 /\ disk'.item = disk.item
    BY <1>2, <2>1, IndexedIs DEF UnindexEffect, HeadGoes
  <2>3. ArchiveAt(1) /\ k + n > 1
    <3>1. 1 \in 1 .. Len(queue)
      BY <1>2, <2>2, HeadTaken
    <3>. QED BY <1>4, <2>2, <3>1 DEF ArchiveAt, JobFor
  <2>4. ~OwnItem(r)
    BY <1>4, <2>3 DEF Texts, Ordered, Clear
  <2>5. disk.item[r].saved
    BY <2>1, <2>2 DEF HeadIndexed, Texts, BodyBehindIndex
  <2>. QED BY <1>6, <2>2, <2>4, <2>5 DEF OwnItem
<1>8. CASE disk.item[r].saved /\ ~OwnItem(r)
  <2>1. ~(ForgetEffect /\ r = queue[1].rev)
    BY <1>8 DEF ForgetEffect, HeadGoes, HeadForgets
  <2>2. ~ReclaimArchivedEffect(r)
    BY <1>8 DEF ReclaimArchivedEffect
  <2>3. ~(SaveItemEffect /\ r = queue[1].rev)
    BY <1>8 DEF SaveItemEffect
  <2>4. disk'.item[r].saved = disk.item[r].saved /\ disk'.item[r].attempt = disk.item[r].attempt
    BY <1>2, <2>1, <2>2, <2>3 DEF DiskFollows, ItemsFollow
  <2>. QED BY <1>6, <1>8, <2>4 DEF OwnItem
<1>. QED BY <1>4, <1>7, <1>8 DEF Seated

\* An indexed result without a row had none before, and its item was indexed and its own.
LEMMA RowlessBefore ==
  ASSUME Core, Texts, Seated, Effect, NEW r \in Revisions, r <= ledger.rev,
         r \in disk'.index, OwnItem(r)', box'[r] = "none"
  PROVE  r \in disk.index /\ OwnItem(r) /\ box[r] = "none" /\ ledger'.attempt[r] = ledger.attempt[r]
<1>1. DiskFollows /\ Typed /\ disk \in DiskRows /\ JobsPlaced
  BY DiskChanges DEF Core, Basics, Typed
<1>2. ledger'.attempt[r] = ledger.attempt[r] /\ (OwnItem(r) \/ (SaveItemEffect /\ queue[1].rev = r))
  BY OwnFrom
<1>3. r \in disk.index \/ (SaveIndexEffect /\ r = queue[1].rev)
  BY <1>1 DEF DiskFollows, TextsFollow
<1>4. box[r] = "none"
  <2>1. ASSUME box[r] # "none"
        PROVE  FALSE
    <3>1. UnindexEffect /\ r = queue[1].rev
      BY <2>1, RowLeaves
    <3>2. disk'.index = disk.index \ {r}
      BY <1>1, <3>1, IndexedIs DEF UnindexEffect
    <3>. QED BY <3>2
  <2>. QED BY <2>1
<1>5. ASSUME SaveIndexEffect, r = queue[1].rev
      PROVE  FALSE
  <2>1. queue # <<>> /\ queue[1].kind # "archive" /\ queue[1].at = 3
    BY <1>5 DEF SaveIndexEffect, HeadGoes, HeadGone
  <2>2. 1 \in 1 .. Len(queue)
    BY <1>1, <2>1, FirstJob
  <2>3. JobFor(1, r) /\ OwnItem(r)
    BY <1>5, <2>1, <2>2 DEF JobFor, Texts, HeadSaved
  <2>. QED BY <1>4, <2>3 DEF Seated
<1>6. ASSUME SaveItemEffect, queue[1].rev = r
      PROVE  OwnItem(r)
  BY <1>3, <1>5, <1>6 DEF SaveItemEffect, Texts, BodyBehindIndex
<1>. QED BY <1>2, <1>3, <1>4, <1>5, <1>6

LEMMA ValidStep ==
  ASSUME Core, Texts, Seated, Valid, Effect
  PROVE  Valid'
<1>1. SUFFICES ASSUME NEW r \in Revisions, r \in disk'.index, ledger'.attempt[r] = restarts', OwnItem(r)', box'[r] = "none"
               PROVE  FALSE
  BY DEF Valid
<1>2. restarts' = restarts /\ DiskFollows /\ ledger \in LedgerRows /\ \A s \in ledger.settled : s <= ledger.rev
  BY EveryMove, DiskChanges, DiskAhead, BoundsAssumption DEF LedgerMoves, Shape, LedgerRows
<1>3. CASE r <= ledger.rev
  <2>1. r \in disk.index /\ OwnItem(r) /\ box[r] = "none" /\ ledger'.attempt[r] = ledger.attempt[r]
    BY <1>1, <1>3, RowlessBefore
  <2>. QED BY <1>1, <1>2, <2>1 DEF Valid
<1>4. CASE ~(r <= ledger.rev)
  <2>1. ~(disk.item[r].saved /\ disk.item[r].attempt = restarts)
    <3>1. Unborn(ledger, r)
      BY <1>2, <1>4, BoundsAssumption DEF Unborn, LedgerRows, Revisions
    <3>. QED BY <3>1 DEF Core, Fresh
  <2>2. disk'.item[r].saved /\ disk'.item[r].attempt = restarts
    BY <1>1, <1>2 DEF OwnItem
  <2>3. ~(SaveItemEffect /\ r = queue[1].rev)
    <3>1. SaveItemEffect => queue[1].rev \in ledger.settled
      BY FirstJob DEF SaveItemEffect, HeadGoes, Core, Basics
    <3>. QED BY <1>2, <1>4, <3>1
  <2>. QED BY <1>2, <2>1, <2>2, <2>3, NoItemIs DEF DiskFollows, ItemsFollow
<1>. QED BY <1>3, <1>4

\* A result that is awaited after a step, and has no row then, was awaited before it.
LEMMA AwaitedBefore ==
  ASSUME Core, Texts, Seated, Valid, Effect, NEW r \in Revisions, r \in disk'.index, Awaited(r)', box'[r] = "none"
  PROVE  r \in disk.index /\ Awaited(r) /\ box[r] = "none"
<1>1. LedgerTurn(ledger, ledger', restarts) /\ DiskFollows /\ HostFollows /\ markers' = markers
  BY EveryMove, DiskChanges, HostChanges, HostTypes DEF LedgerMoves
<1>2. /\ Ahead(ledger, ledger') /\ Shape(ledger) /\ Shape(ledger') /\ ledger \in LedgerRows /\ ledger' \in LedgerRows
  BY <1>1, DiskAhead DEF LedgerTurn, Grows
<1>3. ~ending' /\ OwnItem(r)' /\ Identity(r)' /\ ledger'.life = "settled" /\ ~Attempted(r)'
  BY DEF Awaited
<1>4. ledger'.rev = r /\ ledger'.scope[r] # "closed"
  BY <1>3 DEF Identity
<1>5. ledger.rev = r
  BY <1>1, <1>3, <1>4 DEF LedgerTurn
<1>6. r \in disk.index /\ OwnItem(r) /\ box[r] = "none" /\ ledger'.attempt[r] = ledger.attempt[r]
  <2>1. r <= ledger.rev
    BY <1>5, BoundsAssumption DEF Revisions
  <2>. QED BY <1>3, <2>1, RowlessBefore
<1>7. ~RetainEffect
  BY <1>5, <1>6, RetainedIsNew
<1>8. r \in ledger.settled
  <2>1. r \in ledger'.settled
    BY <1>2, <1>3, <1>4 DEF Shape
  <2>. QED BY <1>7, <2>1, SettledFrom
<1>9. ledger.life = "settled" /\ Identity(r)
  <2>1. ledger.life = "settled"
    BY <1>1, <1>2, <1>3, <1>5, <1>8 DEF LedgerTurn, Shape
  <2>2. ledger.scope[r] # "closed"
    BY <1>2, <1>4, <1>8 DEF Ahead
  <2>. QED BY <1>5, <2>1, <2>2 DEF Identity
<1>10. ~Attempted(r)
  <2>1. Result(r)' = Result(r) /\ Result(r) \notin markers
    BY <1>1, <1>3, <1>6 DEF Result, Attempted
  <2>2. ~disk'.item[r].delivered /\ ~disk'.item[r].attempted /\ ~ledger'.delivered /\ ledger'.recovery # "unknown"
    BY <1>3 DEF Attempted
  <2>3. ~disk.item[r].delivered /\ ~disk.item[r].attempted
    <3>1. disk'.item[r] # NoItem
      BY <1>3, NoItemIs DEF OwnItem
    <3>. QED BY <1>1, <2>2, <3>1 DEF DiskFollows, ItemsFollow
  <2>4. ledger.attempt[r] # restarts
    BY <1>6 DEF Valid
  <2>5. ~ledger.delivered /\ ledger.recovery # "unknown"
    BY <1>4, <1>5, <1>6, <1>7, <2>1, <2>2, <2>4, HintStays
  <2>. QED BY <2>1, <2>3, <2>5 DEF Attempted
<1>11. ~ending
  BY <1>1, <1>3 DEF HostFollows
<1>. QED BY <1>6, <1>9, <1>10, <1>11 DEF Awaited

LEMMA SavedKnownStep ==
  ASSUME Core, Texts, Seated, Valid, SavedKnown, Effect
  PROVE  SavedKnown'
<1>1. SUFFICES ASSUME boot' \in {"reading", "ready"}, NEW r \in Revisions, r \in disk'.index,
                      r \notin skipped' \union unread', Awaited(r)', box'[r] = "none"
               PROVE  FALSE
  BY DEF SavedKnown
<1>2. HostFollows /\ box \in BoxRows
  BY HostChanges DEF Core, Basics, Typed, BoxRows
<1>3. r \in disk.index /\ Awaited(r) /\ box[r] = "none"
  BY <1>1, AwaitedBefore
<1>4. ~ending /\ OwnItem(r) /\ Identity(r) /\ ~Attempted(r)
  BY <1>3 DEF Awaited
<1>5. ~PassOverEffect(r)
  <2>1. ASSUME PassOverEffect(r) PROVE FALSE
    <3>1. held
      BY <1>3, <1>4, <2>1 DEF PassOverEffect, Entry, Current
    <3>. QED BY <1>1, <2>1, <3>1 DEF PassOverEffect
  <2>. QED BY <2>1
<1>6. ~LeaveUnknownEffect(r)
  BY <1>4 DEF LeaveUnknownEffect
<1>7. ~RestoreEffect(r)
  BY <1>1, <1>2, <1>3 DEF RestoreEffect, BoxSet, BoxRows
<1>8. r \notin unread /\ r \notin skipped
  BY <1>1, <1>2, <1>5, <1>6, <1>7 DEF HostFollows
<1>9. boot \in {"reading", "ready"}
  BY <1>1, <1>2 DEF HostFollows
<1>. QED BY <1>3, <1>8, <1>9 DEF SavedKnown

LEMMA RowedStep ==
  ASSUME Core, Reclaiming, Texts, Rowed, [Next]_vars
  PROVE  Rowed'
<1>1. CASE Effect
  BY <1>1, HeadIndexedStep, SeatedStep, ValidStep, SavedKnownStep DEF Rowed
<1>2. CASE RestartEffect
  <2>1. queue' = <<>> /\ Len(queue') = 0 /\ restarts' = restarts + 1 /\ boot' = "closed" /\ restarts \in Nat
        /\ disk' = disk /\ ledger' = Interrupted(disk.ledger) /\ disk.ledger \in LedgerRows
    BY <1>2 DEF RestartEffect, Core, Basics, Typed, DiskRows, Attempts
  <2>2. \A i, r : ~JobFor(i, r)'
    BY <2>1 DEF JobFor
  <2>3. ASSUME NEW r \in Revisions
        PROVE  ledger'.attempt[r] # restarts'
    <3>1. disk.ledger.attempt[r] <= restarts /\ disk.ledger.attempt[r] \in Nat
      <4>1. disk.ledger.attempt[r] \in Nat
        BY <2>1 DEF LedgerRows, Attempts
      <4>. QED BY <4>1 DEF Core, Fresh
    <3>2. ledger'.attempt[r] = disk.ledger.attempt[r]
      BY <2>1, InterruptedRow
    <3>. QED BY <2>1, <3>1, <3>2
  <2>. QED BY <2>1, <2>2, <2>3 DEF Rowed, HeadIndexed, HeadForgets, Seated, Valid, SavedKnown
<1>3. CASE UNCHANGED vars
  <2>1. UNCHANGED <<ledger, box, queue, disk, held, ending, boot, unread, markers, restarts, skipped>>
    BY <1>3 DEF vars, memory, host, history
  <2>. QED BY <2>1 DEF Rowed, HeadIndexed, HeadForgets, Seated, Valid, SavedKnown, JobFor, OwnItem, Awaited, Identity,
    Attempted, Result
<1>. QED BY <1>1, <1>2, <1>3, EveryEffect

\* A result that was saved, was not attempted and is still owed has a row of the host that recovered, after any number of
\* restarts: nothing that recovery reads is dropped, and no save or archive of another result takes the row away.
THEOREM SavedStaysKnown == Spec => []SavedIsKnown
<1>1. Init => Rowed
  <2>. SUFFICES ASSUME Init PROVE Rowed
    OBVIOUS
  <2>1. queue = <<>> /\ Len(queue) = 0 /\ disk.index = {}
    BY DEF Init
  <2>2. \A i, r : ~JobFor(i, r)
    BY <2>1 DEF JobFor
  <2>. QED BY <2>1, <2>2 DEF Rowed, HeadIndexed, HeadForgets, Seated, Valid, SavedKnown
<1>2. Core /\ Reclaiming /\ Texts /\ Rowed /\ [Next]_vars => Rowed'
  BY RowedStep
<1>3. Core /\ Rowed => SavedIsKnown
  <2>1. SUFFICES ASSUME Core, Rowed, NEW r \in disk.index \ skipped, boot = "ready", ~ending,
                        OwnItem(r), Identity(r), ledger.life = "settled", ~Attempted(r)
                 PROVE  box[r] # "none"
    BY DEF SavedIsKnown
  <2>2. unread = {} /\ r \in Revisions
    BY <2>1 DEF Core, Basics, Typed, DiskRows
  <2>. QED BY <2>1, <2>2 DEF Rowed, SavedKnown, Awaited
<1>. QED BY <1>1, <1>2, <1>3, CoreInvariance, ReclaimingInvariance, TextsInvariance, PTL DEF Spec

=============================================================================
