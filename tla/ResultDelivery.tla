--------------------------- MODULE ResultDelivery ---------------------------
(***************************************************************************)
(* The delivery of a delegated task's result to its coordinator, across    *)
(* crashes of the extension host                                           *)
(* (src/src/host/orchestration/ResultDeliveryHost.ts).                     *)
(*                                                                         *)
(* One delegation is modelled: its result has a revision for each rework,  *)
(* and each revision the id of the attempt that was to make it.  A crash   *)
(* may lose a rework from the ledger, and the next one then makes the same *)
(* revision under another id.                                              *)
(* The host keeps the results in a mailbox in memory and saves what it     *)
(* needs to offer them again after a restart: the run ledger, an item per  *)
(* revision with its body, an index of the items, and a marker in the      *)
(* conversation for each delivery.  Every save is a job of one queue and   *)
(* never holds up the work: a hand-over waits for the save of its intent,  *)
(* but no longer than its budget.                                          *)
(***************************************************************************)
EXTENDS Naturals, Sequences, FiniteSets

CONSTANTS
  MaxRevision,  \* bound: revisions of the result
  MaxRestarts,  \* bound: crashes of the host
  Lanes,        \* who hands results over: the automatic wake and the collecting tool
  Events        \* bound: which of "decide", "stop", "remove" and "shutdown" an instance has

ASSUME BoundsAssumption ==
  MaxRevision \in Nat \ {0} /\ MaxRestarts \in Nat /\ Events \subseteq {"decide", "stop", "remove", "shutdown"}

Revisions == 1 .. MaxRevision
None == 0

\* An attempt is named for the host that began it: in one life of the host a revision begins once.
Attempts == 0 .. MaxRestarts
Results == Revisions \X Attempts

VARIABLES
  ledger,     \* the delegation's row of the run ledger
  box,        \* mailbox row per revision: "none", "reserved", "pending" or "delivered"
  rows,       \* revisions the host offers again on request
  held,       \* the coordinator is stopped
  ending,     \* the host is shutting down: nothing is current any more
  queue,      \* jobs, of which the first one runs
  offered,    \* revisions a lane may hand over
  waiting,    \* per lane: the revision whose intent it waits for, or None
  boot,       \* recovery: "closed", "reclaiming", "reading", "ready"
  unread,     \* indexed revisions that recovery has not read yet
  markers,    \* the markers of the conversation as it was loaded when the host started
  disk,       \* what survives: ledger, item per revision, index, body, marker
  restarts,   \* crashes so far
  handed,     \* history: hand-overs per result
  unsure,     \* history: hand-overs per result of which nothing was saved yet
  saved,      \* history: results whose body was ever written
  skipped     \* history: revisions that recovery passed over because the coordinator was stopped

host    == <<held, ending, boot, unread, markers>>
memory  == <<ledger, box, rows, queue, offered, waiting, host>>
history == <<restarts, handed, unsure, saved, skipped>>
vars    == <<memory, disk, history>>

NoItem == [saved |-> FALSE, attempt |-> 0, delivered |-> FALSE, attempted |-> FALSE, archived |-> FALSE]
NewLedger ==
  [rev |-> 0, life |-> "none", recovery |-> "none", delivered |-> FALSE, settled |-> {},
   decided |-> {}, attempt |-> [r \in Revisions |-> 0], scope |-> [r \in Revisions |-> "open"]]

\* The result that is meant by a revision in this life of the host.
Result(r) == <<r, ledger.attempt[r]>>

-----------------------------------------------------------------------------
(* What the ledger says of a revision.                                     *)

\* resultIdentity(): the revision whose result is still awaited or open to a decision.
Identity(r) ==
  ledger.rev = r /\ ledger.life \in {"active", "settled"} /\ ledger.scope[r] # "closed"

\* current()
Current(r) == ~held /\ ~ending /\ Identity(r)

\* The item on the disk is that of this very attempt.
OwnItem(r) == disk.item[r].saved /\ disk.item[r].attempt = ledger.attempt[r]

\* closedByLedger(), for any state of the ledger.
ClosedBy(l, r) ==
  r \in l.settled /\ (l.scope[r] = "closed" \/ l.rev > r \/ r \in l.decided)

\* canDeliver()
CanDeliver(r) ==
  /\ Current(r)
  /\ ledger.scope[r] = "open" /\ r \notin ledger.decided
  /\ box[r] = "pending" \/ (box[r] = "none" /\ ~ledger.delivered)

\* reserve(): a mailbox row for the result to come, if the mailbox has room.
Reserved(r, room) == [box EXCEPT ![r] = IF @ = "none" /\ room THEN "reserved" ELSE @]

Rows == {r \in Revisions : box[r] # "none"}

-----------------------------------------------------------------------------
(* The queue of saves.  A job is a sequence of steps with an await between *)
(* each two of them.                                                       *)

Steps ==
  [retain    |-> <<"look", "item", "index", "ledger">>,
   prepare   |-> <<"ledger", "item", "index">>,
   delivered |-> <<"marker", "item", "index", "ledger">>,
   archive   |-> <<"pick", "retire", "unindex", "reclaim", "forget">>]

Job(kind, r) == [kind |-> kind, rev |-> r, at |-> 1, ok |-> TRUE, delivered |-> FALSE, seen |-> {}]

Enqueue(job) == queue' = Append(queue, job)

Running(step) == queue # <<>> /\ Steps[queue[1].kind][queue[1].at] = step

\* The running job goes on at step n, or is over.
Go(j, n) == queue' = (IF n > Len(Steps[j.kind]) THEN <<>> ELSE <<[j EXCEPT !.at = n]>>) \o Tail(queue)
Continue(j) == Go(j, j.at + 1)

\* One preparation of a revision runs at a time, and is shared.
Preparing(r) == \E i \in DOMAIN queue : queue[i].kind = "prepare" /\ queue[i].rev = r

-----------------------------------------------------------------------------
(* The delegation.                                                         *)

Dispatch ==
  /\ ledger.rev = 0 /\ restarts = 0
  /\ ledger' = [ledger EXCEPT !.rev = 1, !.life = "active"]
  /\ \E room \in BOOLEAN : box' = Reserved(1, room /\ ~held /\ ~ending)
  /\ UNCHANGED <<rows, queue, offered, waiting, host, disk, history>>

\* retain(): the worker's result arrives and is kept, unless the mailbox has no room.  Nobody keeps it while the
\* coordinator is stopped.
Retain ==
  LET r == ledger.rev IN
  /\ ledger.life = "active" /\ Current(r)
  /\ ledger' = [ledger EXCEPT !.life = "settled", !.settled = @ \union {r}, !.recovery = "none"]
  /\ offered' = offered \union {r}
  /\ \/ /\ box' = [box EXCEPT ![r] = "pending"]
        /\ rows' = rows \union {r}
        /\ Enqueue(Job("retain", r))
     \/ box[r] = "none" /\ UNCHANGED <<box, rows, queue>>
  /\ UNCHANGED <<waiting, host, disk, history>>

\* The coordinator, or the host in its place, decides for good.
Decide ==
  LET r == ledger.rev IN
  /\ "decide" \in Events
  /\ ledger.life = "settled" /\ r \notin ledger.decided
  /\ ledger' = [ledger EXCEPT !.decided = @ \union {r}]
  /\ Enqueue(Job("archive", r))
  /\ UNCHANGED <<box, rows, offered, waiting, host, disk, history>>

\* The coordinator has the result reworked: beginResultRework(), archiveDecided() and reserve().
Rework ==
  LET r == ledger.rev IN
  /\ ledger.life = "settled" /\ ledger.delivered /\ ~held /\ ~ending /\ r < MaxRevision
  /\ ledger' = [ledger EXCEPT !.rev = r + 1, !.attempt[r + 1] = restarts, !.life = "active", !.delivered = FALSE]
  /\ Enqueue(Job("archive", r))
  /\ \E room \in BOOLEAN : box' = Reserved(r + 1, room)
  /\ UNCHANGED <<rows, offered, waiting, host, disk, history>>

\* resultScope(): every result whose latest scope is one of `from` gets the scope `to`.
Scoped(from, to) ==
  [ledger EXCEPT !.scope = [r \in Revisions |->
     IF r \in ledger.settled /\ ledger.scope[r] \in from THEN to ELSE ledger.scope[r]]]

\* scope() when the coordinator is stopped, resumed or removed.  Without a mailbox row the ledger records nothing.  The
\* ledger is saved in the queue and changes nothing else there: SaveChangedLedger stands for that save.
Stop ==
  /\ "stop" \in Events
  /\ ~held /\ held' = TRUE
  /\ ledger' = IF Rows = {} THEN ledger ELSE Scoped({"open", "suspended"}, "suspended")
  /\ UNCHANGED <<box, rows, queue, offered, waiting, ending, boot, unread, markers, disk, history>>

Suspended == {r \in Rows : ledger.scope[r] = "suspended"}

Resume ==
  /\ held \/ Suspended # {}
  /\ held' = FALSE
  /\ offered' = IF Suspended = {} THEN offered ELSE offered \union (rows \intersect Rows)
  /\ ledger' = IF Rows = {} THEN ledger ELSE Scoped({"suspended"}, "open")
  /\ UNCHANGED <<box, rows, queue, waiting, ending, boot, unread, markers, disk, history>>

Remove ==
  /\ "remove" \in Events
  /\ Rows # {} /\ \E r \in ledger.settled : ledger.scope[r] # "closed"
  /\ held' = TRUE
  /\ ledger' = Scoped({"open", "suspended"}, "closed")
  /\ Enqueue(Job("archive", None))
  /\ UNCHANGED <<box, rows, offered, waiting, ending, boot, unread, markers, disk, history>>

-----------------------------------------------------------------------------
(* The hand-over: the intent is saved, within a budget, and then           *)
(* everything that was read before the wait is read again.                 *)

\* prepare()
Prepare(lane, r) ==
  /\ waiting[lane] = None /\ r \in offered /\ CanDeliver(r)
  /\ waiting' = [waiting EXCEPT ![lane] = r]
  /\ IF box[r] = "none" THEN UNCHANGED <<ledger, queue>>
     ELSE /\ ledger' = [ledger EXCEPT !.recovery = "unknown"]
          /\ IF Preparing(r) THEN UNCHANGED queue ELSE Enqueue(Job("prepare", r))
  /\ UNCHANGED <<box, rows, offered, host, disk, history>>

\* What an attempt to hand the revision over has left on the disk.
Marked(r) ==
  \/ Result(r) \in disk.marker
  \/ OwnItem(r) /\ (disk.item[r].attempted \/ disk.item[r].delivered)
  \/ /\ disk.ledger.rev = r /\ disk.ledger.attempt[r] = ledger.attempt[r]
     /\ disk.ledger.recovery = "unknown" \/ disk.ledger.delivered

\* The coordinator gets the result and the mailbox row is acknowledged in the same step (delivered(), tryClaim,
\* ackDelivery).
Given(lane, r) ==
  /\ handed' = [handed EXCEPT ![Result(r)] = @ + 1]
  /\ unsure' = IF Marked(r) THEN unsure ELSE [unsure EXCEPT ![Result(r)] = @ + 1]
  /\ ledger' = [ledger EXCEPT !.delivered = TRUE]
  /\ rows' = rows \ {r}
  /\ offered' = offered \ {r}
  /\ waiting' = [waiting EXCEPT ![lane] = None]
  /\ IF box[r] = "pending"
       THEN /\ box' = [box EXCEPT ![r] = "delivered"]
            /\ Enqueue(Job("delivered", r))
       ELSE UNCHANGED <<box, queue>>
  /\ UNCHANGED <<host, disk, restarts, saved, skipped>>

\* Mutant: what was read before the wait is not read again.
HandOverUnchecked(lane) == waiting[lane] # None /\ Given(lane, waiting[lane])

\* Mutant: the hand-over waits for its save, however long that takes.
HandOverSaved(lane) ==
  waiting[lane] # None /\ CanDeliver(waiting[lane]) /\ ~Preparing(waiting[lane]) /\ Given(lane, waiting[lane])

\* The wait is over with the save or with its budget, whichever comes first.
HandOver(lane) == waiting[lane] # None /\ CanDeliver(waiting[lane]) /\ Given(lane, waiting[lane])

\* After the wait the result can no longer be delivered, or the coordinator is busy.
Withdraw(lane) ==
  /\ waiting[lane] # None
  /\ waiting' = [waiting EXCEPT ![lane] = None]
  /\ UNCHANGED <<ledger, box, rows, offered, queue, host, disk, history>>

-----------------------------------------------------------------------------
(* The steps of the running job.                                           *)

Store == boot # "closed"

\* The entry is read as the job starts.
Look ==
  LET j == queue[1] IN
  /\ Running("look")
  /\ queue' = <<[j EXCEPT !.at = 2, !.ok = box[j.rev] # "none", !.delivered = box[j.rev] = "delivered"]>> \o Tail(queue)
  /\ UNCHANGED <<ledger, box, rows, offered, waiting, host, disk, history>>

\* saveResultMailboxEntry(): the body and the item; what was delivered or attempted stays so.  The item of another
\* attempt is in the way.
Written(item, attempt, delivered, attempted) ==
  [item EXCEPT !.saved = TRUE, !.attempt = attempt, !.delivered = @ \/ delivered, !.attempted = @ \/ attempted]

SaveItem ==
  LET j == queue[1] IN
  /\ Running("item") /\ j.ok /\ Store /\ Current(j.rev)
  /\ disk.item[j.rev].saved => OwnItem(j.rev)
  /\ disk' = [disk EXCEPT
       !.item[j.rev] = Written(@, ledger.attempt[j.rev], j.delivered, j.kind = "prepare"),
       !.body = @ \union {Result(j.rev)}]
  /\ saved' = saved \union {Result(j.rev)}
  /\ Continue(j)
  /\ UNCHANGED <<ledger, box, rows, offered, waiting, host, restarts, handed, unsure, skipped>>

SaveIndex ==
  LET j == queue[1] IN
  /\ Running("index") /\ Current(j.rev)
  /\ disk' = [disk EXCEPT !.index = @ \union {j.rev}]
  /\ Continue(j)
  /\ UNCHANGED <<ledger, box, rows, offered, waiting, host, history>>

\* The store has no room or no answer, or the result is not current any more: the save is given up.
SaveFails ==
  LET j == queue[1] IN
  /\ Running("item") \/ Running("index")
  /\ queue' = (LET n == IF Running("item") THEN j.at + 2 ELSE j.at + 1 IN
               (IF n > Len(Steps[j.kind]) THEN <<>> ELSE <<[j EXCEPT !.at = n, !.ok = FALSE]>>) \o Tail(queue))
  /\ UNCHANGED <<ledger, box, rows, offered, waiting, host, disk, history>>

\* The ledger as the job saves it: a result that could not be saved is marked so.
Flagged(j) ==
  IF j.kind = "retain" /\ ~(j.ok /\ Current(j.rev)) THEN [ledger EXCEPT !.recovery = "unsaved"] ELSE ledger

SaveLedger ==
  LET j == queue[1] IN
  /\ Running("ledger")
  /\ ledger' = Flagged(j)
  /\ disk' = [disk EXCEPT !.ledger = ledger']
  /\ Continue(j)
  /\ UNCHANGED <<box, rows, offered, waiting, host, history>>

\* The delivery is recorded in the conversation, unless the result is not current any more.
SaveMarker ==
  LET j == queue[1] IN
  /\ Running("marker") /\ Current(j.rev) /\ box[j.rev] # "none"
  /\ disk' = [disk EXCEPT !.marker = @ \union {Result(j.rev)}]
  /\ ledger' = [ledger EXCEPT !.recovery = "none"]
  /\ queue' = <<[j EXCEPT !.at = 2, !.delivered = TRUE]>> \o Tail(queue)
  /\ UNCHANGED <<box, rows, offered, waiting, host, history>>

\* archiveDecided(): of the rows that the ledger closes, one after the other.
Closable(j) == {r \in Rows \ j.seen : box[r] # "reserved" /\ ClosedBy(ledger, r)}

\* Mutant: the row is retired before the ledger that closes it is saved.
PickUnsaved ==
  LET j == queue[1] IN
  /\ Running("pick") /\ Store
  /\ \E r \in Closable(j) :
       queue' = <<[j EXCEPT !.at = 2, !.rev = r, !.seen = @ \union {r}]>> \o Tail(queue)
  /\ UNCHANGED <<ledger, box, rows, offered, waiting, host, disk, history>>

Pick ==
  LET j == queue[1] IN
  /\ Running("pick") /\ Store
  /\ \E r \in Closable(j) :
       queue' = <<[j EXCEPT !.at = 2, !.rev = r, !.seen = @ \union {r}]>> \o Tail(queue)
  /\ disk' = [disk EXCEPT !.ledger = ledger]
  /\ UNCHANGED <<ledger, box, rows, offered, waiting, host, history>>

\* retireArchivedResult(): a result that was never indexed cannot be retired, and keeps its row.
Retire ==
  LET j == queue[1] IN
  /\ Running("retire")
  /\ IF j.rev \in disk.index
       THEN disk' = [disk EXCEPT !.item[j.rev].archived = TRUE] /\ Continue(j)
       ELSE Go(j, 1) /\ UNCHANGED disk
  /\ UNCHANGED <<ledger, box, rows, offered, waiting, host, history>>

\* Mutant: the host goes on offering a row that the mailbox has forgotten.
UnindexRowKept ==
  LET j == queue[1] IN
  /\ Running("unindex")
  /\ disk' = [disk EXCEPT !.index = @ \ {j.rev}]
  /\ box' = [box EXCEPT ![j.rev] = "none"]
  /\ Continue(j)
  /\ UNCHANGED <<ledger, rows, offered, waiting, host, history>>

Unindex ==
  LET j == queue[1] IN
  /\ Running("unindex")
  /\ disk' = [disk EXCEPT !.index = @ \ {j.rev}]
  /\ box' = [box EXCEPT ![j.rev] = "none"]
  /\ rows' = rows \ {j.rev}
  /\ Continue(j)
  /\ UNCHANGED <<ledger, offered, waiting, host, history>>

\* reclaimClosed(): the body goes, and then the item.
Reclaim ==
  LET j == queue[1] IN
  /\ Running("reclaim") /\ ClosedBy(ledger, j.rev) /\ OwnItem(j.rev) /\ j.rev \notin disk.index
  /\ disk' = [disk EXCEPT !.body = @ \ {Result(j.rev)}]
  /\ Continue(j)
  /\ UNCHANGED <<ledger, box, rows, offered, waiting, host, history>>

Forget ==
  LET j == queue[1] IN
  /\ Running("forget")
  /\ disk' = [disk EXCEPT !.item[j.rev] = NoItem]
  /\ Go(j, 1)
  /\ UNCHANGED <<ledger, box, rows, offered, waiting, host, history>>

\* A job whose save throws, or that finds nothing to do, is over; it may have marked the ledger.
GiveUp ==
  LET j == queue[1] IN
  /\ queue # <<>> /\ queue' = Tail(queue)
  /\ ledger' = IF Running("ledger") THEN Flagged(j) ELSE ledger
  /\ UNCHANGED <<box, rows, offered, waiting, host, disk, history>>

JobStep ==
  \/ Look \/ SaveItem \/ SaveIndex \/ SaveFails \/ SaveLedger \/ SaveMarker
  \/ Pick \/ Retire \/ Unindex \/ Reclaim \/ Forget \/ GiveUp

\* The ledger is also saved, in its own time, after every change.
SaveChangedLedger ==
  /\ disk.ledger # ledger
  /\ disk' = [disk EXCEPT !.ledger = ledger]
  /\ UNCHANGED <<memory, history>>

-----------------------------------------------------------------------------
(* The end of the host, and the next one.                                  *)

Shutdown ==
  /\ "shutdown" \in Events
  /\ ~ending /\ ending' = TRUE
  /\ UNCHANGED <<ledger, box, rows, held, queue, offered, waiting, boot, unread, markers, disk, history>>

\* What was in memory is lost.  A task that was running is interrupted.
Restart ==
  /\ restarts < MaxRestarts /\ restarts' = restarts + 1
  /\ ledger' = [disk.ledger EXCEPT !.life = IF @ = "active" THEN "interrupted" ELSE @]
  /\ box' = [r \in Revisions |-> "none"]
  /\ rows' = {} /\ offered' = {} /\ queue' = <<>>
  /\ waiting' = [lane \in Lanes |-> None]
  /\ held' = FALSE /\ ending' = FALSE
  /\ boot' = "closed" /\ unread' = {} /\ markers' = disk.marker
  /\ skipped' = {}
  /\ UNCHANGED <<disk, handed, unsure, saved>>

\* recoverStorage(), which activation does not wait for: the store opens.
OpenStore ==
  /\ boot = "closed" /\ boot' = "reclaiming"
  /\ UNCHANGED <<ledger, box, rows, queue, offered, waiting, held, ending, unread, markers, disk, history>>

\* Mutant: every archived item is reclaimed, also one that is still indexed.
ReclaimIndexed(r) ==
  /\ boot = "reclaiming" /\ ~ending
  /\ disk.item[r].archived /\ OwnItem(r) /\ ClosedBy(ledger, r)
  /\ disk' = [disk EXCEPT !.body = @ \ {Result(r)}, !.item[r] = NoItem]
  /\ UNCHANGED <<memory, history>>

\* What the former host had archived and not reclaimed yet.
ReclaimArchived(r) ==
  /\ boot = "reclaiming" /\ ~ending
  /\ disk.item[r].archived /\ r \notin disk.index /\ OwnItem(r) /\ ClosedBy(ledger, r)
  /\ disk' = [disk EXCEPT !.body = @ \ {Result(r)}, !.item[r] = NoItem]
  /\ UNCHANGED <<memory, history>>

StartReading ==
  /\ boot = "reclaiming" /\ boot' = "reading"
  /\ unread' = disk.index
  /\ UNCHANGED <<ledger, box, rows, queue, offered, waiting, held, ending, markers, disk, history>>

\* Mutant: what the ledger holds for unsaved is not looked for.
EntryUnflagged(r) == r \in disk.index /\ OwnItem(r) /\ Current(r) /\ ledger.recovery # "unsaved"

\* The entry of an index key, if it is that of a current result.
Entry(r) == r \in disk.index /\ OwnItem(r) /\ Current(r)

\* Mutant: only what is known to be delivered is not offered again.
AttemptedForSure(r) == Result(r) \in markers \/ disk.item[r].delivered \/ ledger.delivered

\* An indexed result: one that was handed over, or may have been, is never offered again.
Attempted(r) ==
  \/ Result(r) \in markers \/ disk.item[r].delivered \/ disk.item[r].attempted
  \/ ledger.delivered \/ ledger.recovery = "unknown"

PassOver(r) ==
  /\ r \in unread /\ ~Entry(r)
  /\ unread' = unread \ {r}
  /\ skipped' = IF held THEN skipped \union {r} ELSE skipped
  /\ UNCHANGED <<ledger, box, rows, queue, offered, waiting, held, ending, boot, markers, disk, restarts, handed, unsure, saved>>

LeaveUnknown(r) ==
  /\ r \in unread /\ Entry(r) /\ Attempted(r)
  /\ unread' = unread \ {r}
  /\ ledger' = [ledger EXCEPT !.recovery = IF Result(r) \in markers THEN "none" ELSE "unknown"]
  /\ UNCHANGED <<box, rows, queue, offered, waiting, held, ending, boot, markers, disk, history>>

Restore(r) ==
  /\ r \in unread /\ Entry(r) /\ ~Attempted(r)
  /\ unread' = unread \ {r}
  /\ IF box[r] # "none" THEN UNCHANGED <<box, rows, ledger>>
     ELSE /\ box' = [box EXCEPT ![r] = "pending"]
          /\ rows' = rows \union {r}
          /\ ledger' = [ledger EXCEPT !.recovery = "none"]
  /\ UNCHANGED <<queue, offered, waiting, held, ending, boot, markers, disk, history>>

\* The results that can be delivered are offered to the coordinator.
Offer ==
  /\ boot = "reading" /\ unread = {} /\ boot' = "ready"
  /\ offered' = offered \union {r \in rows : CanDeliver(r)}
  /\ UNCHANGED <<ledger, box, rows, queue, waiting, held, ending, unread, markers, disk, history>>

-----------------------------------------------------------------------------
\* The first host finds nothing to recover.
Init ==
  /\ ledger = NewLedger
  /\ box = [r \in Revisions |-> "none"]
  /\ rows = {} /\ held = FALSE /\ ending = FALSE /\ queue = <<>> /\ offered = {}
  /\ waiting = [lane \in Lanes |-> None]
  /\ boot = "ready" /\ unread = {} /\ markers = {}
  /\ disk = [ledger |-> NewLedger, item |-> [r \in Revisions |-> NoItem], index |-> {}, body |-> {}, marker |-> {}]
  /\ restarts = 0
  /\ handed = [x \in Results |-> 0]
  /\ unsure = handed /\ saved = {} /\ skipped = {}

Recovery ==
  \/ OpenStore \/ StartReading \/ Offer
  \/ \E r \in Revisions : ReclaimArchived(r) \/ PassOver(r) \/ LeaveUnknown(r) \/ Restore(r)

Delivery(lane) ==
  \/ \E r \in Revisions : Prepare(lane, r)
  \/ HandOver(lane) \/ Withdraw(lane)

Next ==
  \/ Dispatch \/ Retain \/ Decide \/ Rework \/ Stop \/ Resume \/ Remove
  \/ \E lane \in Lanes : Delivery(lane)
  \/ JobStep \/ SaveChangedLedger
  \/ Shutdown \/ Restart \/ Recovery

Spec == Init /\ [][Next]_vars

\* Waits end, and a coordinator that is busy is idle again.  Nothing is assumed of the storage.
FairSpec ==
  Spec /\ \A lane \in Lanes : WF_vars(\E r \in Revisions : Prepare(lane, r)) /\ SF_vars(HandOver(lane))

-----------------------------------------------------------------------------
(* Properties.                                                             *)

RTypeOK ==
  /\ ledger.rev \in 0 .. MaxRevision
  /\ ledger.life \in {"none", "active", "settled", "interrupted"}
  /\ ledger.recovery \in {"none", "unknown", "unsaved"}
  /\ ledger.settled \subseteq Revisions /\ ledger.decided \subseteq ledger.settled
  /\ ledger.scope \in [Revisions -> {"open", "suspended", "closed"}]
  /\ box \in [Revisions -> {"none", "reserved", "pending", "delivered"}]
  /\ rows = {r \in Revisions : box[r] = "pending"}
  /\ offered \union unread \subseteq Revisions /\ markers \subseteq disk.marker
  /\ waiting \in [Lanes -> Revisions \union {None}]
  /\ boot \in {"closed", "reclaiming", "reading", "ready"}

\* A result is handed over a second time only if nothing of the first time had been saved: once an attempt is on the
\* disk, no crash, restart or second lane repeats it (ResultDeliveryHost prepare, delivered, recoverStorage).
RepeatedOnlyUnsaved == \A x \in Results : handed[x] <= unsure[x] + 1

\* ResultDeliveryHost.ts:242, "a crash in the gap becomes delivery-unknown, not a duplicate".
NeverRepeated == \A x \in Results : handed[x] <= 1

\* What is handed over is the result of the current revision, of a coordinator that is not stopped, undecided and not
\* handed over by this host before, however long the wait for the save was and whatever happened during it.
HandedWhileOwed ==
  [][\A r \in Revisions : (\E a \in Attempts : handed'[<<r, a>>] # handed[<<r, a>>]) =>
       /\ ~held /\ ~ending
       /\ ledger.rev = r /\ ledger.scope[r] = "open" /\ r \notin ledger.decided
       /\ box[r] # "delivered"]_vars

\* At every crash point an indexed result has its item and its body.
BodyBehindIndex ==
  \A r \in disk.index : disk.item[r].saved /\ <<r, disk.item[r].attempt>> \in disk.body

\* A body that was saved is only ever gone when the ledger on the disk closes its result: no crash brings back a ledger
\* that still owes a result whose text is lost (archiveDecided, reclaimClosed).
ReclaimedIsClosed ==
  \A x \in saved \ disk.body : ClosedBy(disk.ledger, x[1]) /\ disk.ledger.attempt[x[1]] = x[2]

\* A result that was saved, not attempted and is still owed is known to the host after any number of restarts, and can
\* be offered, unless the coordinator was stopped just as recovery read it.
SavedIsKnown ==
  \A r \in disk.index \ skipped :
    /\ boot = "ready" /\ ~ending
    /\ OwnItem(r) /\ Identity(r) /\ ledger.life = "settled" /\ ~Attempted(r)
    => box[r] # "none"

\* Storage that never answers does not keep a result from its coordinator.
StorageNeverBlocks ==
  \A r \in Revisions :
    (r \in offered /\ CanDeliver(r)) ~> ~(r \in offered /\ CanDeliver(r))

=============================================================================
