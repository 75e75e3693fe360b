----------------------------- MODULE SpendQueue -----------------------------
(***************************************************************************)
(* How the spend events of a window become durable, and how the units of a *)
(* window that is gone are closed by another one                           *)
(* (src/src/host/SpendCoordinator.ts: the write queue, the recovery;       *)
(* src/src/state/SpendStore.ts: the append, the heartbeat;                 *)
(* src/src/models/spend/SpendAggregate.ts: what the events say of a unit). *)
(*                                                                         *)
(* A unit is opened for a turn; its first request writes its start, and it *)
(* is closed by a receipt, by a gap, or by nothing if it made no request.  *)
(* What an event says is left out, and so are progress and adjustments: an *)
(* event is a unit and a kind, and two copies of one event are one.        *)
(***************************************************************************)
EXTENDS Naturals, Sequences, FiniteSets

CONSTANTS
  Hosts,        \* windows of the project
  Units,        \* usage units
  Owner,        \* the window whose turn a unit is
  MaxRequests   \* bound: requests that one unit makes

ASSUME QueueAssumption == Owner \in [Units -> Hosts] /\ MaxRequests \in Nat

VARIABLES
  unit,     \* the window's own record of a unit: its requests, whether it takes no more usage
  queue,    \* events that are not durable yet, in order
  writer,   \* what the drain of a window is doing
  life,     \* open, closing (disposed), closed, or crashed
  dirs,     \* the one attempt of a window at making the directories
  beat,     \* windows whose heartbeat is fresh
  disk,     \* the events in the shards
  plan      \* units that a recovery still writes a gap for

window == <<queue, writer, life, dirs>>
vars   == <<unit, window, beat, disk, plan>>

Kinds == {"start", "receipt", "gap"}
Event == [unit : Units, kind : Kinds]
Of(u, k) == [unit |-> u, kind |-> k]

\* What every window reads of a unit; without its start a unit is left out of all totals.
State(u) ==
  IF Of(u, "start") \notin disk THEN "unknown"
  ELSE IF Of(u, "receipt") \in disk THEN "settled"
  ELSE IF Of(u, "gap") \in disk THEN "gap" ELSE "open"

-----------------------------------------------------------------------------
(* The turn: nothing here waits for the disk *)

\* A window that is closing takes no more events.
Record(h, events) ==
  IF life[h] = "open"
    THEN /\ queue' = [queue EXCEPT ![h] = @ \o events]
         /\ writer' = [writer EXCEPT ![h] = IF @ = "idle" /\ events # <<>> THEN "writing" ELSE @]
    ELSE UNCHANGED <<queue, writer>>

Accepts(u) == life[Owner[u]] \in {"open", "closing"} /\ ~unit[u].closed

NoteModelRequest(u) ==
  /\ Accepts(u) /\ unit[u].requests < MaxRequests
  /\ unit' = [unit EXCEPT ![u].requests = @ + 1]
  /\ Record(Owner[u], <<Of(u, "start")>>)
  /\ UNCHANGED <<life, dirs, beat, disk, plan>>

\* Mutant: usage without an observed request gets no start.
SettleAsItIs(u) ==
  /\ Accepts(u)
  /\ unit' = [unit EXCEPT ![u].closed = TRUE]
  /\ Record(Owner[u], <<Of(u, "receipt")>>)
  /\ UNCHANGED <<life, dirs, beat, disk, plan>>

Settle(u) ==
  /\ Accepts(u)
  /\ unit' = [unit EXCEPT ![u].closed = TRUE, ![u].requests = IF @ = 0 THEN 1 ELSE @]
  /\ Record(Owner[u], IF unit[u].requests = 0 THEN <<Of(u, "start"), Of(u, "receipt")>>
                                              ELSE <<Of(u, "receipt")>>)
  /\ UNCHANGED <<life, dirs, beat, disk, plan>>

CloseUnit(u) ==
  /\ Accepts(u)
  /\ unit' = [unit EXCEPT ![u].closed = TRUE]
  /\ Record(Owner[u], IF unit[u].requests = 0 THEN <<>> ELSE <<Of(u, "gap")>>)
  /\ UNCHANGED <<life, dirs, beat, disk, plan>>

-----------------------------------------------------------------------------
(* The drain: one event at a time, the head again until it is durable *)

\* The promise of the directories is kept, whatever it came to.
EnsureDirectories(h) ==
  /\ life[h] \in {"open", "closing"} /\ dirs[h] = "unknown"
  /\ \E how \in {"made", "failed"} : dirs' = [dirs EXCEPT ![h] = how]
  /\ UNCHANGED <<unit, queue, writer, life, beat, disk, plan>>

Writing(h) == life[h] \in {"open", "closing"} /\ writer[h] = "writing"

WriteSucceeds(h) ==
  /\ Writing(h) /\ dirs[h] = "made"
  /\ disk' = disk \union {Head(queue[h])}
  /\ queue' = [queue EXCEPT ![h] = Tail(@)]
  /\ writer' = [writer EXCEPT ![h] = IF Len(queue[h]) > 1 /\ life[h] = "open" THEN @ ELSE "idle"]
  /\ UNCHANGED <<unit, life, dirs, beat, plan>>

\* The line of a write that fails may have landed whole.
Landed(h) == {disk} \union (IF dirs[h] = "made" THEN {disk \union {Head(queue[h])}} ELSE {})

\* Mutant: the loop ends where it should wait and try again.
WriteFailsAndEnds(h) ==
  /\ Writing(h) /\ dirs[h] # "unknown"
  /\ disk' \in Landed(h)
  /\ writer' = [writer EXCEPT ![h] = "idle"]
  /\ UNCHANGED <<unit, queue, life, dirs, beat, plan>>

WriteFails(h) ==
  /\ Writing(h) /\ dirs[h] # "unknown"
  /\ disk' \in Landed(h)
  /\ writer' = [writer EXCEPT ![h] = "delaying"]
  /\ UNCHANGED <<unit, queue, life, dirs, beat, plan>>

RetryDelayEnds(h) ==
  /\ life[h] \in {"open", "closing"} /\ writer[h] = "delaying"
  /\ writer' = [writer EXCEPT ![h] = IF life[h] = "open" THEN "writing" ELSE "idle"]
  /\ UNCHANGED <<unit, queue, life, dirs, beat, disk, plan>>

-----------------------------------------------------------------------------
(* The end of a window *)

\* A delay is cut short; a write in flight is waited for.
Dispose(h) ==
  /\ life[h] = "open"
  /\ life' = [life EXCEPT ![h] = "closing"]
  /\ writer' = [writer EXCEPT ![h] = IF @ = "delaying" THEN "idle" ELSE @]
  /\ UNCHANGED <<unit, queue, dirs, beat, disk, plan>>

\* Each event that is left is tried once.
LastAttempt(h) ==
  /\ life[h] = "closing" /\ writer[h] = "idle" /\ queue[h] # <<>> /\ dirs[h] # "unknown"
  /\ disk' \in Landed(h)
  /\ queue' = [queue EXCEPT ![h] = Tail(@)]
  /\ UNCHANGED <<unit, writer, life, dirs, beat, plan>>

\* Removing the heartbeat may fail.
DisposeEnds(h) ==
  /\ life[h] = "closing" /\ writer[h] = "idle" /\ queue[h] = <<>>
  /\ life' = [life EXCEPT ![h] = "closed"]
  /\ beat' \in {beat, beat \ {h}}
  /\ plan' = [plan EXCEPT ![h] = {}]
  /\ UNCHANGED <<unit, queue, writer, dirs, disk>>

\* The window ends without a word, also where it is closing.
Crash(h) ==
  /\ life[h] \in {"open", "closing"}
  /\ life' = [life EXCEPT ![h] = IF @ = "open" THEN "crashed" ELSE "closed"]
  /\ disk' \in IF writer[h] = "writing" THEN Landed(h) ELSE {disk}
  /\ plan' = [plan EXCEPT ![h] = {}]
  /\ UNCHANGED <<unit, queue, writer, dirs, beat>>

-----------------------------------------------------------------------------
(* The heartbeat, and the recovery by another window *)

\* The heartbeat is written once the directories are there.
Beats(h) ==
  /\ life[h] = "open" /\ dirs[h] = "made" /\ h \notin beat
  /\ beat' = beat \union {h}
  /\ UNCHANGED <<unit, window, disk, plan>>

\* Its lease runs out: the window is gone, suspended, or could not write.
BeatLapses(h) ==
  /\ h \in beat
  /\ beat' = beat \ {h}
  /\ UNCHANGED <<unit, window, disk, plan>>

\* Mutant: only a window that left its heartbeat behind is seen to be gone.
LeftBehind(h) == {u \in Units : State(u) = "open" /\ Owner[u] # h /\ Owner[u] \in beat}

\* The units that a window finds open and whose window shows no life; it takes itself to be alive.
Abandoned(h) == {u \in Units : State(u) = "open" /\ Owner[u] # h /\ Owner[u] \notin beat}

RecoverAbandonedUnits(h) ==
  /\ life[h] = "open" /\ plan[h] = {} /\ Abandoned(h) # {}
  /\ plan' = [plan EXCEPT ![h] = Abandoned(h)]
  /\ UNCHANGED <<unit, window, beat, disk>>

\* By now the unit may have its receipt, or its window may beat again.
GapSucceeds(h, u) ==
  /\ u \in plan[h] /\ dirs[h] = "made"
  /\ disk' = disk \union {Of(u, "gap")}
  /\ plan' = [plan EXCEPT ![h] = @ \ {u}]
  /\ UNCHANGED <<unit, window, beat>>

\* The first that fails ends the recovery.
GapFails(h, u) ==
  /\ u \in plan[h] /\ dirs[h] # "unknown"
  /\ disk' \in {disk} \union (IF dirs[h] = "made" THEN {disk \union {Of(u, "gap")}} ELSE {})
  /\ plan' = [plan EXCEPT ![h] = {}]
  /\ UNCHANGED <<unit, window, beat>>

-----------------------------------------------------------------------------
Init ==
  /\ unit = [u \in Units |-> [requests |-> 0, closed |-> FALSE]]
  /\ queue = [h \in Hosts |-> <<>>] /\ writer = [h \in Hosts |-> "idle"]
  /\ life = [h \in Hosts |-> "open"] /\ dirs = [h \in Hosts |-> "unknown"]
  /\ beat = {} /\ disk = {}
  /\ plan = [h \in Hosts |-> {}]

Turn(u) == NoteModelRequest(u) \/ Settle(u) \/ CloseUnit(u)

Drain(h) ==
  EnsureDirectories(h) \/ WriteSucceeds(h) \/ WriteFails(h) \/ RetryDelayEnds(h)

End(h) == Dispose(h) \/ LastAttempt(h) \/ DisposeEnds(h) \/ Crash(h)

Recovery(h) ==
  \/ Beats(h) \/ BeatLapses(h) \/ RecoverAbandonedUnits(h)
  \/ \E u \in Units : GapSucceeds(h, u) \/ GapFails(h, u)

Next ==
  \/ \E u \in Units : Turn(u)
  \/ \E h \in Hosts : Drain(h) \/ End(h) \/ Recovery(h)

Spec == Init /\ [][Next]_vars

Gone(h) == life[h] \in {"closed", "crashed"}

(***************************************************************************)
(* Calls of the file system return and timers fire; a write that is tried  *)
(* again and again succeeds at last where the directories were made; the   *)
(* heartbeat of a window that is gone lapses.  Nothing else is owed: no    *)
(* turn, and neither the beat of a window nor its end.                     *)
(***************************************************************************)
Fairness ==
  /\ \A h \in Hosts :
       /\ WF_vars(EnsureDirectories(h))
       /\ WF_vars(WriteSucceeds(h) \/ WriteFails(h)) /\ SF_vars(WriteSucceeds(h))
       /\ WF_vars(RetryDelayEnds(h))
       /\ WF_vars(Gone(h) /\ BeatLapses(h))
       /\ WF_vars(RecoverAbandonedUnits(h))
  /\ \A h \in Hosts, u \in Units :
       WF_vars(GapSucceeds(h, u) \/ GapFails(h, u)) /\ SF_vars(GapSucceeds(h, u))

FairSpec == Spec /\ Fairness

-----------------------------------------------------------------------------
(* Properties *)

QTypeOK ==
  /\ unit \in [Units -> [requests : Nat, closed : BOOLEAN]]
  /\ queue \in [Hosts -> Seq(Event)]
  /\ writer \in [Hosts -> {"idle", "writing", "delaying"}]
  /\ life \in [Hosts -> {"open", "closing", "closed", "crashed"}]
  /\ dirs \in [Hosts -> {"unknown", "made", "failed"}]
  /\ beat \subseteq Hosts /\ disk \subseteq Event
  /\ plan \in [Hosts -> SUBSET Units]
  /\ \A h \in Hosts : writer[h] # "idle" => queue[h] # <<>>
  /\ \A h \in Hosts : life[h] = "open" /\ queue[h] # <<>> => writer[h] # "idle"

\* No usage is left out of the totals for want of the record that its unit began: whatever fails, is
\* tried again or is cut off by a crash, a unit's receipt or gap reaches the disk after its start.
\* (Not so for a window that was closed: its last attempts go on past one that fails.)
NothingWithoutStart ==
  \A u \in Units : life[Owner[u]] \in {"open", "crashed"} =>
    (disk \intersect {Of(u, "receipt"), Of(u, "gap")} # {} => Of(u, "start") \in disk)

\* While its window stays open, an event that was recorded becomes durable, unless the window could
\* not make the directories at its one attempt.
DurableUnlessNoDirectories ==
  \A u \in Units, k \in Kinds :
    LET h == Owner[u] e == Of(u, k) IN
    (\E i \in DOMAIN queue[h] : queue[h][i] = e) ~> (e \in disk \/ life[h] # "open" \/ dirs[h] = "failed")

\* "A write that fails is retried until it is durable" (SpendCoordinator.ts:529-530).
RetriedUntilDurable ==
  \A u \in Units, k \in Kinds :
    LET h == Owner[u] e == Of(u, k) IN
    (\E i \in DOMAIN queue[h] : queue[h][i] = e) ~> (e \in disk \/ life[h] # "open")

\* A unit that a window left open when it ended is closed by another, whichever way the window
\* ended, if one stays that can write.
GoneIsClosed ==
  \A u \in Units :
    (Gone(Owner[u]) /\ State(u) = "open")
      ~> (State(u) # "open" \/ \A h \in Hosts : life[h] # "open" \/ dirs[h] = "failed")
=============================================================================
