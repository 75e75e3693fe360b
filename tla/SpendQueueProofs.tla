-------------------------- MODULE SpendQueueProofs --------------------------
(***************************************************************************)
(* Theorems of the spend events of the windows, for any number of windows, *)
(* of units and of requests.                                               *)
(***************************************************************************)
EXTENDS SpendQueue, TLAPS

-----------------------------------------------------------------------------
(* Type correctness.                                                       *)

LEMMA OfType == \A u \in Units, k \in Kinds : Of(u, k) \in Event
BY DEF Of, Event

LEMMA OwnerType == \A u \in Units : Owner[u] \in Hosts
BY QueueAssumption

\* What recording keeps of the queue and of the drain.
LEMMA RecordTypes ==
  ASSUME QTypeOK, NEW h \in Hosts, NEW events \in Seq(Event), Record(h, events)
  PROVE  /\ queue' \in [Hosts -> Seq(Event)]
         /\ writer' \in [Hosts -> {"idle", "writing", "delaying"}]
         /\ \A g \in Hosts : writer'[g] # "idle" => queue'[g] # <<>>
         /\ \A g \in Hosts : life[g] = "open" /\ queue'[g] # <<>> => writer'[g] # "idle"
<1>. USE DEF QTypeOK
<1>1. CASE life[h] # "open"
  BY <1>1 DEF Record
<1>2. CASE life[h] = "open"
  <2>1. queue' = [queue EXCEPT ![h] = @ \o events]
    BY <1>2 DEF Record
  <2>2. writer' = [writer EXCEPT ![h] = IF @ = "idle" /\ events # <<>> THEN "writing" ELSE @]
    BY <1>2 DEF Record
  <2>3. queue[h] \o events \in Seq(Event)
    OBVIOUS
  <2>4. (queue[h] \o events = <<>>) <=> (queue[h] = <<>> /\ events = <<>>)
    OBVIOUS
  <2>5. queue' \in [Hosts -> Seq(Event)] /\ queue'[h] = queue[h] \o events
        /\ \A g \in Hosts \ {h} : queue'[g] = queue[g]
    BY <2>1, <2>3
  <2>6. /\ writer' \in [Hosts -> {"idle", "writing", "delaying"}]
        /\ writer'[h] = IF writer[h] = "idle" /\ events # <<>> THEN "writing" ELSE writer[h]
        /\ \A g \in Hosts \ {h} : writer'[g] = writer[g]
    BY <2>2
  <2>7. ASSUME NEW g \in Hosts
        PROVE  /\ writer'[g] # "idle" => queue'[g] # <<>>
               /\ life[g] = "open" /\ queue'[g] # <<>> => writer'[g] # "idle"
    <3>1. CASE g = h
      BY <2>4, <2>5, <2>6, <3>1
    <3>2. CASE g # h
      BY <2>5, <2>6, <3>2
    <3>. QED BY <3>1, <3>2
  <2>. QED BY <2>5, <2>6, <2>7
<1>. QED BY <1>1, <1>2

\* A non-empty queue has a head that is an event, and a tail that is a queue.
LEMMA HeadTail ==
  ASSUME NEW q \in Seq(Event), q # <<>>
  PROVE  /\ Head(q) \in Event /\ Head(q) = q[1] /\ Tail(q) \in Seq(Event)
         /\ (Tail(q) = <<>>) <=> ~(Len(q) > 1)
OBVIOUS

LEMMA TurnTypes == ASSUME QTypeOK, NEW u \in Units, Turn(u) PROVE QTypeOK'
<1>1. Owner[u] \in Hosts
  BY OwnerType
<1>2. /\ <<Of(u, "start")>> \in Seq(Event) /\ <<Of(u, "receipt")>> \in Seq(Event)
      /\ <<Of(u, "gap")>> \in Seq(Event) /\ <<>> \in Seq(Event)
      /\ <<Of(u, "start"), Of(u, "receipt")>> \in Seq(Event)
  BY OfType DEF Kinds
<1>3. CASE NoteModelRequest(u)
  <2>1. PICK events \in Seq(Event) : Record(Owner[u], events)
    BY <1>2, <1>3 DEF NoteModelRequest
  <2>2. unit' \in [Units -> [requests : Nat, closed : BOOLEAN]]
    <3>1. unit[u] \in [requests : Nat, closed : BOOLEAN]
      BY DEF QTypeOK
    <3>2. [unit[u] EXCEPT !.requests = @ + 1] \in [requests : Nat, closed : BOOLEAN]
      BY <3>1
    <3>3. unit' = [unit EXCEPT ![u] = [unit[u] EXCEPT !.requests = @ + 1]]
      BY <1>3 DEF NoteModelRequest
    <3>. QED BY <3>2, <3>3 DEF QTypeOK
  <2>. QED BY <1>1, <1>3, <2>1, <2>2, RecordTypes DEF NoteModelRequest, QTypeOK
<1>4. CASE Settle(u)
  <2>1. PICK events \in Seq(Event) : Record(Owner[u], events)
    BY <1>2, <1>4 DEF Settle
  <2>2. unit' \in [Units -> [requests : Nat, closed : BOOLEAN]]
    BY <1>4, ZenonT(30) DEF Settle, QTypeOK
  <2>. QED BY <1>1, <1>4, <2>1, <2>2, RecordTypes DEF Settle, QTypeOK
<1>5. CASE CloseUnit(u)
  <2>1. PICK events \in Seq(Event) : Record(Owner[u], events)
    BY <1>2, <1>5 DEF CloseUnit
  <2>2. unit' \in [Units -> [requests : Nat, closed : BOOLEAN]]
    BY <1>5 DEF CloseUnit, QTypeOK
  <2>. QED BY <1>1, <1>5, <2>1, <2>2, RecordTypes DEF CloseUnit, QTypeOK
<1>. QED BY <1>3, <1>4, <1>5 DEF Turn

LEMMA LandedType == \A h \in Hosts : QTypeOK /\ queue[h] # <<>> => \A d \in Landed(h) : d \subseteq Event
BY HeadTail DEF Landed, QTypeOK

LEMMA DrainTypes == ASSUME QTypeOK, NEW h \in Hosts, Drain(h) PROVE QTypeOK'
<1>1. CASE EnsureDirectories(h)
  BY <1>1 DEF EnsureDirectories, QTypeOK
<1>2. CASE WriteSucceeds(h)
  <2>1. queue[h] \in Seq(Event) /\ queue[h] # <<>>
    BY <1>2 DEF WriteSucceeds, Writing, QTypeOK
  <2>2. disk' \subseteq Event
    BY <1>2, <2>1, HeadTail DEF WriteSucceeds, QTypeOK
  <2>3. /\ queue' \in [Hosts -> Seq(Event)] /\ queue'[h] = Tail(queue[h])
        /\ \A g \in Hosts \ {h} : queue'[g] = queue[g]
    BY <1>2, <2>1, HeadTail DEF WriteSucceeds, QTypeOK
  <2>4. /\ writer' \in [Hosts -> {"idle", "writing", "delaying"}]
        /\ writer'[h] = IF Len(queue[h]) > 1 /\ life[h] = "open" THEN "writing" ELSE "idle"
        /\ \A g \in Hosts \ {h} : writer'[g] = writer[g]
    BY <1>2 DEF WriteSucceeds, Writing, QTypeOK
  <2>5. ASSUME NEW g \in Hosts
        PROVE  /\ writer'[g] # "idle" => queue'[g] # <<>>
               /\ life[g] = "open" /\ queue'[g] # <<>> => writer'[g] # "idle"
    <3>1. CASE g = h
      BY <2>1, <2>3, <2>4, <3>1, HeadTail
    <3>2. CASE g # h
      BY <2>3, <2>4, <3>2 DEF QTypeOK
    <3>. QED BY <3>1, <3>2
  <2>. QED BY <1>2, <2>2, <2>3, <2>4, <2>5 DEF WriteSucceeds, QTypeOK
<1>3. CASE WriteFails(h)
  <2>1. disk' \subseteq Event
    BY <1>3, LandedType DEF WriteFails, Writing, QTypeOK
  <2>. QED BY <1>3, <2>1 DEF WriteFails, Writing, QTypeOK
<1>4. CASE RetryDelayEnds(h)
  BY <1>4 DEF RetryDelayEnds, QTypeOK
<1>. QED BY <1>1, <1>2, <1>3, <1>4 DEF Drain

LEMMA EndTypes == ASSUME QTypeOK, NEW h \in Hosts, End(h) PROVE QTypeOK'
<1>1. CASE Dispose(h)
  BY <1>1 DEF Dispose, QTypeOK
<1>2. CASE LastAttempt(h)
  <2>1. disk' \subseteq Event
    BY <1>2, LandedType DEF LastAttempt
  <2>2. queue' \in [Hosts -> Seq(Event)] /\ \A g \in Hosts \ {h} : queue'[g] = queue[g]
    BY <1>2, HeadTail DEF LastAttempt, QTypeOK
  <2>. QED BY <1>2, <2>1, <2>2 DEF LastAttempt, QTypeOK
<1>3. CASE DisposeEnds(h)
  BY <1>3 DEF DisposeEnds, QTypeOK
<1>4. CASE Crash(h)
  <2>1. disk' \subseteq Event
    BY <1>4, LandedType DEF Crash, QTypeOK
  <2>. QED BY <1>4, <2>1 DEF Crash, QTypeOK
<1>. QED BY <1>1, <1>2, <1>3, <1>4 DEF End

LEMMA RecoveryTypes == ASSUME QTypeOK, NEW h \in Hosts, Recovery(h) PROVE QTypeOK'
<1>. USE DEF QTypeOK, window
<1>1. CASE Beats(h)
  BY <1>1 DEF Beats
<1>2. CASE BeatLapses(h)
  BY <1>2 DEF BeatLapses
<1>3. CASE RecoverAbandonedUnits(h)
  BY <1>3 DEF RecoverAbandonedUnits, Abandoned
<1>4. ASSUME NEW u \in Units, GapSucceeds(h, u) PROVE QTypeOK'
  BY <1>4, OfType DEF GapSucceeds, Kinds
<1>5. ASSUME NEW u \in Units, GapFails(h, u) PROVE QTypeOK'
  BY <1>5, OfType DEF GapFails, Kinds
<1>. QED BY <1>1, <1>2, <1>3, <1>4, <1>5 DEF Recovery

LEMMA InitTypes == Init => QTypeOK
BY DEF Init, QTypeOK

LEMMA NextTypes == QTypeOK /\ [Next]_vars => QTypeOK'
<1>. SUFFICES ASSUME QTypeOK, [Next]_vars PROVE QTypeOK'
  OBVIOUS
<1>1. CASE UNCHANGED vars
  BY <1>1 DEF vars, window, QTypeOK
<1>. QED BY <1>1, TurnTypes, DrainTypes, EndTypes, RecoveryTypes DEF Next

\* The type invariant holds in every reachable state: a drain that waits or writes has an event to
\* write, and an open window with an event has a drain at work on it.
THEOREM QTypeCorrect == Spec => []QTypeOK
BY InitTypes, NextTypes, PTL DEF Spec

-----------------------------------------------------------------------------
(* Nothing reaches the disk without the start of its unit.  The property   *)
(* says nothing of the queues, so it is not inductive: while a window is   *)
(* open, every receipt or gap in its queue has its start on the disk or    *)
(* before it, and so has every unit that made a request.                   *)

Begun(d, q, u, i) == Of(u, "start") \in d \/ \E j \in 1..(i - 1) : q[j] = Of(u, "start")

InOrder(d, q) == \A i \in 1..Len(q) : q[i].kind # "start" => Begun(d, q, q[i].unit, i)

QueuesInOrder == \A h \in Hosts : life[h] = "open" => InOrder(disk, queue[h])

\* A queue holds the events of its own window.
OwnEvents == \A h \in Hosts : \A i \in 1..Len(queue[h]) : Owner[queue[h][i].unit] = h

RequestsBegun ==
  \A u \in Units : life[Owner[u]] = "open" /\ unit[u].requests > 0 =>
    Begun(disk, queue[Owner[u]], u, Len(queue[Owner[u]]) + 1)

PlansBegun == \A h \in Hosts : \A u \in plan[h] : Of(u, "start") \in disk

BInv ==
  QTypeOK /\ QueuesInOrder /\ OwnEvents /\ RequestsBegun /\ PlansBegun /\ NothingWithoutStart

LEMMA EventIs == \A e \in Event : e.unit \in Units /\ e.kind \in Kinds /\ e = Of(e.unit, e.kind)
BY DEF Event, Of

\* More on the disk leaves a queue in order.
LEMMA MoreOnDisk ==
  ASSUME NEW d, NEW more, d \subseteq more, NEW q \in Seq(Event)
  PROVE  /\ InOrder(d, q) => InOrder(more, q)
         /\ \A u, i : Begun(d, q, u, i) => Begun(more, q, u, i)
BY DEF InOrder, Begun

\* The head goes to the disk.
LEMMA HeadWritten ==
  ASSUME NEW d, NEW q \in Seq(Event), q # <<>>
  PROVE  /\ InOrder(d, q) => InOrder(d \union {Head(q)}, Tail(q))
         /\ \A u \in Units : Begun(d, q, u, Len(q) + 1)
                            => Begun(d \union {Head(q)}, Tail(q), u, Len(Tail(q)) + 1)
         /\ \A u \in Units : InOrder(d, q) /\ Head(q) \in {Of(u, "receipt"), Of(u, "gap")}
                            => Of(u, "start") \in d
<1>1. /\ Tail(q) \in Seq(Event) /\ Len(Tail(q)) = Len(q) - 1 /\ Head(q) = q[1] /\ Len(q) >= 1
      /\ Len(q) \in Nat /\ \A i \in 1..Len(Tail(q)) : Tail(q)[i] = q[i + 1]
  OBVIOUS
<1>2. ASSUME NEW u, NEW i \in 1..Len(q), Begun(d, q, u, i + 1)
      PROVE  Begun(d \union {Head(q)}, Tail(q), u, i)
  <2>1. CASE Of(u, "start") \in d
    BY <2>1 DEF Begun
  <2>2. ASSUME NEW j \in 1..i, q[j] = Of(u, "start") PROVE Begun(d \union {Head(q)}, Tail(q), u, i)
    <3>1. CASE j = 1
      BY <1>1, <2>2, <3>1 DEF Begun
    <3>2. CASE j # 1
      <4>1. j - 1 \in 1..(i - 1) /\ j - 1 \in 1..Len(Tail(q)) /\ Tail(q)[j - 1] = Of(u, "start")
        BY <1>1, <2>2, <3>2
      <4>. QED BY <4>1 DEF Begun
    <3>. QED BY <3>1, <3>2
  <2>. QED BY <1>2, <2>1, <2>2 DEF Begun
<1>3. InOrder(d, q) => InOrder(d \union {Head(q)}, Tail(q))
  <2>. SUFFICES ASSUME InOrder(d, q), NEW i \in 1..Len(Tail(q)), Tail(q)[i].kind # "start"
                PROVE  Begun(d \union {Head(q)}, Tail(q), Tail(q)[i].unit, i)
    BY DEF InOrder
  <2>1. i \in 1..Len(q) /\ i + 1 \in 1..Len(q) /\ Tail(q)[i] = q[i + 1]
    BY <1>1
  <2>2. Begun(d, q, q[i + 1].unit, i + 1)
    BY <2>1 DEF InOrder
  <2>. QED BY <1>2, <2>1, <2>2
<1>4. ASSUME NEW u \in Units, Begun(d, q, u, Len(q) + 1)
      PROVE  Begun(d \union {Head(q)}, Tail(q), u, Len(Tail(q)) + 1)
  <2>1. Len(q) \in 1..Len(q) /\ Len(Tail(q)) + 1 = Len(q)
    BY <1>1
  <2>. QED BY <1>2, <1>4, <2>1
<1>5. ASSUME NEW u \in Units, InOrder(d, q), Head(q) \in {Of(u, "receipt"), Of(u, "gap")}
      PROVE  Of(u, "start") \in d
  <2>1. 1 \in 1..Len(q) /\ q[1].kind # "start" /\ q[1].unit = u
    BY <1>1, <1>5 DEF Of
  <2>2. Begun(d, q, u, 1)
    BY <1>5, <2>1 DEF InOrder
  <2>. QED BY <2>2 DEF Begun
<1>. QED BY <1>3, <1>4, <1>5

\* One event is recorded behind the others.
LEMMA OneRecorded ==
  ASSUME NEW d, NEW q \in Seq(Event), NEW e \in Event
  PROVE  /\ InOrder(d, q) /\ (e.kind # "start" => Begun(d, q, e.unit, Len(q) + 1)) => InOrder(d, q \o <<e>>)
         /\ \A u : Begun(d, q, u, Len(q) + 1) => Begun(d, q \o <<e>>, u, Len(q \o <<e>>) + 1)
         /\ \A u \in Units : e = Of(u, "start") => Begun(d, q \o <<e>>, u, Len(q \o <<e>>) + 1)
         /\ q \o <<e>> \in Seq(Event)
<1>1. /\ q \o <<e>> \in Seq(Event) /\ Len(q \o <<e>>) = Len(q) + 1 /\ Len(q) \in Nat
      /\ \A i \in 1..Len(q) : (q \o <<e>>)[i] = q[i]
      /\ (q \o <<e>>)[Len(q) + 1] = e
  OBVIOUS
<1>2. ASSUME NEW u, NEW i \in 1..(Len(q) + 1), Begun(d, q, u, i) PROVE Begun(d, q \o <<e>>, u, i)
  BY <1>1, <1>2 DEF Begun
<1>3. InOrder(d, q) /\ (e.kind # "start" => Begun(d, q, e.unit, Len(q) + 1)) => InOrder(d, q \o <<e>>)
  BY <1>1, <1>2 DEF InOrder
<1>4. ASSUME NEW u, Begun(d, q, u, Len(q) + 1) PROVE Begun(d, q \o <<e>>, u, Len(q \o <<e>>) + 1)
  BY <1>1, <1>4 DEF Begun
<1>5. ASSUME NEW u \in Units, e = Of(u, "start") PROVE Begun(d, q \o <<e>>, u, Len(q \o <<e>>) + 1)
  BY <1>1, <1>5 DEF Begun
<1>. QED BY <1>1, <1>3, <1>4, <1>5

\* What recording one event does: the parts of the invariant that speak of the queue it joins.
LEMMA RecordOne ==
  ASSUME BInv, NEW u \in Units, NEW e \in Event, e.unit = u, Record(Owner[u], <<e>>),
         e.kind # "start" /\ life[Owner[u]] = "open" =>
           Begun(disk, queue[Owner[u]], u, Len(queue[Owner[u]]) + 1)
  PROVE  /\ \A h \in Hosts : life[h] = "open" => InOrder(disk, queue'[h])
         /\ \A h \in Hosts : \A i \in 1..Len(queue'[h]) : Owner[queue'[h][i].unit] = h
         /\ \A v \in Units : life[Owner[v]] = "open"
              /\ (Begun(disk, queue[Owner[v]], v, Len(queue[Owner[v]]) + 1) \/ e = Of(v, "start"))
              => Begun(disk, queue'[Owner[v]], v, Len(queue'[Owner[v]]) + 1)
<1>. DEFINE h0 == Owner[u]
            q == queue[h0]
<1>1. h0 \in Hosts /\ q \in Seq(Event)
  BY OwnerType DEF BInv, QTypeOK
<1>2. CASE life[h0] # "open"
  <2>1. queue' = queue
    BY <1>2 DEF Record
  <2>2. \A v \in Units : e = Of(v, "start") => v = u
    BY DEF Of
  <2>. QED BY <1>2, <2>1, <2>2 DEF BInv, QueuesInOrder, OwnEvents
<1>3. CASE life[h0] = "open"
  <2>1. queue' = [queue EXCEPT ![h0] = q \o <<e>>]
    BY <1>3 DEF Record
  <2>2. queue'[h0] = q \o <<e>> /\ \A g \in Hosts \ {h0} : queue'[g] = queue[g]
    BY <1>1, <2>1 DEF BInv, QTypeOK
  <2>3. InOrder(disk, q) /\ InOrder(disk, q \o <<e>>)
    BY <1>1, <1>3, OneRecorded DEF BInv, QueuesInOrder
  <2>4. \A g \in Hosts : life[g] = "open" => InOrder(disk, queue'[g])
    BY <2>2, <2>3 DEF BInv, QueuesInOrder
  <2>5. \A i \in 1..Len(q \o <<e>>) : (i \in 1..Len(q) /\ (q \o <<e>>)[i] = q[i]) \/ (q \o <<e>>)[i] = e
    BY <1>1
  <2>6. \A g \in Hosts : \A i \in 1..Len(queue'[g]) : Owner[queue'[g][i].unit] = g
    <3>1. \A i \in 1..Len(q) : Owner[q[i].unit] = h0
      BY <1>1 DEF BInv, OwnEvents
    <3>2. \A i \in 1..Len(q \o <<e>>) : Owner[(q \o <<e>>)[i].unit] = h0
      BY <2>5, <3>1
    <3>3. \A g \in Hosts \ {h0} : \A i \in 1..Len(queue'[g]) : Owner[queue'[g][i].unit] = g
      BY <2>2 DEF BInv, OwnEvents
    <3>. QED BY <2>2, <3>2, <3>3
  <2>7. ASSUME NEW v \in Units, life[Owner[v]] = "open",
               Begun(disk, queue[Owner[v]], v, Len(queue[Owner[v]]) + 1) \/ e = Of(v, "start")
        PROVE  Begun(disk, queue'[Owner[v]], v, Len(queue'[Owner[v]]) + 1)
    <3>1. e = Of(v, "start") => v = u
      BY DEF Of
    <3>2. CASE Owner[v] = h0
      BY <1>1, <2>2, <2>7, <3>2, OneRecorded
    <3>3. CASE Owner[v] # h0
      BY <2>2, <2>7, <3>1, <3>3, OwnerType
    <3>. QED BY <3>2, <3>3
  <2>. QED BY <2>4, <2>6, <2>7
<1>. QED BY <1>2, <1>3

LEMMA RequestKeeps == ASSUME BInv, NEW u \in Units, NoteModelRequest(u) PROVE BInv'
<1>1. QTypeOK'
  BY TurnTypes DEF BInv, Turn
<1>2. Of(u, "start") \in Event /\ Of(u, "start").unit = u /\ Of(u, "start").kind = "start"
      /\ Record(Owner[u], <<Of(u, "start")>>)
  BY OfType DEF NoteModelRequest, Kinds, Of
<1>3. /\ UNCHANGED <<life, disk, plan>>
      /\ \A v \in Units \ {u} : unit'[v] = unit[v]
  BY DEF NoteModelRequest, BInv, QTypeOK
<1>4. /\ \A h \in Hosts : life[h] = "open" => InOrder(disk, queue'[h])
      /\ \A h \in Hosts : \A i \in 1..Len(queue'[h]) : Owner[queue'[h][i].unit] = h
      /\ \A v \in Units : life[Owner[v]] = "open"
           /\ (Begun(disk, queue[Owner[v]], v, Len(queue[Owner[v]]) + 1) \/ Of(u, "start") = Of(v, "start"))
           => Begun(disk, queue'[Owner[v]], v, Len(queue'[Owner[v]]) + 1)
  BY <1>2, RecordOne
<1>5. QueuesInOrder' /\ OwnEvents'
  BY <1>3, <1>4 DEF QueuesInOrder, OwnEvents
<1>6. RequestsBegun'
  BY <1>3, <1>4 DEF RequestsBegun, BInv
<1>7. PlansBegun' /\ NothingWithoutStart'
  BY <1>3 DEF PlansBegun, NothingWithoutStart, BInv
<1>. QED BY <1>1, <1>5, <1>6, <1>7 DEF BInv

\* A unit that closes after a request: its start was recorded before.
LEMMA LaterKeeps ==
  ASSUME BInv, NEW u \in Units, NEW k \in {"receipt", "gap"}, unit[u].requests > 0,
         Record(Owner[u], <<Of(u, k)>>), UNCHANGED <<life, disk, plan>>, QTypeOK',
         \A v \in Units : unit'[v].requests = unit[v].requests
  PROVE  BInv'
<1>1. Of(u, k) \in Event /\ Of(u, k).unit = u /\ \A v \in Units : Of(u, k) # Of(v, "start")
  BY OfType DEF Kinds, Of
<1>2. life[Owner[u]] = "open" => Begun(disk, queue[Owner[u]], u, Len(queue[Owner[u]]) + 1)
  BY DEF BInv, RequestsBegun
<1>3. /\ \A h \in Hosts : life[h] = "open" => InOrder(disk, queue'[h])
      /\ \A h \in Hosts : \A i \in 1..Len(queue'[h]) : Owner[queue'[h][i].unit] = h
      /\ \A v \in Units : life[Owner[v]] = "open"
           /\ Begun(disk, queue[Owner[v]], v, Len(queue[Owner[v]]) + 1)
           => Begun(disk, queue'[Owner[v]], v, Len(queue'[Owner[v]]) + 1)
  BY <1>1, <1>2, RecordOne
<1>4. QueuesInOrder' /\ OwnEvents'
  BY <1>3 DEF QueuesInOrder, OwnEvents
<1>5. RequestsBegun'
  BY <1>3 DEF RequestsBegun, BInv
<1>6. PlansBegun' /\ NothingWithoutStart'
  BY DEF PlansBegun, NothingWithoutStart, BInv
<1>. QED BY <1>4, <1>5, <1>6 DEF BInv

\* Usage without an observed request: the start and the receipt are recorded together.
LEMMA BothKeeps ==
  ASSUME BInv, NEW u \in Units, Record(Owner[u], <<Of(u, "start"), Of(u, "receipt")>>),
         UNCHANGED <<life, disk, plan>>, QTypeOK',
         \A v \in Units \ {u} : unit'[v].requests = unit[v].requests
  PROVE  BInv'
<1>. DEFINE h0 == Owner[u]
            q == queue[h0]
            one == q \o <<Of(u, "start")>>
            two == one \o <<Of(u, "receipt")>>
<1>1. /\ h0 \in Hosts /\ q \in Seq(Event) /\ Of(u, "start") \in Event /\ Of(u, "receipt") \in Event
      /\ Of(u, "start").kind = "start" /\ Of(u, "start").unit = u /\ Of(u, "receipt").unit = u
  BY OwnerType, OfType DEF BInv, QTypeOK, Kinds, Of
<1>2. PlansBegun' /\ NothingWithoutStart'
  BY DEF PlansBegun, NothingWithoutStart, BInv
<1>3. CASE life[h0] # "open"
  <2>1. queue' = queue
    BY <1>3 DEF Record
  <2>2. RequestsBegun'
    BY <1>3, <2>1 DEF RequestsBegun, BInv
  <2>. QED BY <1>2, <2>1, <2>2 DEF BInv, QueuesInOrder, OwnEvents
<1>4. CASE life[h0] = "open"
  <2>1. q \o <<Of(u, "start"), Of(u, "receipt")>> = two /\ one \in Seq(Event) /\ two \in Seq(Event)
    BY <1>1
  <2>2. queue' = [queue EXCEPT ![h0] = q \o <<Of(u, "start"), Of(u, "receipt")>>]
    BY <1>4 DEF Record
  <2>3. queue'[h0] = two /\ \A g \in Hosts \ {h0} : queue'[g] = queue[g]
    BY <1>1, <2>1, <2>2 DEF BInv, QTypeOK
  <2>4. InOrder(disk, one)
    BY <1>1, <1>4, OneRecorded DEF BInv, QueuesInOrder
  <2>5. Begun(disk, one, u, Len(one) + 1)
    BY <1>1, OneRecorded
  <2>6. InOrder(disk, two)
    <3>. HIDE DEF one
    <3>. QED BY <1>1, <2>1, <2>4, <2>5, OneRecorded
  <2>7. \A v : Begun(disk, q, v, Len(q) + 1) => Begun(disk, two, v, Len(two) + 1)
    <3>1. \A v : Begun(disk, q, v, Len(q) + 1) => Begun(disk, one, v, Len(one) + 1)
      BY <1>1, OneRecorded
    <3>2. \A v : Begun(disk, one, v, Len(one) + 1) => Begun(disk, two, v, Len(two) + 1)
      <4>. HIDE DEF one
      <4>. QED BY <1>1, <2>1, OneRecorded
    <3>. QED BY <3>1, <3>2
  <2>8. Begun(disk, two, u, Len(two) + 1)
    <3>. HIDE DEF one
    <3>. QED BY <1>1, <2>1, <2>5, OneRecorded
  <2>9. QueuesInOrder'
    BY <2>3, <2>6 DEF QueuesInOrder, BInv
  <2>10. OwnEvents'
    <3>1. \A i \in 1..Len(q) : Owner[q[i].unit] = h0
      BY <1>1 DEF BInv, OwnEvents
    <3>2. \A i \in 1..Len(two) : (i \in 1..Len(q) /\ two[i] = q[i])
                                 \/ two[i] \in {Of(u, "start"), Of(u, "receipt")}
      BY <1>1
    <3>. HIDE DEF one, two
    <3>3. \A i \in 1..Len(two) : Owner[two[i].unit] = h0
      BY <1>1, <3>1, <3>2
    <3>4. \A g \in Hosts \ {h0} : \A i \in 1..Len(queue'[g]) : Owner[queue'[g][i].unit] = g
      BY <2>3 DEF BInv, OwnEvents
    <3>. QED BY <2>3, <3>3, <3>4 DEF OwnEvents
  <2>11. RequestsBegun'
    <3>. HIDE DEF two
    <3>1. SUFFICES ASSUME NEW v \in Units, life[Owner[v]] = "open", unit'[v].requests > 0
                   PROVE  Begun(disk, queue'[Owner[v]], v, Len(queue'[Owner[v]]) + 1)
      BY DEF RequestsBegun
    <3>2. CASE v = u
      BY <2>3, <2>8, <3>2
    <3>3. CASE v # u
      <4>1. Begun(disk, queue[Owner[v]], v, Len(queue[Owner[v]]) + 1)
        BY <3>1, <3>3 DEF BInv, RequestsBegun
      <4>. QED BY <2>3, <2>7, <4>1, OwnerType
    <3>. QED BY <3>2, <3>3
  <2>. QED BY <1>2, <2>9, <2>10, <2>11 DEF BInv
<1>. QED BY <1>3, <1>4

LEMMA TurnKeeps == ASSUME BInv, NEW u \in Units, Turn(u) PROVE BInv'
<1>1. QTypeOK' /\ unit[u].requests \in Nat
  BY TurnTypes DEF BInv, QTypeOK
<1>2. CASE NoteModelRequest(u)
  BY <1>2, RequestKeeps
<1>3. CASE Settle(u)
  <2>1. UNCHANGED <<life, disk, plan>> /\ \A v \in Units \ {u} : unit'[v].requests = unit[v].requests
    BY <1>3 DEF Settle, BInv, QTypeOK
  <2>2. CASE unit[u].requests = 0
    <3>1. Record(Owner[u], <<Of(u, "start"), Of(u, "receipt")>>)
      BY <1>3, <2>2 DEF Settle
    <3>. QED BY <1>1, <2>1, <3>1, BothKeeps
  <2>3. CASE unit[u].requests > 0
    <3>1. Record(Owner[u], <<Of(u, "receipt")>>)
      BY <1>3, <2>3 DEF Settle
    <3>2. unit'[u].requests = unit[u].requests
      BY <1>3, <2>3 DEF Settle, BInv, QTypeOK
    <3>3. \A v \in Units : unit'[v].requests = unit[v].requests
      BY <2>1, <3>2
    <3>. QED BY <1>1, <2>1, <2>3, <3>1, <3>3, LaterKeeps
  <2>. QED BY <1>1, <2>2, <2>3
<1>4. CASE CloseUnit(u)
  <2>1. UNCHANGED <<life, disk, plan>> /\ \A v \in Units : unit'[v].requests = unit[v].requests
    BY <1>4 DEF CloseUnit, BInv, QTypeOK
  <2>2. CASE unit[u].requests = 0
    <3>1. queue' = queue
      <4>1. Record(Owner[u], <<>>)
        BY <1>4, <2>2 DEF CloseUnit
      <4>2. \A h \in Hosts : queue[h] \o <<>> = queue[h]
        BY DEF BInv, QTypeOK
      <4>. QED BY <4>1, <4>2, OwnerType DEF Record, BInv, QTypeOK
    <3>. QED BY <1>1, <2>1, <3>1
         DEF BInv, QueuesInOrder, OwnEvents, RequestsBegun, PlansBegun, NothingWithoutStart
  <2>3. CASE unit[u].requests > 0
    <3>1. Record(Owner[u], <<Of(u, "gap")>>)
      BY <1>4, <2>3 DEF CloseUnit
    <3>. QED BY <1>1, <2>1, <2>3, <3>1, LaterKeeps
  <2>. QED BY <1>1, <2>2, <2>3
<1>. QED BY <1>2, <1>3, <1>4 DEF Turn

\* The head of a queue reaches the disk: its start is there, or its window is closing.
LEMMA HeadLands ==
  ASSUME BInv, NEW h \in Hosts, life[h] \in {"open", "closing"}, queue[h] # <<>>,
         disk' = disk \union {Head(queue[h])},
         \A g \in Hosts : life'[g] = life[g] \/ (g = h /\ life[h] = "open" /\ life'[g] = "crashed")
                        \/ (g = h /\ life[h] = "closing" /\ life'[g] = "closed")
  PROVE  NothingWithoutStart'
<1>1. queue[h] \in Seq(Event) /\ Head(queue[h]) \in Event /\ Head(queue[h]) = queue[h][1] /\ 1 \in 1..Len(queue[h])
  BY HeadTail DEF BInv, QTypeOK
<1>2. Owner[Head(queue[h]).unit] = h
  BY <1>1 DEF BInv, OwnEvents
<1>3. SUFFICES ASSUME NEW u \in Units, life'[Owner[u]] \in {"open", "crashed"},
                      disk' \intersect {Of(u, "receipt"), Of(u, "gap")} # {}
               PROVE  Of(u, "start") \in disk'
  BY DEF NothingWithoutStart
<1>4. life[Owner[u]] \in {"open", "crashed"}
  BY <1>3, OwnerType
<1>5. CASE disk \intersect {Of(u, "receipt"), Of(u, "gap")} # {}
  BY <1>4, <1>5 DEF BInv, NothingWithoutStart
<1>6. CASE Head(queue[h]) \in {Of(u, "receipt"), Of(u, "gap")}
  <2>1. Owner[u] = h
    BY <1>2, <1>6 DEF Of
  <2>2. CASE life[h] = "open"
    <3>1. InOrder(disk, queue[h])
      BY <2>2 DEF BInv, QueuesInOrder
    <3>. QED BY <1>1, <1>6, <3>1, HeadWritten
  <2>. QED BY <1>4, <2>1, <2>2
<1>. QED BY <1>3, <1>5, <1>6

\* Steps that change no queue: what is on the disk stays, and no window opens.
LEMMA QueuesStay ==
  ASSUME BInv, QTypeOK', UNCHANGED <<unit, queue>>, disk \subseteq disk',
         \A h \in Hosts : life'[h] = "open" => life[h] = "open",
         NothingWithoutStart', PlansBegun'
  PROVE  BInv'
<1>1. \A h \in Hosts : queue[h] \in Seq(Event)
  BY DEF BInv, QTypeOK
<1>2. \A h \in Hosts : InOrder(disk, queue[h]) => InOrder(disk', queue[h])
  BY <1>1, MoreOnDisk
<1>3. \A h \in Hosts : \A u, i : Begun(disk, queue[h], u, i) => Begun(disk', queue[h], u, i)
  BY <1>1, MoreOnDisk
<1>4. QueuesInOrder' /\ OwnEvents'
  BY <1>2 DEF BInv, QueuesInOrder, OwnEvents
<1>5. RequestsBegun'
  BY <1>3, OwnerType DEF BInv, RequestsBegun
<1>. QED BY <1>4, <1>5 DEF BInv

\* What lands of a write.
LEMMA LandedIs ==
  \A h \in Hosts : \A d \in Landed(h) : d = disk \/ d = disk \union {Head(queue[h])}
BY DEF Landed

LEMMA DrainKeeps == ASSUME BInv, NEW h \in Hosts, Drain(h) PROVE BInv'
<1>1. QTypeOK'
  BY DrainTypes DEF BInv
<1>2. CASE EnsureDirectories(h)
  BY <1>1, <1>2, QueuesStay DEF EnsureDirectories, BInv, NothingWithoutStart, PlansBegun
<1>3. CASE WriteSucceeds(h)
  <2>1. queue[h] \in Seq(Event) /\ queue[h] # <<>> /\ life[h] \in {"open", "closing"}
    BY <1>3 DEF WriteSucceeds, Writing, BInv, QTypeOK
  <2>2. /\ UNCHANGED <<unit, life, plan>> /\ disk' = disk \union {Head(queue[h])}
        /\ queue'[h] = Tail(queue[h]) /\ \A g \in Hosts \ {h} : queue'[g] = queue[g]
    BY <1>3 DEF WriteSucceeds, BInv, QTypeOK
  <2>3. NothingWithoutStart'
    BY <2>1, <2>2, HeadLands
  <2>4. PlansBegun'
    BY <2>2 DEF PlansBegun, BInv
  <2>5. \A g \in Hosts : queue[g] \in Seq(Event) /\ queue'[g] \in Seq(Event)
    BY <1>1 DEF BInv, QTypeOK
  <2>6. QueuesInOrder'
    <3>1. SUFFICES ASSUME NEW g \in Hosts, life[g] = "open" PROVE InOrder(disk', queue'[g])
      BY <2>2 DEF QueuesInOrder
    <3>2. InOrder(disk, queue[g])
      BY <3>1 DEF BInv, QueuesInOrder
    <3>3. CASE g = h
      BY <2>1, <2>2, <3>2, <3>3, HeadWritten
    <3>4. CASE g # h
      BY <2>2, <2>5, <3>2, <3>4, MoreOnDisk
    <3>. QED BY <3>3, <3>4
  <2>7. OwnEvents'
    <3>1. \A i \in 1..Len(Tail(queue[h])) : i + 1 \in 1..Len(queue[h]) /\ Tail(queue[h])[i] = queue[h][i + 1]
      BY <2>1
    <3>2. \A i \in 1..Len(Tail(queue[h])) : Owner[Tail(queue[h])[i].unit] = h
      BY <3>1 DEF BInv, OwnEvents
    <3>. QED BY <2>2, <3>2 DEF BInv, OwnEvents
  <2>8. RequestsBegun'
    <3>1. SUFFICES ASSUME NEW v \in Units, life[Owner[v]] = "open", unit[v].requests > 0
                   PROVE  Begun(disk', queue'[Owner[v]], v, Len(queue'[Owner[v]]) + 1)
      BY <2>2 DEF RequestsBegun
    <3>2. Begun(disk, queue[Owner[v]], v, Len(queue[Owner[v]]) + 1)
      BY <3>1 DEF BInv, RequestsBegun
    <3>3. CASE Owner[v] = h
      <4>1. Begun(disk, queue[h], v, Len(queue[h]) + 1)
        BY <3>2, <3>3
      <4>2. Begun(disk \union {Head(queue[h])}, Tail(queue[h]), v, Len(Tail(queue[h])) + 1)
        BY <2>1, <4>1, HeadWritten
      <4>. QED BY <2>2, <3>3, <4>2
    <3>4. CASE Owner[v] # h
      <4>1. queue'[Owner[v]] = queue[Owner[v]] /\ queue[Owner[v]] \in Seq(Event)
        BY <2>2, <2>5, <3>4, OwnerType
      <4>. QED BY <2>2, <3>2, <4>1, MoreOnDisk
    <3>. QED BY <3>3, <3>4
  <2>. QED BY <1>1, <2>3, <2>4, <2>6, <2>7, <2>8 DEF BInv
<1>4. CASE WriteFails(h)
  <2>1. /\ UNCHANGED <<unit, queue, life, plan>> /\ queue[h] # <<>> /\ life[h] \in {"open", "closing"}
        /\ disk' = disk \/ disk' = disk \union {Head(queue[h])}
    BY <1>4, LandedIs DEF WriteFails, Writing, BInv, QTypeOK
  <2>2. NothingWithoutStart'
    BY <2>1, HeadLands DEF BInv, NothingWithoutStart
  <2>3. PlansBegun'
    BY <2>1 DEF PlansBegun, BInv
  <2>. QED BY <1>1, <2>1, <2>2, <2>3, QueuesStay
<1>5. CASE RetryDelayEnds(h)
  BY <1>1, <1>5, QueuesStay DEF RetryDelayEnds, BInv, NothingWithoutStart, PlansBegun
<1>. QED BY <1>2, <1>3, <1>4, <1>5 DEF Drain

LEMMA EndKeeps == ASSUME BInv, NEW h \in Hosts, End(h) PROVE BInv'
<1>1. QTypeOK'
  BY EndTypes DEF BInv
<1>2. CASE Dispose(h)
  <2>1. /\ UNCHANGED <<unit, queue, disk, plan>> /\ life[h] = "open" /\ life'[h] = "closing"
        /\ \A g \in Hosts \ {h} : life'[g] = life[g]
    BY <1>2 DEF Dispose, BInv, QTypeOK
  <2>2. NothingWithoutStart' /\ PlansBegun'
    BY <2>1, OwnerType DEF BInv, NothingWithoutStart, PlansBegun
  <2>. QED BY <1>1, <2>1, <2>2, QueuesStay
<1>3. CASE LastAttempt(h)
  <2>1. /\ UNCHANGED <<unit, life, plan>> /\ queue[h] \in Seq(Event) /\ queue[h] # <<>> /\ life[h] = "closing"
        /\ disk' = disk \/ disk' = disk \union {Head(queue[h])}
        /\ queue'[h] = Tail(queue[h]) /\ \A g \in Hosts \ {h} : queue'[g] = queue[g]
    BY <1>3, LandedIs DEF LastAttempt, BInv, QTypeOK
  <2>2. NothingWithoutStart'
    BY <2>1, HeadLands DEF BInv, NothingWithoutStart
  <2>3. PlansBegun'
    BY <2>1 DEF PlansBegun, BInv
  <2>4. \A g \in Hosts : queue[g] \in Seq(Event)
    BY DEF BInv, QTypeOK
  <2>5. QueuesInOrder'
    BY <2>1, <2>4, MoreOnDisk DEF BInv, QueuesInOrder
  <2>6. OwnEvents'
    <3>1. \A i \in 1..Len(Tail(queue[h])) : i + 1 \in 1..Len(queue[h]) /\ Tail(queue[h])[i] = queue[h][i + 1]
      BY <2>1
    <3>2. \A i \in 1..Len(Tail(queue[h])) : Owner[Tail(queue[h])[i].unit] = h
      BY <3>1 DEF BInv, OwnEvents
    <3>. QED BY <2>1, <3>2 DEF BInv, OwnEvents
  <2>7. RequestsBegun'
    <3>1. SUFFICES ASSUME NEW v \in Units, life[Owner[v]] = "open", unit[v].requests > 0
                   PROVE  Begun(disk', queue'[Owner[v]], v, Len(queue'[Owner[v]]) + 1)
      BY <2>1 DEF RequestsBegun
    <3>2. Begun(disk, queue[Owner[v]], v, Len(queue[Owner[v]]) + 1)
      BY <3>1 DEF BInv, RequestsBegun
    <3>3. queue'[Owner[v]] = queue[Owner[v]] /\ queue[Owner[v]] \in Seq(Event)
      BY <2>1, <2>4, <3>1, OwnerType
    <3>. QED BY <2>1, <3>2, <3>3, MoreOnDisk
  <2>. QED BY <1>1, <2>2, <2>3, <2>5, <2>6, <2>7 DEF BInv
<1>4. CASE DisposeEnds(h)
  <2>1. /\ UNCHANGED <<unit, queue, disk>> /\ life[h] = "closing" /\ life'[h] = "closed"
        /\ \A g \in Hosts \ {h} : life'[g] = life[g] /\ plan'[g] = plan[g]
        /\ plan'[h] = {}
    BY <1>4 DEF DisposeEnds, BInv, QTypeOK
  <2>2. NothingWithoutStart' /\ PlansBegun'
    BY <2>1, OwnerType DEF BInv, NothingWithoutStart, PlansBegun
  <2>. QED BY <1>1, <2>1, <2>2, QueuesStay
<1>5. CASE Crash(h)
  <2>1. /\ UNCHANGED <<unit, queue>> /\ life[h] \in {"open", "closing"}
        /\ life'[h] = IF life[h] = "open" THEN "crashed" ELSE "closed"
        /\ \A g \in Hosts \ {h} : life'[g] = life[g] /\ plan'[g] = plan[g]
        /\ plan'[h] = {}
    BY <1>5 DEF Crash, BInv, QTypeOK
  <2>2. disk' = disk \/ (queue[h] # <<>> /\ disk' = disk \union {Head(queue[h])})
    BY <1>5, LandedIs DEF Crash, BInv, QTypeOK
  <2>3. NothingWithoutStart'
    <3>1. CASE disk' = disk
      BY <2>1, <3>1, OwnerType DEF BInv, NothingWithoutStart
    <3>2. CASE disk' # disk
      BY <2>1, <2>2, <3>2, HeadLands
    <3>. QED BY <3>1, <3>2
  <2>4. PlansBegun'
    BY <2>1, <2>2 DEF BInv, PlansBegun
  <2>. QED BY <1>1, <2>1, <2>2, <2>3, <2>4, QueuesStay
<1>. QED BY <1>2, <1>3, <1>4, <1>5 DEF End

LEMMA RecoveryKeeps == ASSUME BInv, NEW h \in Hosts, Recovery(h) PROVE BInv'
<1>1. QTypeOK'
  BY RecoveryTypes DEF BInv
<1>. USE DEF window
<1>2. CASE Beats(h)
  BY <1>1, <1>2, QueuesStay DEF Beats, BInv, NothingWithoutStart, PlansBegun
<1>3. CASE BeatLapses(h)
  BY <1>1, <1>3, QueuesStay DEF BeatLapses, BInv, NothingWithoutStart, PlansBegun
<1>4. CASE RecoverAbandonedUnits(h)
  <2>1. \A u \in Abandoned(h) : Of(u, "start") \in disk
    BY DEF Abandoned, State
  <2>2. PlansBegun' /\ NothingWithoutStart'
    BY <1>4, <2>1 DEF RecoverAbandonedUnits, BInv, QTypeOK, PlansBegun, NothingWithoutStart
  <2>. QED BY <1>1, <1>4, <2>2, QueuesStay DEF RecoverAbandonedUnits
<1>5. ASSUME NEW u \in Units, GapSucceeds(h, u) \/ GapFails(h, u) PROVE BInv'
  <2>1. /\ UNCHANGED <<unit, queue, life>> /\ u \in plan[h]
        /\ disk' = disk \/ disk' = disk \union {Of(u, "gap")}
        /\ \A g \in Hosts : plan'[g] \subseteq plan[g]
    BY <1>5 DEF GapSucceeds, GapFails, BInv, QTypeOK
  <2>2. Of(u, "start") \in disk
    BY <2>1 DEF BInv, PlansBegun
  <2>3. PlansBegun'
    BY <2>1 DEF BInv, PlansBegun
  <2>4. \A v \in Units : Of(u, "gap") \in {Of(v, "receipt"), Of(v, "gap")} => v = u
    BY DEF Of
  <2>5. NothingWithoutStart'
    BY <2>1, <2>2, <2>4 DEF BInv, NothingWithoutStart
  <2>. QED BY <1>1, <2>1, <2>3, <2>5, QueuesStay
<1>. QED BY <1>2, <1>3, <1>4, <1>5 DEF Recovery

LEMMA InitBegun == Init => BInv
BY InitTypes DEF Init, BInv, QueuesInOrder, OwnEvents, RequestsBegun, PlansBegun, NothingWithoutStart, InOrder

LEMMA NextBegun == BInv /\ [Next]_vars => BInv'
<1>. SUFFICES ASSUME BInv, [Next]_vars PROVE BInv'
  OBVIOUS
<1>1. CASE UNCHANGED vars
  BY <1>1, NextTypes
     DEF vars, window, BInv, QueuesInOrder, OwnEvents, RequestsBegun, PlansBegun, NothingWithoutStart
<1>. QED BY <1>1, TurnKeeps, DrainKeeps, EndKeeps, RecoveryKeeps DEF Next

\* However writes fail and windows end, a receipt or a gap of a window that was not closed has its
\* start before it on the disk: no usage is left out of the totals for want of a start.
THEOREM UsageHasStart == Spec => []NothingWithoutStart
<1>1. BInv => NothingWithoutStart
  BY DEF BInv
<1>. QED BY <1>1, InitBegun, NextBegun, PTL DEF Spec
=============================================================================
