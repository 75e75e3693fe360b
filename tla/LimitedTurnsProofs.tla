------------------------- MODULE LimitedTurnsProofs -------------------------
(***************************************************************************)
(* Theorems of the turns under the request ceiling, for every set of       *)
(* agents, routes, requests, calls and limits.                             *)
(***************************************************************************)
EXTENDS LimitedTurns, RequestCeilingProofs

-----------------------------------------------------------------------------
(* The inductive invariant.  The gate's own, Inv, is that of               *)
(* RequestCeilingProofs; the rest relates the gate to the turns.           *)

\* A turn, its call and its agent's summary name the same agent and requests that are requests.
TurnsNamed ==
  \A a \in Agents :
    /\ Live(a) => turn[a].request \in Requests
    /\ call[a] # NoCall => call[a].agent = a /\ call[a].request = turn[a].request
    /\ job[a].phase # "none" => job[a].request \in Requests
    /\ a \notin Summarisers => job[a] = NoJob

\* Whoever stands in the gate's line is waited for by its agent's turn or summary.
Waiting == \A r \in Requests : \A c \in held[r] : call[c.agent] = c \/ job[c.agent].call = c

\* A turn that was allowed a request and has not sent it yet.
Owes(a) ==
  \/ turn[a].phase = "crossed"
  \/ turn[a].phase = "asked" /\ status[call[a]] = "proceed" /\ call[a].reserves

\* Those of them whose reservation was used up by the agent's summary, which is counted for the same request.
Lent(r) == {a \in Agents : Owes(a) /\ turn[a].request = r /\ ~(\E c \in reserved[r] : c.agent = a)}

\* A summary that is counted has used up a reservation of a turn, or is counted beyond the reservations.
Borrowed == \A r \in Requests : IsFiniteSet(Lent(r)) /\ unreserved[r] + Cardinality(Lent(r)) <= summaries[r]

\* No limit is pinned before the request begins, and the host does not end.
Begun ==
  /\ \A r \in Requests : state[r] = "new" => configured[r] = [turns |-> 0, tokens |-> 0]
  /\ ~disposed

TurnInv ==
  /\ Inv /\ LTypeOK /\ TurnsNamed /\ Waiting /\ Begun
  /\ ReservationHasTurn /\ Borrowed /\ StoppedRunsNothing /\ ForgottenIsOver

-----------------------------------------------------------------------------
(* The gate's invariant under its users.                                   *)

\* Boundaries are refused, some reservations are given back and some prompts are over.
LEMMA RefusedGate ==
  ASSUME Inv, NEW stopping \in SUBSET {r \in Requests : Tracked(r)}, NEW cs, Refused(stopping, cs),
         reserved' \in [Requests -> SUBSET Calls], \A r \in Requests : reserved'[r] \subseteq reserved[r],
         prompts' \in [Requests -> SUBSET Nat], UNCHANGED disposed
  PROVE  Inv'
<1>. USE DEF limits, totals, tokens, decided
<1>0. TypeOK /\ Line /\ Counting /\ stopping \in SUBSET Requests
  BY DEF Inv
<1>1. TypeOK'
  BY <1>0, RefusedType DEF TypeOK
<1>2. Line' /\ Counting'
  BY <1>0, RefusedLine, RefusedCount
<1>3. CrossingPerAllowance'
  <2>1. /\ UNCHANGED <<allowances, crossings, crossedAt>>
        /\ \A r \in Requests : decision'[r] = 0 \/ decision'[r] = decision[r]
    BY DEF Refused
  <2>. QED BY <2>1 DEF Inv, CrossingPerAllowance
<1>. QED BY <1>1, <1>2, <1>3 DEF Inv

\* Reservations are given back and nothing else happens.
LEMMA GivenBackGate ==
  ASSUME Inv, reserved' \in [Requests -> SUBSET Calls], \A r \in Requests : reserved'[r] \subseteq reserved[r],
         UNCHANGED <<state, limits, counted, unreserved, tokens, decided, status, disposed>>
  PROVE  Inv'
<1>. USE DEF limits, totals, tokens, decided
<1>1. TypeOK' /\ Line' /\ CrossingPerAllowance'
  BY DEF Inv, TypeOK, Line, HeldBehindDecision, CrossingPerAllowance
<1>2. Counting'
  BY GivenBackCount DEF Inv
<1>. QED BY <1>1, <1>2 DEF Inv

LEMMA NextGate == ASSUME Inv, [Next]_vars PROVE Inv'
BY TypeStep, LineStep, CountStep, CrossingStep DEF Inv

LEMMA GivenBackType ==
  ASSUME TypeOK, NEW ended, reserved' = ReservedAfter(ended)
  PROVE  /\ reserved' \in [Requests -> SUBSET Calls]
         /\ \A r \in Requests : reserved'[r] \subseteq reserved[r]
BY DEF TypeOK, ReservedAfter

\* A step that is none of the gate's own: callers give up, with the requests that are stopped or alone.
GivesUp ==
  /\ reserved' \in [Requests -> SUBSET Calls] /\ \A r \in Requests : reserved'[r] \subseteq reserved[r]
  /\ prompts' \in [Requests -> SUBSET Nat] /\ UNCHANGED disposed
  /\ \/ \E stopping \in SUBSET {r \in Requests : Tracked(r)}, cs \in SUBSET (Calls \union {NoCall}) :
          Refused(stopping, cs)
     \/ UNCHANGED <<state, limits, counted, unreserved, tokens, decided, status>>

LEMMA InterruptGate ==
  ASSUME LTypeOK, NEW stopping \in SUBSET {r \in Requests : Tracked(r)}, NEW agents \in SUBSET Agents,
         Interrupt(stopping, agents), prompts' \in [Requests -> SUBSET Nat]
  PROVE  GivesUp
<1>. DEFINE cs == {call[a] : a \in agents} \union {job[a].call : a \in agents}
<1>1. cs \in SUBSET (Calls \union {NoCall})
  BY DEF LTypeOK
<1>2. Refused(stopping, cs) /\ reserved' = ReservedAfter(agents) /\ UNCHANGED disposed
  BY DEF Interrupt
<1>3. reserved' \in [Requests -> SUBSET Calls] /\ \A r \in Requests : reserved'[r] \subseteq reserved[r]
  BY <1>2, GivenBackType DEF LTypeOK
<1>. HIDE DEF cs
<1>. QED BY <1>1, <1>2, <1>3 DEF GivesUp

LEMMA ReachableType ==
  ASSUME inbox \subseteq Agents \X Requests, awaited \subseteq Agents \X Requests, NEW turns
  PROVE  ReachableIn(turns) \in SUBSET Requests
BY DEF ReachableIn

LEMMA GateMoves ==
  ASSUME Inv, LTypeOK, TurnsNamed, [LNext]_all
  PROVE  [Next]_vars \/ GivesUp
<1>. USE DEF limits, totals, tokens, decided
<1>0. CASE UNCHANGED gate
  <2>1. UNCHANGED vars
    BY <1>0 DEF gate, vars
  <2>. QED BY <2>1
<1>1. ASSUME NEW a \in Agents, NEW r \in Requests, NEW setting \in LimitSettings, NewRequest(a, r, setting)
      PROVE  [Next]_vars \/ GivesUp
  <2>. DEFINE turns == [turn EXCEPT ![a] = [request |-> r, phase |-> "starting"]]
  <2>1. Begin(r, setting, ReachableIn(turns)) /\ ReachableIn(turns) \in SUBSET Requests
    BY <1>1, ReachableType DEF NewRequest, LTypeOK
  <2>2. Next
    BY <2>1 DEF Next
  <2>. QED BY <2>2
<1>2. ASSUME NEW a \in Agents, NEW c \in Calls, Ask(a, c) \/ AskSummary(a, c)
      PROVE  [Next]_vars \/ GivesUp
  <2>1. Next
    BY <1>2 DEF Ask, AskSummary, Boundary, Next
  <2>. QED BY <2>1
<1>3. ASSUME NEW a \in Agents, Send(a) \/ CompactFirst(a)
      PROVE  [Next]_vars \/ GivesUp
  <2>1. turn[a].request \in Requests /\ NoteProviderRequest(turn[a].request, a)
    BY <1>3 DEF Send, CompactFirst, TurnsNamed, Live
  <2>2. Next
    BY <2>1 DEF Next, Totals
  <2>. QED BY <2>2
<1>4. ASSUME NEW a \in Agents, SendSummary(a)
      PROVE  [Next]_vars \/ GivesUp
  <2>1. job[a].request \in Requests
    BY <1>4 DEF SendSummary, TurnsNamed
  <2>2. CASE NoteProviderRequest(job[a].request, a)
    <3>1. Next
      BY <2>1, <2>2 DEF Next, Totals
    <3>. QED BY <3>1
  <2>. QED BY <1>0, <1>4, <2>2 DEF SendSummary
<1>5. ASSUME NEW a \in Agents, EndTurn(a)
      PROVE  [Next]_vars \/ GivesUp
  <2>1. /\ reserved' = ReservedAfter({a}) /\ UNCHANGED disposed
        /\ UNCHANGED <<state, limits, counted, unreserved, tokens, decided, status>>
    BY <1>5 DEF EndTurn
  <2>2. reserved' \in [Requests -> SUBSET Calls] /\ \A r \in Requests : reserved'[r] \subseteq reserved[r]
    BY <2>1, GivenBackType DEF LTypeOK
  <2>3. prompts' \in [Requests -> SUBSET Nat]
    BY <2>1 DEF LTypeOK, TypeOK
  <2>. QED BY <2>1, <2>2, <2>3 DEF GivesUp
<1>6. ASSUME NEW a \in Agents, UserStop(a) \/ RefusalEndsTurn(a)
      PROVE  [Next]_vars \/ GivesUp
  <2>1. Interrupt({}, {a}) /\ UNCHANGED prompts
    BY <1>6 DEF UserStop, RefusalEndsTurn
  <2>2. prompts' \in [Requests -> SUBSET Nat]
    BY <2>1 DEF Inv, TypeOK
  <2>. QED BY <2>1, <2>2, InterruptGate, {} \in SUBSET {r \in Requests : Tracked(r)}, {a} \in SUBSET Agents
<1>7. ASSUME NEW a \in Agents, EndSummary(a)
      PROVE  [Next]_vars \/ GivesUp
  <2>1. /\ Refused({}, {job[a].call}) /\ UNCHANGED <<reserved, prompts, disposed>>
        /\ reserved' \in [Requests -> SUBSET Calls] /\ prompts' \in [Requests -> SUBSET Nat]
        /\ {} \in SUBSET {r \in Requests : Tracked(r)}
    BY <1>7 DEF EndSummary, Inv, TypeOK
  <2>2. job[a].call \in Calls \union {NoCall}
    BY DEF LTypeOK
  <2>. QED BY <2>1, <2>2 DEF GivesUp, Inv, TypeOK
<1>8. ASSUME NEW r \in Requests, StopByAnswer(r) \/ StopByTimer(r)
      PROVE  [Next]_vars \/ GivesUp
  <2>1. Tracked(r)
    BY <1>8 DEF StopByAnswer, StopByTimer, Inv, Line, HeldBehindDecision, Tracked, TrackedStates
  <2>2. Interrupt({r}, LiveTurnsOf(r)) /\ prompts' \in [Requests -> SUBSET Nat]
    BY <1>8, ZenonT(30) DEF StopByAnswer, StopByTimer, Inv, TypeOK
  <2>3. {r} \in SUBSET {q \in Requests : Tracked(q)}
    BY <2>1
  <2>4. LiveTurnsOf(r) \in SUBSET Agents
    BY DEF LiveTurnsOf
  <2>. QED BY <2>2, <2>3, <2>4, InterruptGate
<1>9. ASSUME NEW r \in Requests, Answered(r) \/ LateAnswer(r)
      PROVE  [Next]_vars \/ GivesUp
  <2>1. Next
    BY <1>9 DEF Answered, LateAnswer, Answers, Next
  <2>. QED BY <2>1
<1>10. ASSUME NEW a \in Agents,
              \/ \E r \in Requests : ContinueRequest(a, r) \/ Wake(a, r) \/ DropAwaited(a, r)
              \/ StartUnlimited(a) \/ Proceed(a) \/ Act(a)
              \/ \E b \in Agents : Dispatch(a, b)
              \/ StartSummary(a) \/ SummaryUnasked(a) \/ SummaryProceeds(a)
       PROVE  [Next]_vars \/ GivesUp
  <2>1. UNCHANGED gate
    BY <1>10 DEF ContinueRequest, Wake, DropAwaited, StartUnlimited, Proceed, Act, Dispatch, StartSummary,
                 SummaryUnasked, SummaryProceeds
  <2>. QED BY <1>0, <2>1
<1>11. CASE UNCHANGED all
  BY <1>0, <1>11 DEF all
<1>. QED
  BY <1>1, <1>2, <1>3, <1>4, <1>5, <1>6, <1>7, <1>8, <1>9, <1>10, <1>11
  DEF LNext, TurnStep, SummaryStep, DecisionStep

LEMMA GateStep ==
  ASSUME Inv, LTypeOK, TurnsNamed, [LNext]_all
  PROVE  Inv'
<1>1. CASE [Next]_vars
  BY <1>1, NextGate
<1>2. CASE GivesUp
  <2>1. ASSUME NEW stopping \in SUBSET {r \in Requests : Tracked(r)}, NEW cs, Refused(stopping, cs)
        PROVE  Inv'
    BY <1>2, <2>1, RefusedGate DEF GivesUp
  <2>2. CASE UNCHANGED <<state, limits, counted, unreserved, tokens, decided, status>>
    BY <1>2, <2>2, GivenBackGate DEF GivesUp
  <2>. QED BY <1>2, <2>1, <2>2 DEF GivesUp
<1>. QED BY <1>1, <1>2, GateMoves

-----------------------------------------------------------------------------
(* Types of the turns.                                                     *)

Phases == {"idle", "starting", "asked", "crossed", "acting", "running"}
JobPhases == {"none", "ready", "asked", "crossed"}
TurnRows == [request : Requests \union {NoRequest}, phase : Phases]
JobRows == [request : Requests \union {NoRequest}, call : Calls \union {NoCall}, phase : JobPhases]

\* A row is called for exactly while it asks.
Matched(t, c, j) ==
  \A a \in Agents : ((c[a] # NoCall) <=> (t[a].phase = "asked")) /\ ((j[a].call # NoCall) <=> (j[a].phase = "asked"))

TeamTypes ==
  /\ turn \in [Agents -> TurnRows] /\ call \in [Agents -> Calls \union {NoCall}] /\ job \in [Agents -> JobRows]
  /\ inbox \subseteq Agents \X Requests /\ awaited \subseteq Agents \X Requests
  /\ summaries \in [Requests -> Nat]
  /\ Matched(turn, call, job)

LEMMA TeamTyped == (LTypeOK <=> TypeOK /\ TeamTypes) /\ (LTypeOK' <=> TypeOK' /\ TeamTypes')
BY DEF LTypeOK, TeamTypes, Matched, TurnRows, JobRows, Phases, JobPhases

LEMMA CallsTyped == NoCall \notin Calls /\ NoRequest \notin Requests /\ \A c \in Calls : c.request \in Requests /\ c.agent \in Agents
BY RoutesAssumption, CallsAssumption

\* A turn that goes on in another phase.
LEMMA TurnGoesOn ==
  ASSUME turn \in [Agents -> TurnRows], NEW a \in Agents, NEW p \in Phases,
         turn' = [turn EXCEPT ![a].phase = p]
  PROVE  /\ turn' \in [Agents -> TurnRows]
         /\ \A b \in Agents : /\ turn'[b].request = turn[b].request
                              /\ turn'[b].phase = IF b = a THEN p ELSE turn[b].phase
<1>1. turn[a] \in TurnRows
  OBVIOUS
<1>2. turn[a] = [request |-> turn[a].request, phase |-> turn[a].phase]
  BY <1>1 DEF TurnRows
<1>. DEFINE row == [turn[a] EXCEPT !.phase = p]
<1>3. row \in TurnRows /\ row.request = turn[a].request /\ row.phase = p
  BY <1>1 DEF TurnRows
<1>4. turn' = [turn EXCEPT ![a] = row]
  OBVIOUS
<1>. HIDE DEF row
<1>. QED BY <1>3, <1>4

\* A turn that starts.
LEMMA TurnStarts ==
  ASSUME turn \in [Agents -> TurnRows], NEW a \in Agents, NEW r \in Requests,
         turn' = [turn EXCEPT ![a] = [request |-> r, phase |-> "starting"]]
  PROVE  /\ turn' \in [Agents -> TurnRows]
         /\ \A b \in Agents : /\ turn'[b].request = IF b = a THEN r ELSE turn[b].request
                              /\ turn'[b].phase = IF b = a THEN "starting" ELSE turn[b].phase
<1>. DEFINE row == [request |-> r, phase |-> "starting"]
<1>1. row \in TurnRows /\ row.request = r /\ row.phase = "starting"
  BY DEF TurnRows, Phases
<1>2. turn' = [turn EXCEPT ![a] = row]
  OBVIOUS
<1>. HIDE DEF row
<1>. QED BY <1>1, <1>2

\* Turns that end.
LEMMA TurnsEnd ==
  ASSUME turn \in [Agents -> TurnRows], NEW ended, turn' = Ended(ended)
  PROVE  /\ turn' \in [Agents -> TurnRows]
         /\ \A b \in Agents : /\ turn'[b].request = turn[b].request
                              /\ turn'[b].phase = IF b \in ended THEN "idle" ELSE turn[b].phase
BY DEF Ended, Idle, TurnRows, Phases

\* A summary that goes on in another phase, and with another call.
LEMMA JobGoesOn ==
  ASSUME job \in [Agents -> JobRows], NEW a \in Agents, NEW p \in JobPhases,
         job' = [job EXCEPT ![a].phase = p]
  PROVE  /\ job' \in [Agents -> JobRows]
         /\ \A b \in Agents \ {a} : job'[b] = job[b]
         /\ job'[a].request = job[a].request /\ job'[a].phase = p /\ job'[a].call = job[a].call
<1>. DEFINE row == [job[a] EXCEPT !.phase = p]
<1>1. job[a] \in JobRows
  OBVIOUS
<1>2. row \in JobRows /\ row.request = job[a].request /\ row.phase = p /\ row.call = job[a].call
  BY <1>1 DEF JobRows
<1>3. job' = [job EXCEPT ![a] = row]
  OBVIOUS
<1>. HIDE DEF row
<1>. QED BY <1>2, <1>3

JobBecomes(a, p, c) == job' = [job EXCEPT ![a].phase = p, ![a].call = c]

LEMMA JobCalls ==
  ASSUME job \in [Agents -> JobRows], NEW a \in Agents, NEW p \in JobPhases, NEW c \in Calls \union {NoCall},
         JobBecomes(a, p, c)
  PROVE  /\ job' \in [Agents -> JobRows]
         /\ \A b \in Agents \ {a} : job'[b] = job[b]
         /\ job'[a].request = job[a].request /\ job'[a].phase = p /\ job'[a].call = c
<1>. DEFINE next == [job[a] EXCEPT !.phase = p]
            row == [next EXCEPT !.call = c]
<1>1. job[a] \in JobRows
  OBVIOUS
<1>2. next = [request |-> job[a].request, call |-> job[a].call, phase |-> p]
  BY <1>1 DEF JobRows
<1>. HIDE DEF next
<1>3. row = [request |-> job[a].request, call |-> c, phase |-> p]
  BY <1>2
<1>4. row \in JobRows /\ row.request = job[a].request /\ row.phase = p /\ row.call = c
  BY <1>1, <1>3 DEF JobRows
<1>5. job' = [job EXCEPT ![a] = row]
  BY DEF next, JobBecomes
<1>. HIDE DEF row
<1>. QED BY <1>4, <1>5

LEMMA InterruptTypes ==
  ASSUME LTypeOK, TypeOK', NEW stopping, NEW agents, Interrupt(stopping, agents)
  PROVE  LTypeOK'
<1>0. TeamTypes
  BY TeamTyped
<1>1. /\ turn' = Ended(agents)
      /\ call' = [a \in Agents |-> IF a \in agents THEN NoCall ELSE call[a]]
      /\ job' = [a \in Agents |-> IF a \in agents THEN NoJob ELSE job[a]]
      /\ UNCHANGED <<inbox, awaited, summaries>>
  BY DEF Interrupt
<1>2. /\ turn' \in [Agents -> TurnRows]
      /\ \A b \in Agents : turn'[b].phase = IF b \in agents THEN "idle" ELSE turn[b].phase
  BY <1>0, <1>1, TurnsEnd DEF TeamTypes
<1>3. call' \in [Agents -> Calls \union {NoCall}] /\ job' \in [Agents -> JobRows]
  BY <1>0, <1>1 DEF TeamTypes, NoJob, JobRows, JobPhases
<1>4. Matched(turn', call', job')
  BY <1>0, <1>1, <1>2 DEF TeamTypes, Matched, NoJob
<1>5. TeamTypes'
  BY <1>0, <1>1, <1>2, <1>3, <1>4 DEF TeamTypes, Matched
<1>. QED BY <1>5, TeamTyped

LEMMA LTypeStep ==
  ASSUME LTypeOK, TypeOK', TurnsNamed, [LNext]_all
  PROVE  LTypeOK'
<1>0. TeamTypes
  BY TeamTyped
<1>. SUFFICES ASSUME ~(\E stopping, agents : Interrupt(stopping, agents))
              PROVE  TeamTypes'
  BY TeamTyped, InterruptTypes
<1>a. turn \in [Agents -> TurnRows] /\ job \in [Agents -> JobRows]
  BY <1>0 DEF TeamTypes
<1>1. ASSUME NEW a \in Agents, NEW r \in Requests, NEW setting \in LimitSettings, NewRequest(a, r, setting)
      PROVE  TeamTypes'
  BY <1>0, <1>1, TurnStarts DEF NewRequest, Live, TeamTypes, Matched
<1>2. ASSUME NEW a \in Agents, NEW r \in Requests, ContinueRequest(a, r)
      PROVE  TeamTypes'
  BY <1>0, <1>2, TurnStarts DEF ContinueRequest, Live, TeamTypes, Matched
<1>3. ASSUME NEW a \in Agents, StartUnlimited(a) \/ Send(a) \/ CompactFirst(a) \/ Act(a)
      PROVE  TeamTypes'
  <2>1. PICK p \in Phases \ {"asked"} : turn' = [turn EXCEPT ![a].phase = p]
    BY <1>3 DEF StartUnlimited, Send, CompactFirst, Act, Phases
  <2>2. turn[a].phase # "asked" /\ UNCHANGED <<call, job, inbox, awaited, summaries>>
    BY <1>3 DEF StartUnlimited, Send, CompactFirst, Act
  <2>3. /\ turn' \in [Agents -> TurnRows]
        /\ \A b \in Agents : turn'[b].phase = IF b = a THEN p ELSE turn[b].phase
    BY <1>a, <2>1, TurnGoesOn
  <2>. QED BY <1>0, <2>2, <2>3 DEF TeamTypes, Matched
<1>4. ASSUME NEW a \in Agents, NEW c \in Calls, Ask(a, c)
      PROVE  TeamTypes'
  <2>1. turn' = [turn EXCEPT ![a].phase = "asked"] /\ "asked" \in Phases
    BY <1>4 DEF Ask, Phases
  <2>2. call' = [call EXCEPT ![a] = c] /\ UNCHANGED <<job, inbox, awaited, summaries>>
    BY <1>4 DEF Ask
  <2>3. /\ turn' \in [Agents -> TurnRows]
        /\ \A b \in Agents : turn'[b].phase = IF b = a THEN "asked" ELSE turn[b].phase
    BY <1>a, <2>1, TurnGoesOn
  <2>. QED BY <1>0, <2>2, <2>3, CallsTyped DEF TeamTypes, Matched
<1>5. ASSUME NEW a \in Agents, Proceed(a)
      PROVE  TeamTypes'
  <2>1. /\ call' = [call EXCEPT ![a] = NoCall] /\ UNCHANGED <<job, inbox, awaited, summaries>>
        /\ turn[a].phase = "asked"
    BY <1>5 DEF Proceed
  <2>2. PICK p \in Phases \ {"asked"} : turn' = [turn EXCEPT ![a].phase = p]
    <3>. DEFINE p == CASE call[a].reserves -> "crossed" [] call[a].kind = "effect" -> "acting" [] OTHER -> "running"
    <3>1. turn' = [turn EXCEPT ![a].phase = p]
      BY <1>5 DEF Proceed
    <3>2. p \in Phases \ {"asked"}
      BY DEF Phases
    <3>. QED BY <3>1, <3>2
  <2>3. /\ turn' \in [Agents -> TurnRows]
        /\ \A b \in Agents : turn'[b].phase = IF b = a THEN p ELSE turn[b].phase
    BY <1>a, <2>2, TurnGoesOn
  <2>. QED BY <1>0, <2>1, <2>3 DEF TeamTypes, Matched
<1>6. ASSUME NEW a \in Agents, NEW b \in Agents, Dispatch(a, b)
      PROVE  TeamTypes'
  <2>1. turn' = [turn EXCEPT ![a].phase = "running"] /\ "running" \in Phases
    BY <1>0, <1>6 DEF Dispatch, Phases, TeamTypes
  <2>2. inbox' \subseteq Agents \X Requests /\ awaited' \subseteq Agents \X Requests
    BY <1>0, <1>6 DEF Dispatch, TurnsNamed, Live, TeamTypes
  <2>3. /\ turn' \in [Agents -> TurnRows]
        /\ \A d \in Agents : turn'[d].phase = IF d = a THEN "running" ELSE turn[d].phase
    BY <1>a, <2>1, TurnGoesOn
  <2>4. turn[a].phase = "acting" /\ UNCHANGED <<call, job, summaries>>
    BY <1>0, <1>6 DEF Dispatch, TeamTypes
  <2>. QED BY <1>0, <2>2, <2>3, <2>4 DEF TeamTypes, Matched
<1>7. ASSUME NEW a \in Agents, NEW r \in Requests, Wake(a, r) \/ DropAwaited(a, r)
      PROVE  TeamTypes'
  <2>1. UNCHANGED <<turn, call, job, summaries>>
    BY <1>0, <1>7 DEF Wake, DropAwaited, TeamTypes
  <2>2. inbox' \subseteq Agents \X Requests /\ awaited' \subseteq Agents \X Requests
    BY <1>0, <1>7 DEF Wake, DropAwaited, TeamTypes
  <2>. QED BY <1>0, <2>1, <2>2 DEF TeamTypes, Matched
<1>8. ASSUME NEW a \in Agents, EndTurn(a)
      PROVE  TeamTypes'
  <2>1. turn' = Ended({a}) /\ turn[a].phase # "asked" /\ UNCHANGED <<call, job, inbox, awaited, summaries>>
    BY <1>8 DEF EndTurn
  <2>2. /\ turn' \in [Agents -> TurnRows]
        /\ \A b \in Agents : turn'[b].phase = IF b \in {a} THEN "idle" ELSE turn[b].phase
    BY <1>a, <2>1, TurnsEnd
  <2>. QED BY <1>0, <2>1, <2>2 DEF TeamTypes, Matched
<1>9. ASSUME NEW a \in Agents, StartSummary(a)
      PROVE  TeamTypes'
  <2>1. /\ job' = [job EXCEPT ![a] = [request |-> turn[a].request, phase |-> "ready", call |-> NoCall]]
        /\ UNCHANGED <<turn, call, inbox, awaited, summaries>>
    BY <1>9 DEF StartSummary
  <2>2. [request |-> turn[a].request, phase |-> "ready", call |-> NoCall] \in JobRows
    BY <1>a DEF JobRows, JobPhases, TurnRows
  <2>. QED BY <1>0, <2>1, <2>2 DEF TeamTypes, Matched
<1>10. ASSUME NEW a \in Agents, NEW c \in Calls, AskSummary(a, c)
       PROVE  TeamTypes'
  <2>1. JobBecomes(a, "asked", c) /\ "asked" \in JobPhases
    BY <1>10 DEF AskSummary, JobPhases, JobBecomes
  <2>2. /\ job' \in [Agents -> JobRows] /\ \A b \in Agents \ {a} : job'[b] = job[b]
        /\ job'[a].phase = "asked" /\ job'[a].call = c
    BY <1>a, <2>1, c \in Calls \union {NoCall}, JobCalls
  <2>3. UNCHANGED <<turn, call, inbox, awaited, summaries>>
    BY <1>10 DEF AskSummary
  <2>. QED BY <1>0, <2>2, <2>3, CallsTyped DEF TeamTypes, Matched
<1>11. ASSUME NEW a \in Agents, SummaryUnasked(a) \/ SendSummary(a)
       PROVE  TeamTypes'
  <2>1. job[a].phase # "asked" /\ UNCHANGED <<turn, call, inbox, awaited>>
    BY <1>0, <1>11 DEF SummaryUnasked, SendSummary, TeamTypes
  <2>2. summaries' \in [Requests -> Nat]
    BY <1>0, <1>11 DEF SummaryUnasked, SendSummary, TeamTypes
  <2>3. PICK p \in {"crossed", "ready"} : job' = [job EXCEPT ![a].phase = p]
    BY <1>0, <1>11 DEF SummaryUnasked, SendSummary, TeamTypes
  <2>4. job[a].call = NoCall /\ p \in JobPhases
    BY <1>0, <2>1 DEF TeamTypes, Matched, JobPhases
  <2>5. /\ job' \in [Agents -> JobRows] /\ \A b \in Agents \ {a} : job'[b] = job[b]
        /\ job'[a].phase = p /\ job'[a].call = NoCall
    BY <1>a, <2>3, <2>4, JobGoesOn
  <2>. QED BY <1>0, <2>1, <2>2, <2>5 DEF TeamTypes, Matched
<1>12. ASSUME NEW a \in Agents, SummaryProceeds(a)
       PROVE  TeamTypes'
  <2>1. JobBecomes(a, "crossed", NoCall) /\ "crossed" \in JobPhases
    BY <1>12 DEF SummaryProceeds, JobPhases, JobBecomes
  <2>2. /\ job' \in [Agents -> JobRows] /\ \A b \in Agents \ {a} : job'[b] = job[b]
        /\ job'[a].phase = "crossed" /\ job'[a].call = NoCall
    BY <1>a, <2>1, NoCall \in Calls \union {NoCall}, JobCalls
  <2>3. UNCHANGED <<turn, call, inbox, awaited, summaries>>
    BY <1>12 DEF SummaryProceeds
  <2>. QED BY <1>0, <2>2, <2>3 DEF TeamTypes, Matched
<1>13. ASSUME NEW a \in Agents, EndSummary(a)
       PROVE  TeamTypes'
  <2>1. job' = [job EXCEPT ![a] = NoJob] /\ UNCHANGED <<turn, call, inbox, awaited, summaries>>
    BY <1>13 DEF EndSummary
  <2>2. NoJob \in JobRows /\ NoJob.call = NoCall /\ NoJob.phase = "none"
    BY DEF NoJob, JobRows, JobPhases
  <2>. QED BY <1>0, <2>1, <2>2 DEF TeamTypes, Matched
<1>14. ASSUME NEW r \in Requests, Answered(r) \/ LateAnswer(r)
       PROVE  TeamTypes'
  BY <1>0, <1>14 DEF Answered, LateAnswer, team, TeamTypes, Matched
<1>15. CASE UNCHANGED all
  BY <1>0, <1>15 DEF all, team, TeamTypes, Matched
<1>. QED
  BY <1>1, <1>2, <1>3, <1>4, <1>5, <1>6, <1>7, <1>8, <1>9, <1>10, <1>11, <1>12, <1>13, <1>14, <1>15
  DEF LNext, TurnStep, SummaryStep, DecisionStep, UserStop, RefusalEndsTurn, StopByAnswer, StopByTimer

-----------------------------------------------------------------------------
(* What the steps do to the turns, row by row.                             *)

Steady(b) == turn'[b].request = turn[b].request /\ turn'[b].phase = turn[b].phase

\* A turn starts under a request.
LEMMA StartEffect ==
  ASSUME TeamTypes, NEW a \in Agents, NEW r \in Requests,
         (\E setting \in LimitSettings : NewRequest(a, r, setting)) \/ ContinueRequest(a, r)
  PROVE  /\ turn[a].phase = "idle" /\ turn'[a].request = r /\ turn'[a].phase = "starting"
         /\ \A b \in Agents \ {a} : Steady(b)
         /\ UNCHANGED <<call, job, awaited, summaries>> /\ inbox' \subseteq inbox
<1>1. /\ turn' = [turn EXCEPT ![a] = [request |-> r, phase |-> "starting"]]
      /\ turn[a].phase = "idle" /\ UNCHANGED <<call, job, awaited, summaries>> /\ inbox' \subseteq inbox
  BY DEF NewRequest, ContinueRequest, Live
<1>2. turn \in [Agents -> TurnRows]
  BY DEF TeamTypes
<1>. QED BY <1>1, <1>2, TurnStarts DEF Steady

\* A live turn goes on.
Goes(a, p) ==
  /\ turn[a].phase # "idle" /\ p # "idle" /\ turn'[a].request = turn[a].request /\ turn'[a].phase = p
  /\ \A b \in Agents \ {a} : Steady(b)
  /\ UNCHANGED <<job, summaries>>

LEMMA GoesOn ==
  ASSUME TeamTypes, NEW a \in Agents, NEW p \in Phases \ {"idle"}, turn[a].phase # "idle",
         turn' = [turn EXCEPT ![a].phase = p], UNCHANGED <<job, summaries>>
  PROVE  Goes(a, p)
<1>1. turn \in [Agents -> TurnRows]
  BY DEF TeamTypes
<1>2. \A b \in Agents : /\ turn'[b].request = turn[b].request
                        /\ turn'[b].phase = IF b = a THEN p ELSE turn[b].phase
  BY <1>1, TurnGoesOn
<1>. QED BY <1>2 DEF Goes, Steady

LEMMA StartUnlimitedEffect ==
  ASSUME TeamTypes, NEW a \in Agents, StartUnlimited(a)
  PROVE  /\ Goes(a, "running") /\ turn[a].phase = "starting" /\ ~Tracked(turn[a].request)
         /\ UNCHANGED <<gate, call, inbox, awaited>>
BY GoesOn DEF StartUnlimited, Phases

LEMMA AskEffect ==
  ASSUME TeamTypes, NEW a \in Agents, NEW c \in Calls, Ask(a, c)
  PROVE  /\ Goes(a, "asked") /\ turn[a].phase \in {"starting", "running"}
         /\ call[a] = NoCall /\ call'[a] = c /\ \A b \in Agents \ {a} : call'[b] = call[b]
         /\ c.agent = a /\ c.request = turn[a].request /\ Tracked(c.request) /\ Boundary(c)
         /\ turn[a].phase = "starting" => c.kind = "turn-start"
         /\ UNCHANGED <<inbox, awaited>>
<1>1. Goes(a, "asked")
  BY GoesOn DEF Ask, Phases
<1>2. /\ turn[a].phase \in {"starting", "running"}
      /\ call' = [call EXCEPT ![a] = c]
      /\ c.agent = a /\ c.request = turn[a].request /\ Tracked(c.request) /\ Boundary(c)
      /\ turn[a].phase = "starting" => c.kind = "turn-start"
      /\ UNCHANGED <<inbox, awaited>>
  BY DEF Ask
<1>. QED BY <1>1, <1>2 DEF TeamTypes, Matched

LEMMA ProceedEffect ==
  ASSUME TeamTypes, NEW a \in Agents, Proceed(a)
  PROVE  /\ \E p \in {"crossed", "acting", "running"} : Goes(a, p) /\ (p = "crossed" <=> call[a].reserves)
         /\ turn[a].phase = "asked" /\ status[call[a]] = "proceed"
         /\ call'[a] = NoCall /\ \A b \in Agents \ {a} : call'[b] = call[b]
         /\ UNCHANGED <<gate, inbox, awaited>>
<1>1. /\ turn[a].phase = "asked" /\ status[call[a]] = "proceed" /\ call' = [call EXCEPT ![a] = NoCall]
      /\ UNCHANGED <<gate, job, inbox, awaited, summaries>>
  BY DEF Proceed
<1>. DEFINE p == CASE call[a].reserves -> "crossed" [] call[a].kind = "effect" -> "acting" [] OTHER -> "running"
<1>2. turn' = [turn EXCEPT ![a].phase = p]
  BY DEF Proceed
<1>3. p \in {"crossed", "acting", "running"} /\ (p = "crossed" <=> call[a].reserves)
  <2>1. call[a] \in Calls
    BY <1>1 DEF TeamTypes, Matched
  <2>2. call[a].kind = "effect" => ~call[a].reserves
    BY <2>1, KindsAssumption
  <2>3. CASE call[a].reserves
    <3>1. call[a].kind # "effect"
      BY <2>2, <2>3
    <3>. QED BY <2>3, <3>1
  <2>4. CASE ~call[a].reserves
    BY <2>4
  <2>. QED BY <2>3, <2>4
<1>5. p \in Phases \ {"idle"}
  BY <1>3 DEF Phases
<1>. HIDE DEF p
<1>4. Goes(a, p)
  BY <1>1, <1>2, <1>5, GoesOn
<1>. QED BY <1>1, <1>3, <1>4 DEF TeamTypes

LEMMA SendEffect ==
  ASSUME TeamTypes, NEW a \in Agents, Send(a) \/ CompactFirst(a)
  PROVE  /\ \E p \in {"running", "starting"} : Goes(a, p)
         /\ turn[a].phase = "crossed" /\ NoteProviderRequest(turn[a].request, a)
         /\ UNCHANGED <<call, inbox, awaited>>
<1>1. /\ turn[a].phase = "crossed" /\ NoteProviderRequest(turn[a].request, a)
      /\ UNCHANGED <<call, job, inbox, awaited, summaries>>
  BY DEF Send, CompactFirst
<1>2. PICK p \in {"running", "starting"} : turn' = [turn EXCEPT ![a].phase = p]
  BY DEF Send, CompactFirst
<1>3. p \in Phases \ {"idle"}
  BY DEF Phases
<1>4. Goes(a, p)
  BY <1>1, <1>2, <1>3, GoesOn
<1>. QED BY <1>1, <1>4

LEMMA ActEffect ==
  ASSUME TeamTypes, NEW a \in Agents, Act(a) \/ (\E b \in Agents : Dispatch(a, b))
  PROVE  /\ Goes(a, "running") /\ turn[a].phase = "acting" /\ UNCHANGED <<gate, call>>
         /\ \A m \in (inbox' \ inbox) \union (awaited' \ awaited) : m[2] = turn[a].request
<1>1. /\ turn' = [turn EXCEPT ![a].phase = "running"] /\ turn[a].phase = "acting" /\ "running" \in Phases \ {"idle"}
      /\ UNCHANGED <<job, summaries>>
  BY DEF Act, Dispatch, Phases
<1>2. Goes(a, "running")
  BY <1>1, GoesOn
<1>3. turn[a].phase = "acting" /\ UNCHANGED <<gate, call>>
  BY DEF Act, Dispatch
<1>4. \A m \in (inbox' \ inbox) \union (awaited' \ awaited) : m[2] = turn[a].request
  BY DEF Act, Dispatch
<1>. QED BY <1>2, <1>3, <1>4

\* Turns end, and give back what they reserved.
Ends(agents) ==
  /\ \A b \in Agents : /\ turn'[b].request = turn[b].request
                       /\ turn'[b].phase = IF b \in agents THEN "idle" ELSE turn[b].phase
  /\ reserved' = ReservedAfter(agents)
  /\ UNCHANGED <<inbox, awaited, summaries, disposed>>

LEMMA EndTurnEffect ==
  ASSUME TeamTypes, NEW a \in Agents, EndTurn(a)
  PROVE  /\ Ends({a}) /\ turn[a].phase = "running" /\ UNCHANGED <<call, job>>
         /\ UNCHANGED <<state, limits, counted, unreserved, held, status>>
<1>1. turn' = Ended({a}) /\ turn \in [Agents -> TurnRows]
  BY DEF EndTurn, TeamTypes
<1>. QED BY <1>1, TurnsEnd DEF EndTurn, Ends, decided

LEMMA InterruptEffect ==
  ASSUME TeamTypes, NEW stopping, NEW agents, Interrupt(stopping, agents)
  PROVE  /\ Ends(agents)
         /\ Refused(stopping, {call[a] : a \in agents} \union {job[a].call : a \in agents})
         /\ \A b \in Agents : /\ call'[b] = IF b \in agents THEN NoCall ELSE call[b]
                              /\ job'[b] = IF b \in agents THEN NoJob ELSE job[b]
<1>1. turn' = Ended(agents) /\ turn \in [Agents -> TurnRows]
  BY DEF Interrupt, TeamTypes
<1>. QED BY <1>1, TurnsEnd DEF Interrupt, Ends

\* The step of a summary, whose row alone changes.
Prepares(a) == UNCHANGED <<turn, call, inbox, awaited>> /\ \A b \in Agents \ {a} : job'[b] = job[b]

LEMMA StartSummaryEffect ==
  ASSUME TeamTypes, NEW a \in Agents, StartSummary(a)
  PROVE  /\ Prepares(a) /\ a \in Summarisers /\ turn[a].phase = "running" /\ UNCHANGED <<gate, summaries>>
         /\ job'[a].request = turn[a].request /\ job'[a].phase = "ready" /\ job'[a].call = NoCall
         /\ job[a].call = NoCall
BY DEF StartSummary, Prepares, TeamTypes, NoJob

LEMMA AskSummaryEffect ==
  ASSUME TeamTypes, NEW a \in Agents, NEW c \in Calls, AskSummary(a, c)
  PROVE  /\ Prepares(a) /\ job[a].phase = "ready" /\ job[a].call = NoCall
         /\ job'[a].request = job[a].request /\ job'[a].phase = "asked" /\ job'[a].call = c
         /\ c.agent = a /\ Boundary(c) /\ UNCHANGED summaries
         /\ turn[a].phase # "idle" /\ c.request = turn[a].request /\ Tracked(c.request)
<1>1. /\ JobBecomes(a, "asked", c) /\ "asked" \in JobPhases
      /\ job \in [Agents -> JobRows] /\ c \in Calls \union {NoCall}
  BY DEF AskSummary, JobPhases, JobBecomes, TeamTypes
<1>2. /\ \A b \in Agents \ {a} : job'[b] = job[b]
      /\ job'[a].request = job[a].request /\ job'[a].phase = "asked" /\ job'[a].call = c
  BY <1>1, JobCalls
<1>3. /\ job[a].phase = "ready" /\ c.agent = a /\ Boundary(c) /\ UNCHANGED <<turn, call, inbox, awaited, summaries>>
      /\ turn[a].phase # "idle" /\ c.request = turn[a].request /\ Tracked(c.request)
  BY DEF AskSummary, Live
<1>4. job[a].call = NoCall
  BY <1>3 DEF TeamTypes, Matched
<1>. QED BY <1>2, <1>3, <1>4 DEF Prepares

LEMMA SummaryGoesOnEffect ==
  ASSUME TeamTypes, NEW a \in Agents, SummaryUnasked(a) \/ SendSummary(a)
  PROVE  /\ Prepares(a) /\ job[a].phase \in {"ready", "crossed"}
         /\ job'[a].request = job[a].request /\ job'[a].phase \in {"crossed", "ready"}
         /\ job'[a].call = NoCall /\ job[a].call = NoCall
<1>1. PICK p \in {"crossed", "ready"} : job' = [job EXCEPT ![a].phase = p]
  BY DEF SummaryUnasked, SendSummary
<1>2. p \in JobPhases /\ job \in [Agents -> JobRows]
  BY DEF JobPhases, TeamTypes
<1>3. /\ \A b \in Agents \ {a} : job'[b] = job[b]
      /\ job'[a].request = job[a].request /\ job'[a].phase = p /\ job'[a].call = job[a].call
  BY <1>1, <1>2, JobGoesOn
<1>4. job[a].phase \in {"ready", "crossed"} /\ UNCHANGED <<turn, call, inbox, awaited>>
  BY DEF SummaryUnasked, SendSummary
<1>5. job[a].call = NoCall
  BY <1>4 DEF TeamTypes, Matched
<1>. QED BY <1>3, <1>4, <1>5 DEF Prepares

LEMMA SummaryProceedsEffect ==
  ASSUME TeamTypes, NEW a \in Agents, SummaryProceeds(a)
  PROVE  /\ Prepares(a) /\ job[a].phase = "asked" /\ status[job[a].call] = "proceed" /\ UNCHANGED <<gate, summaries>>
         /\ job'[a].request = job[a].request /\ job'[a].phase = "crossed" /\ job'[a].call = NoCall
<1>1. /\ JobBecomes(a, "crossed", NoCall) /\ "crossed" \in JobPhases
      /\ job \in [Agents -> JobRows] /\ NoCall \in Calls \union {NoCall}
  BY DEF SummaryProceeds, JobPhases, JobBecomes, TeamTypes
<1>2. /\ \A b \in Agents \ {a} : job'[b] = job[b]
      /\ job'[a].request = job[a].request /\ job'[a].phase = "crossed" /\ job'[a].call = NoCall
  BY <1>1, JobCalls
<1>. QED BY <1>2 DEF SummaryProceeds, Prepares

LEMMA EndSummaryEffect ==
  ASSUME TeamTypes, NEW a \in Agents, EndSummary(a)
  PROVE  /\ Prepares(a) /\ job[a].phase # "none" /\ job'[a] = NoJob /\ UNCHANGED <<reserved, disposed, summaries>>
         /\ Refused({}, {job[a].call})
BY DEF EndSummary, Prepares, TeamTypes

-----------------------------------------------------------------------------
(* What the gate does for them, request by request and call by call.       *)

LEMMA BeginEffect ==
  ASSUME TypeOK, Counting, Begun, NEW r \in Requests, NEW setting \in LimitSettings, NEW reachable,
         Begin(r, setting, reachable)
  PROVE  /\ state[r] = "new" /\ state'[r] \in {"untracked", "open"} /\ reserved'[r] = {}
         /\ state'[r] = "untracked" => configured'[r] = [turns |-> 0, tokens |-> 0]
         /\ \A q \in Requests \ {r} :
              /\ configured'[q] = configured[q]
              /\ \/ state'[q] = state[q] /\ reserved'[q] = reserved[q]
                 \/ q \notin reachable /\ Tracked(q) /\ state'[q] = "untracked" /\ reserved'[q] = {}
         /\ UNCHANGED <<unreserved, held, status, disposed>>
<1>. USE DEF limits, totals, tokens, decided, TypeOK
<1>1. state[r] = "new" /\ reserved[r] = {} /\ configured[r] = [turns |-> 0, tokens |-> 0] /\ ~disposed
  BY DEF Begin, Counting, Begun
<1>2. CASE setting.turns = 0 /\ setting.tokens = 0
  BY <1>1, <1>2 DEF Begin
<1>3. CASE ~(setting.turns = 0 /\ setting.tokens = 0)
  <2>1. r \notin Forgotten(reachable)
    BY <1>1 DEF Forgotten, Forgettable, Tracked, TrackedStates
  <2>2. /\ state'[r] = "open" /\ reserved'[r] = {}
        /\ UNCHANGED <<unreserved, held, status, disposed>>
    BY <1>1, <1>3, <2>1 DEF Begin
  <2>3. ASSUME NEW q \in Requests \ {r}
        PROVE  /\ configured'[q] = configured[q]
               /\ \/ state'[q] = state[q] /\ reserved'[q] = reserved[q]
                  \/ q \notin reachable /\ Tracked(q) /\ state'[q] = "untracked" /\ reserved'[q] = {}
    <3>1. q \in Forgotten(reachable) => q \notin reachable /\ Tracked(q)
      BY DEF Forgotten, Forgettable
    <3>. QED BY <1>3, <3>1 DEF Begin
  <2>. QED BY <1>1, <2>2, <2>3
<1>. QED BY <1>2, <1>3

LEMMA BoundaryEffect ==
  ASSUME TypeOK, NEW c \in Calls, Tracked(c.request), Boundary(c)
  PROVE  /\ \A r \in Requests : held'[r] \subseteq held[r] \union (IF r = c.request THEN {c} ELSE {})
         /\ \A r \in Requests : /\ reserved'[r] \subseteq reserved[r] \union (IF r = c.request THEN {c} ELSE {})
                                /\ reserved[r] \subseteq reserved'[r]
         /\ \A d \in Calls \ {c} : status'[d] = status[d]
         /\ status[c] = "idle" /\ status'[c] # "idle"
         /\ state[c.request] = "stopped" => status'[c] = "stopped"
         /\ status'[c] = "proceed" /\ c.reserves => c \in reserved'[c.request]
         /\ \A r \in Requests : state'[r] = state[r] \/ (state[r] = "open" /\ state'[r] = "awaiting-decision")
         /\ UNCHANGED <<configured, unreserved, disposed>>
<1>. USE DEF limits, totals, tokens, decided, TypeOK
<1>0. c.request \in Requests
  BY CallsTyped
<1>1. CASE Cross(c)
  BY <1>0, <1>1 DEF Cross, Reserving
<1>2. CASE RefuseStopped(c)
  BY <1>0, <1>2 DEF RefuseStopped
<1>3. CASE Hold(c)
  <2>1. /\ status[c] = "idle" /\ status' = [status EXCEPT ![c] = "held"]
        /\ held' = [held EXCEPT ![c.request] = @ \union {c}]
        /\ UNCHANGED <<configured, reserved, unreserved, disposed>>
        /\ state[c.request] # "stopped"
    BY <1>3 DEF Hold, WouldHold
  <2>2. \A r \in Requests : state'[r] = state[r] \/ (state[r] = "open" /\ state'[r] = "awaiting-decision")
    BY <1>0, <1>3 DEF Hold, WouldHold, OpenDecision
  <2>. QED BY <1>0, <2>1, <2>2
<1>. QED BY <1>1, <1>2, <1>3 DEF Boundary

LEMMA NoteEffect ==
  ASSUME TypeOK, NEW r \in Requests, NEW a \in Agents, NoteProviderRequest(r, a)
  PROVE  /\ UNCHANGED <<state, configured, held, status, disposed>>
         /\ \A q \in Requests \ {r} : reserved'[q] = reserved[q] /\ unreserved'[q] = unreserved[q]
         /\ reserved'[r] \subseteq reserved[r]
         /\ \A c \in reserved[r] : c.agent # a => c \in reserved'[r]
         /\ \/ unreserved'[r] = unreserved[r] /\ \E c \in reserved[r] : c.agent = a
            \/ /\ unreserved'[r] = unreserved[r] + 1 /\ reserved'[r] = reserved[r]
               /\ ~(\E c \in reserved[r] : c.agent = a)
<1>. USE DEF limits, totals, tokens, decided, TypeOK
<1>1. CASE \E c \in {d \in reserved[r] : d.agent = a} :
             reserved' = [reserved EXCEPT ![r] = @ \ {c}] /\ UNCHANGED unreserved
  <2>1. PICK c \in reserved[r] : /\ c.agent = a /\ reserved' = [reserved EXCEPT ![r] = reserved[r] \ {c}]
                                 /\ UNCHANGED unreserved
    BY <1>1
  <2>. QED BY <2>1 DEF NoteProviderRequest
<1>2. CASE /\ {d \in reserved[r] : d.agent = a} = {} /\ UNCHANGED reserved
           /\ unreserved' = [unreserved EXCEPT ![r] = @ + 1]
  BY <1>2 DEF NoteProviderRequest
<1>. QED BY <1>1, <1>2 DEF NoteProviderRequest

LEMMA RefusedEffect ==
  ASSUME TypeOK, Line, NEW stopping \in SUBSET Requests, NEW cs, Refused(stopping, cs)
  PROVE  /\ \A r \in Requests : held'[r] \subseteq held[r] \ cs
         /\ \A r \in Requests : IF r \in stopping THEN state'[r] = "stopped"
                                ELSE state'[r] = state[r] \/ (state[r] = "awaiting-decision" /\ state'[r] = "open")
         /\ \A c \in Calls : status'[c] = status[c] \/ (status[c] = "held" /\ status'[c] = "stopped")
         /\ UNCHANGED <<configured, unreserved>>
<1>. DEFINE gone == UNION {held[r] \intersect (IF r \in stopping THEN Calls ELSE cs) : r \in Requests}
            over(r) == decision[r] # 0 /\ held[r] \subseteq gone
<1>1. /\ held' = [r \in Requests |-> held[r] \ gone]
      /\ status' = [c \in Calls |-> IF c \in gone THEN "stopped" ELSE status[c]]
      /\ state' = [r \in Requests |->
                     IF r \in stopping THEN "stopped" ELSE IF over(r) THEN "open" ELSE state[r]]
      /\ UNCHANGED <<configured, unreserved>>
  BY DEF Refused, Leave, limits
<1>2. \A r \in Requests : held[r] \subseteq Calls /\ held[r] \intersect cs \subseteq gone
  BY DEF TypeOK
<1>3. \A c \in gone : status[c] = "held"
  <2>1. \A r \in Requests : \A c \in held[r] : c.request = r /\ c \in Calls
    BY DEF TypeOK, Line, HeldBehindDecision
  <2>. QED BY <2>1 DEF Line, HeldBehindDecision
<1>4. \A r \in Requests : over(r) => state[r] = "awaiting-decision"
  BY DEF Line, HeldBehindDecision
<1>. HIDE DEF gone
<1>. QED BY <1>1, <1>2, <1>3, <1>4

LEMMA ContinueEffect ==
  ASSUME TypeOK, Line, NEW r \in Requests, AnswerContinue(r)
  PROVE  /\ \A q \in Requests : /\ held'[q] \subseteq held[q]
                                /\ reserved[q] \subseteq reserved'[q]
                                /\ reserved'[q] \subseteq reserved[q] \union held[q]
         /\ \A c \in Calls : \/ status'[c] = status[c]
                             \/ /\ status[c] = "held" /\ status'[c] = "proceed"
                                /\ c.reserves => c \in reserved'[c.request]
         /\ \A q \in Requests : \/ state'[q] = state[q]
                                \/ state[q] = "awaiting-decision" /\ state'[q] \in {"open", "awaiting-decision"}
         /\ UNCHANGED <<configured, unreserved, disposed>>
<1>1. PICK last \in held[r] : ContinueUpTo(r, last)
  BY DEF AnswerContinue
<1>. DEFINE crossing == ahead[last] \union {last}
<1>2. crossing \subseteq held[r] /\ held[r] \subseteq Calls
      /\ state[r] = "awaiting-decision" /\ \A c \in held[r] : c.request = r /\ status[c] = "held"
  <2>1. /\ ahead[last] \subseteq held[r] /\ held[r] \subseteq Calls /\ \A c \in held[r] : c.request = r
        /\ (state[r] = "awaiting-decision") <=> (decision[r] # 0)
        /\ (decision[r] # 0) <=> (held[r] # {})
    BY DEF Line, HeldBehindDecision, TypeOK
  <2>. QED BY <2>1 DEF Line, HeldBehindDecision
<1>3. /\ held' = [q \in Requests |-> held[q] \ crossing]
      /\ reserved' = [reserved EXCEPT ![r] = reserved[r] \union Reserving(crossing)]
      /\ status' = [c \in Calls |-> IF c \in crossing THEN "proceed" ELSE status[c]]
      /\ state' = [state EXCEPT ![r] = "open"] \/ state' = [state EXCEPT ![r] = "awaiting-decision"]
      /\ UNCHANGED <<configured, unreserved, disposed>>
  BY <1>1 DEF ContinueUpTo, Leave, Taken, OpenDecision, limits
<1>4. \A c \in crossing : c.reserves => c \in Reserving(crossing)
  BY DEF Reserving
<1>5. Reserving(crossing) \subseteq crossing
  BY DEF Reserving
<1>. HIDE DEF crossing
<1>. QED BY <1>2, <1>3, <1>4, <1>5 DEF TypeOK

-----------------------------------------------------------------------------
(* Every step of the turns, as what it does to the rows and to the part of *)
(* the gate that they see.                                                 *)

Seen == <<state, configured, reserved, unreserved, held, status, disposed>>

\* A turn starts under a request that begins or goes on.
StartsTurn(a, r) ==
  /\ turn[a].phase = "idle" /\ turn'[a].request = r /\ turn'[a].phase = "starting"
  /\ \A b \in Agents \ {a} : Steady(b)
  /\ UNCHANGED <<call, job, awaited, summaries>> /\ inbox' \subseteq inbox

Begins(r) ==
  /\ state[r] = "new" /\ state'[r] \in {"untracked", "open"} /\ reserved'[r] = {}
  /\ state'[r] = "untracked" => configured'[r] = [turns |-> 0, tokens |-> 0]
  /\ \A q \in Requests \ {r} :
       /\ configured'[q] = configured[q]
       /\ \/ state'[q] = state[q] /\ reserved'[q] = reserved[q]
          \/ /\ state'[q] = "untracked" /\ reserved'[q] = {}
             /\ \A b \in Agents : turn'[b].request # q /\ <<b, q>> \notin inbox \union awaited
  /\ UNCHANGED <<unreserved, held, status, disposed>>

\* A turn asks, crosses, sends, acts.
AsksGate(a, c) ==
  /\ Goes(a, "asked") /\ turn[a].phase \in {"starting", "running"}
  /\ call[a] = NoCall /\ call'[a] = c /\ \A b \in Agents \ {a} : call'[b] = call[b]
  /\ c.agent = a /\ c.request = turn[a].request
  /\ turn[a].phase = "starting" => c.kind = "turn-start"
  /\ UNCHANGED <<inbox, awaited>>

\* A call of the boundary: it is held, refused or crosses, and whoever owes a request has it reserved.
Called(c) ==
  /\ \A r \in Requests : held'[r] \subseteq held[r] \union (IF r = c.request THEN {c} ELSE {})
  /\ \A r \in Requests : /\ reserved'[r] \subseteq reserved[r] \union (IF r = c.request THEN {c} ELSE {})
                         /\ reserved[r] \subseteq reserved'[r]
  /\ \A d \in Calls \ {c} : status'[d] = status[d]
  /\ status[c] = "idle" /\ status'[c] # "idle"
  /\ state[c.request] = "stopped" => status'[c] = "stopped"
  /\ status'[c] = "proceed" /\ c.reserves => c \in reserved'[c.request]
  /\ \A r \in Requests : state'[r] = state[r] \/ (state[r] = "open" /\ state'[r] = "awaiting-decision")
  /\ UNCHANGED <<configured, unreserved, disposed>>

Crosses(a) ==
  /\ \E p \in {"crossed", "acting", "running"} : Goes(a, p) /\ (p = "crossed" <=> call[a].reserves)
  /\ turn[a].phase = "asked" /\ status[call[a]] = "proceed"
  /\ call'[a] = NoCall /\ \A b \in Agents \ {a} : call'[b] = call[b]
  /\ UNCHANGED <<Seen, inbox, awaited>>

Sends(a) ==
  /\ \E p \in {"running", "starting"} : Goes(a, p)
  /\ turn[a].phase = "crossed" /\ UNCHANGED <<call, inbox, awaited>>

\* A request of the agent is counted: what was reserved for it is used up, or it is counted beyond that.
Counted(r, a) ==
  /\ UNCHANGED <<state, configured, held, status, disposed>>
  /\ \A q \in Requests \ {r} : reserved'[q] = reserved[q] /\ unreserved'[q] = unreserved[q]
  /\ reserved'[r] \subseteq reserved[r]
  /\ \A c \in reserved[r] : c.agent # a => c \in reserved'[r]
  /\ \/ unreserved'[r] = unreserved[r] /\ \E c \in reserved[r] : c.agent = a
     \/ /\ unreserved'[r] = unreserved[r] + 1 /\ reserved'[r] = reserved[r]
        /\ ~(\E c \in reserved[r] : c.agent = a)

\* The turn runs on without the gate.
RunsOn(a) ==
  /\ Goes(a, "running") /\ UNCHANGED <<Seen, call>>
  /\ \/ turn[a].phase = "starting" /\ ~Tracked(turn[a].request)
     \/ turn[a].phase = "acting"
  /\ \A m \in (inbox' \ inbox) \union (awaited' \ awaited) : m[2] = turn[a].request

\* Messages alone change, and name no request that none named before.
Messages ==
  /\ UNCHANGED <<turn, call, job, summaries, Seen>>
  /\ inbox' \union awaited' \subseteq inbox \union awaited

\* Turns end, with all of the requests that are stopped.
EndsTurns(stopping, agents) ==
  /\ Ends(agents)
  /\ \A b \in Agents : /\ call'[b] = IF b \in agents THEN NoCall ELSE call[b]
                       /\ job'[b] = job[b] \/ (b \in agents /\ job'[b] = NoJob)
                       /\ turn[b].request \in stopping /\ Live(b) => b \in agents
  /\ \A r \in Requests : \A c \in held'[r] :
       c \in held[r] /\ \A a \in agents : c # call[a] /\ (job'[a] # job[a] => c # job[a].call)

\* Boundaries are refused.
Refuses(stopping) ==
  /\ \A r \in Requests : IF r \in stopping THEN state'[r] = "stopped"
                         ELSE state'[r] = state[r] \/ (state[r] = "awaiting-decision" /\ state'[r] = "open")
  /\ \A r \in stopping : state[r] = "awaiting-decision"
  /\ \A c \in Calls : status'[c] = status[c] \/ (status[c] = "held" /\ status'[c] = "stopped")
  /\ UNCHANGED <<configured, unreserved>>

\* A summary starts, crosses, asks, is counted, ends.
SummaryStarts(a) ==
  /\ Prepares(a) /\ a \in Summarisers /\ turn[a].phase = "running" /\ UNCHANGED <<Seen, summaries>>
  /\ job'[a].request = turn[a].request /\ job'[a].phase = "ready" /\ job'[a].call = NoCall
  /\ job[a].call = NoCall

SummaryAsks(a, c) ==
  /\ Prepares(a) /\ job[a].phase = "ready" /\ job[a].call = NoCall
  /\ job'[a].request = job[a].request /\ job'[a].phase = "asked" /\ job'[a].call = c
  /\ c.agent = a /\ UNCHANGED summaries

SummaryCrosses(a) ==
  /\ Prepares(a) /\ job[a].phase # "none" /\ (job[a].call = NoCall \/ status[job[a].call] = "proceed")
  /\ UNCHANGED <<Seen, summaries>>
  /\ job'[a].request = job[a].request /\ job'[a].phase # "none" /\ job'[a].call = NoCall

SummarySends(a) ==
  /\ Prepares(a) /\ job[a].phase = "crossed" /\ job[a].call = NoCall
  /\ job'[a].request = job[a].request /\ job'[a].phase = "ready" /\ job'[a].call = NoCall
  /\ \/ Counted(job[a].request, a) /\ summaries' = [summaries EXCEPT ![job[a].request] = @ + 1]
     \/ UNCHANGED <<Seen, summaries>>

SummaryEnds(a) ==
  /\ Prepares(a) /\ job[a].phase # "none" /\ job'[a] = NoJob /\ UNCHANGED <<reserved, disposed, summaries>>
  /\ \A r \in Requests : \A c \in held'[r] : c \in held[r] /\ c # job[a].call

\* The person lets the line of a request go on.
Continues ==
  /\ UNCHANGED team
  /\ \A q \in Requests : /\ held'[q] \subseteq held[q]
                         /\ reserved[q] \subseteq reserved'[q]
                         /\ reserved'[q] \subseteq reserved[q] \union held[q]
  /\ \A c \in Calls : \/ status'[c] = status[c]
                      \/ /\ status[c] = "held" /\ status'[c] = "proceed"
                         /\ c.reserves => c \in reserved'[c.request]
  /\ \A q \in Requests : \/ state'[q] = state[q]
                         \/ state[q] = "awaiting-decision" /\ state'[q] \in {"open", "awaiting-decision"}
  /\ UNCHANGED <<configured, unreserved, disposed>>

TurnEffects ==
  \/ \E a \in Agents, r \in Requests : StartsTurn(a, r) /\ (Begins(r) \/ (<<a, r>> \in inbox /\ UNCHANGED Seen))
  \/ \E a \in Agents, c \in Calls : AsksGate(a, c) /\ Called(c)
  \/ \E a \in Agents : Crosses(a) \/ (Sends(a) /\ Counted(turn[a].request, a)) \/ RunsOn(a)
  \/ Messages
  \/ \E stopping \in SUBSET Requests, agents \in SUBSET Agents : EndsTurns(stopping, agents) /\ Refuses(stopping)

SummaryEffects ==
  \/ \E a \in Agents : \/ SummaryStarts(a) \/ SummaryCrosses(a) \/ SummarySends(a)
                       \/ SummaryEnds(a) /\ Refuses({})
  \/ \E a \in Agents, c \in Calls : SummaryAsks(a, c) /\ Called(c)

\* The invariant that the effects are read under.
Ground == TypeOK /\ Line /\ Counting /\ Begun /\ TeamTypes /\ TurnsNamed

LEMMA InterruptsEffect ==
  ASSUME TypeOK, Line, TeamTypes, NEW stopping \in SUBSET Requests, NEW agents \in SUBSET Agents,
         \A r \in stopping : state[r] = "awaiting-decision",
         \A b \in Agents : turn[b].request \in stopping /\ Live(b) => b \in agents,
         Interrupt(stopping, agents)
  PROVE  EndsTurns(stopping, agents) /\ Refuses(stopping)
<1>. DEFINE cs == {call[a] : a \in agents} \union {job[a].call : a \in agents}
<1>1. /\ Ends(agents) /\ Refused(stopping, cs)
      /\ \A b \in Agents : /\ call'[b] = IF b \in agents THEN NoCall ELSE call[b]
                           /\ job'[b] = IF b \in agents THEN NoJob ELSE job[b]
  BY InterruptEffect
<1>2. \A a \in agents : call[a] \in cs /\ job[a].call \in cs
  OBVIOUS
<1>. HIDE DEF cs
<1>3. /\ \A r \in Requests : held'[r] \subseteq held[r] \ cs
      /\ Refuses(stopping)
  BY <1>1, RefusedEffect DEF Refuses
<1>4. EndsTurns(stopping, agents)
  BY <1>1, <1>2, <1>3 DEF EndsTurns
<1>. QED BY <1>3, <1>4

LEMMA TurnEffect ==
  ASSUME Ground, NEW a \in Agents, TurnStep(a)
  PROVE  TurnEffects
<1>. USE DEF Ground
<1>0. inbox \subseteq Agents \X Requests /\ awaited \subseteq Agents \X Requests
  BY DEF TeamTypes
<1>1. ASSUME NEW r \in Requests, NEW setting \in LimitSettings, NewRequest(a, r, setting)
      PROVE  TurnEffects
  <2>. DEFINE turns == [turn EXCEPT ![a] = [request |-> r, phase |-> "starting"]]
  <2>1. turn' = turns /\ Begin(r, setting, ReachableIn(turns))
    BY <1>1 DEF NewRequest
  <2>2. \A q \in Requests : q \notin ReachableIn(turn') =>
          \A b \in Agents : turn'[b].request # q /\ <<b, q>> \notin inbox \union awaited
    BY DEF ReachableIn
  <2>3. Begins(r)
    <3>. HIDE DEF turns
    <3>. QED BY <2>1, <2>2, BeginEffect DEF Begins
  <2>4. StartsTurn(a, r)
    BY <1>1, StartEffect DEF StartsTurn
  <2>. QED BY <2>3, <2>4 DEF TurnEffects
<1>2. ASSUME NEW r \in Requests, ContinueRequest(a, r)
      PROVE  TurnEffects
  <2>1. StartsTurn(a, r)
    BY <1>2, StartEffect DEF StartsTurn
  <2>2. <<a, r>> \in inbox /\ UNCHANGED Seen
    BY <1>2 DEF ContinueRequest, gate, limits, totals, decided, Seen
  <2>. QED BY <2>1, <2>2 DEF TurnEffects
<1>3. ASSUME NEW r \in Requests, Wake(a, r) \/ DropAwaited(a, r)
      PROVE  TurnEffects
  <2>1. Messages
    BY <1>3 DEF Wake, DropAwaited, Messages, gate, limits, totals, decided, Seen
  <2>. QED BY <2>1 DEF TurnEffects
<1>4. ASSUME StartUnlimited(a) \/ Act(a) \/ \E b \in Agents : Dispatch(a, b)
      PROVE  TurnEffects
  <2>1. RunsOn(a)
    BY <1>4, StartUnlimitedEffect, ActEffect DEF RunsOn, gate, limits, totals, decided, Seen
  <2>. QED BY <2>1 DEF TurnEffects
<1>5. ASSUME NEW c \in Calls, Ask(a, c)
      PROVE  TurnEffects
  <2>1. AsksGate(a, c) /\ Tracked(c.request) /\ Boundary(c)
    BY <1>5, AskEffect DEF AsksGate
  <2>2. Called(c)
    BY <2>1, BoundaryEffect DEF Called
  <2>. QED BY <2>1, <2>2 DEF TurnEffects
<1>6. ASSUME Proceed(a)
      PROVE  TurnEffects
  <2>1. Crosses(a)
    BY <1>6, ProceedEffect DEF Crosses, gate, limits, totals, decided, Seen
  <2>. QED BY <2>1 DEF TurnEffects
<1>7. ASSUME Send(a) \/ CompactFirst(a)
      PROVE  TurnEffects
  <2>1. Sends(a) /\ NoteProviderRequest(turn[a].request, a)
    BY <1>7, SendEffect DEF Sends
  <2>2. turn[a].request \in Requests
    BY <2>1 DEF Sends, TurnsNamed, Live
  <2>3. Counted(turn[a].request, a)
    BY <2>1, <2>2, NoteEffect DEF Counted
  <2>. QED BY <2>1, <2>3 DEF TurnEffects
<1>8. ASSUME EndTurn(a)
      PROVE  TurnEffects
  <2>1. /\ Ends({a}) /\ turn[a].phase = "running" /\ UNCHANGED <<call, job>>
        /\ UNCHANGED <<state, limits, counted, unreserved, held, status>>
    BY <1>8, EndTurnEffect
  <2>2. call[a] = NoCall
    BY <2>1 DEF TeamTypes, Matched
  <2>3. \A r \in Requests : NoCall \notin held[r]
    BY CallsTyped DEF TypeOK
  <2>4. EndsTurns({}, {a})
    BY <2>1, <2>2, <2>3 DEF EndsTurns
  <2>5. Refuses({})
    BY <2>1 DEF Refuses, limits
  <2>. QED BY <2>4, <2>5 DEF TurnEffects
<1>9. ASSUME UserStop(a) \/ RefusalEndsTurn(a)
      PROVE  TurnEffects
  <2>1. Interrupt({}, {a})
    BY <1>9 DEF UserStop, RefusalEndsTurn
  <2>2. EndsTurns({}, {a}) /\ Refuses({})
    BY <2>1, InterruptsEffect
  <2>. QED BY <2>2 DEF TurnEffects
<1>. QED BY <1>1, <1>2, <1>3, <1>4, <1>5, <1>6, <1>7, <1>8, <1>9 DEF TurnStep

LEMMA SummaryEffect ==
  ASSUME Ground, NEW a \in Agents, SummaryStep(a)
  PROVE  SummaryEffects
<1>. USE DEF Ground
<1>1. ASSUME StartSummary(a)
      PROVE  SummaryEffects
  <2>1. SummaryStarts(a)
    BY <1>1, StartSummaryEffect DEF SummaryStarts, gate, limits, totals, decided, Seen
  <2>. QED BY <2>1 DEF SummaryEffects
<1>2. ASSUME NEW c \in Calls, AskSummary(a, c)
      PROVE  SummaryEffects
  <2>1. SummaryAsks(a, c) /\ Tracked(c.request) /\ Boundary(c)
    BY <1>2, AskSummaryEffect DEF SummaryAsks
  <2>2. Called(c)
    BY <2>1, BoundaryEffect DEF Called
  <2>. QED BY <2>1, <2>2 DEF SummaryEffects
<1>3. ASSUME SummaryUnasked(a)
      PROVE  SummaryEffects
  <2>1. /\ Prepares(a) /\ job[a].phase \in {"ready", "crossed"}
        /\ job'[a].request = job[a].request /\ job'[a].phase \in {"crossed", "ready"}
        /\ job'[a].call = NoCall /\ job[a].call = NoCall
    BY <1>3, SummaryGoesOnEffect
  <2>2. UNCHANGED <<Seen, summaries>>
    BY <1>3 DEF SummaryUnasked, gate, limits, totals, decided, Seen
  <2>3. SummaryCrosses(a)
    BY <2>1, <2>2 DEF SummaryCrosses
  <2>. QED BY <2>3 DEF SummaryEffects
<1>4. ASSUME SummaryProceeds(a)
      PROVE  SummaryEffects
  <2>1. SummaryCrosses(a)
    BY <1>4, SummaryProceedsEffect DEF SummaryCrosses, gate, limits, totals, decided, Seen
  <2>. QED BY <2>1 DEF SummaryEffects
<1>5. ASSUME SendSummary(a)
      PROVE  SummaryEffects
  <2>1. /\ Prepares(a) /\ job'[a].request = job[a].request /\ job'[a].call = NoCall /\ job[a].call = NoCall
    BY <1>5, SummaryGoesOnEffect
  <2>2. job[a].phase = "crossed" /\ job[a].request \in Requests
    BY <1>5 DEF SendSummary, TurnsNamed
  <2>3. job'[a].phase = "ready"
    <3>1. job \in [Agents -> JobRows] /\ job' = [job EXCEPT ![a].phase = "ready"] /\ "ready" \in JobPhases
      BY <1>5 DEF SendSummary, TeamTypes, JobPhases
    <3>. QED BY <3>1, JobGoesOn
  <2>4. \/ /\ NoteProviderRequest(job[a].request, a)
           /\ summaries' = [summaries EXCEPT ![job[a].request] = @ + 1]
        \/ UNCHANGED <<Seen, summaries>>
    BY <1>5 DEF SendSummary, gate, limits, totals, decided, Seen
  <2>5. NoteProviderRequest(job[a].request, a) => Counted(job[a].request, a)
    BY <2>2, NoteEffect DEF Counted
  <2>6. SummarySends(a)
    BY <2>1, <2>2, <2>3, <2>4, <2>5 DEF SummarySends
  <2>. QED BY <2>6 DEF SummaryEffects
<1>6. ASSUME EndSummary(a)
      PROVE  SummaryEffects
  <2>1. /\ Prepares(a) /\ job[a].phase # "none" /\ job'[a] = NoJob /\ UNCHANGED <<reserved, disposed, summaries>>
        /\ Refused({}, {job[a].call})
    BY <1>6, EndSummaryEffect
  <2>2. /\ \A r \in Requests : held'[r] \subseteq held[r] \ {job[a].call}
        /\ Refuses({})
    <3>. DEFINE none == {}
    <3>1. none \in SUBSET Requests /\ Refused(none, {job[a].call})
      BY <2>1
    <3>. HIDE DEF none
    <3>2. /\ \A r \in Requests : held'[r] \subseteq held[r] \ {job[a].call}
          /\ \A r \in Requests : IF r \in none THEN state'[r] = "stopped"
                                 ELSE state'[r] = state[r] \/ (state[r] = "awaiting-decision" /\ state'[r] = "open")
          /\ \A c \in Calls : status'[c] = status[c] \/ (status[c] = "held" /\ status'[c] = "stopped")
          /\ UNCHANGED <<configured, unreserved>>
      BY <3>1, RefusedEffect
    <3>. QED BY <3>2 DEF none, Refuses
  <2>3. SummaryEnds(a)
    BY <2>1, <2>2 DEF SummaryEnds
  <2>. QED BY <2>2, <2>3 DEF SummaryEffects
<1>. QED BY <1>1, <1>2, <1>3, <1>4, <1>5, <1>6 DEF SummaryStep

\* Every step of the turns is one of these.
LEMMA EveryStep ==
  ASSUME Ground, [LNext]_all
  PROVE  TurnEffects \/ SummaryEffects \/ Continues
<1>1. ASSUME NEW r \in Requests, Answered(r)
      PROVE  Continues
  BY <1>1, ContinueEffect DEF Answered, Ground, Continues
<1>2. ASSUME NEW r \in Requests, LateAnswer(r)
      PROVE  TurnEffects
  <2>1. Messages
    BY <1>2 DEF LateAnswer, AnswerLate, team, limits, totals, Seen, Messages
  <2>. QED BY <2>1 DEF TurnEffects
<1>3. ASSUME NEW r \in Requests, StopByAnswer(r) \/ StopByTimer(r)
      PROVE  TurnEffects
  <2>1. Interrupt({r}, LiveTurnsOf(r)) /\ state[r] = "awaiting-decision" /\ LiveTurnsOf(r) \in SUBSET Agents
    BY <1>3 DEF StopByAnswer, StopByTimer, Ground, Line, HeldBehindDecision, LiveTurnsOf
  <2>2. \A b \in Agents : turn[b].request \in {r} /\ Live(b) => b \in LiveTurnsOf(r)
    BY DEF LiveTurnsOf
  <2>3. EndsTurns({r}, LiveTurnsOf(r)) /\ Refuses({r})
    BY <2>1, <2>2, InterruptsEffect DEF Ground
  <2>. QED BY <2>1, <2>3 DEF TurnEffects
<1>4. CASE UNCHANGED all
  <2>1. Messages
    BY <1>4 DEF all, gate, team, limits, totals, decided, Seen, Messages
  <2>. QED BY <2>1 DEF TurnEffects
<1>. QED BY <1>1, <1>2, <1>3, <1>4, TurnEffect, SummaryEffect DEF LNext, DecisionStep

-----------------------------------------------------------------------------
(* The parts of the invariant, kept by every step.                         *)

\* What a call's place in a line, or in a reservation, says of it.
LEMMA HeldCall ==
  ASSUME Ground, NEW r \in Requests, NEW c \in held[r]
  PROVE  c \in Calls /\ c.agent \in Agents /\ c.request = r /\ status[c] = "held"
BY CallsTyped DEF Ground, TypeOK, Line, HeldBehindDecision

\* A turn waits on a call of its own.
LEMMA OwnCall ==
  ASSUME Ground, NEW a \in Agents
  PROVE  /\ turn[a].phase = "asked" <=> call[a] # NoCall
         /\ turn[a].phase = "asked" => call[a] \in Calls /\ call[a].agent = a /\ call[a].request = turn[a].request
BY DEF Ground, TeamTypes, Matched, TurnsNamed

LEMMA NamedStep ==
  ASSUME Ground, TurnEffects \/ SummaryEffects \/ Continues
  PROVE  TurnsNamed'
<1>. USE DEF Ground, TurnsNamed, Live
<1>1. ASSUME NEW a \in Agents, NEW r \in Requests, StartsTurn(a, r)
      PROVE  TurnsNamed'
  <2>1. call[a] = NoCall
    BY <1>1, OwnCall DEF StartsTurn
  <2>. QED BY <1>1, <2>1 DEF StartsTurn, Steady
<1>2. ASSUME NEW a \in Agents, NEW c \in Calls, AsksGate(a, c)
      PROVE  TurnsNamed'
  BY <1>2 DEF AsksGate, Goes, Steady
<1>3. ASSUME NEW a \in Agents, Crosses(a) \/ Sends(a) \/ RunsOn(a)
      PROVE  TurnsNamed'
  <2>1. PICK p : Goes(a, p)
    BY <1>3 DEF Crosses, Sends, RunsOn
  <2>2. \A b \in Agents : call'[b] = call[b] \/ call'[b] = NoCall
    BY <1>3 DEF Crosses, Sends, RunsOn
  <2>. QED BY <2>1, <2>2 DEF Goes, Steady
<1>4. CASE Messages
  BY <1>4 DEF Messages
<1>5. ASSUME NEW stopping, NEW agents, EndsTurns(stopping, agents)
      PROVE  TurnsNamed'
  <2>1. \A b \in Agents : /\ turn'[b].request = turn[b].request
                          /\ turn'[b].phase = turn[b].phase \/ turn'[b].phase = "idle"
                          /\ call'[b] = call[b] \/ call'[b] = NoCall
                          /\ job'[b] = job[b] \/ job'[b] = NoJob
    BY <1>5 DEF EndsTurns, Ends
  <2>. QED BY <2>1 DEF NoJob
<1>6. ASSUME NEW a \in Agents, SummaryStarts(a) \/ SummaryCrosses(a) \/ SummarySends(a) \/ SummaryEnds(a)
      PROVE  TurnsNamed'
  BY <1>6 DEF SummaryStarts, SummaryCrosses, SummarySends, SummaryEnds, Prepares, NoJob
<1>7. ASSUME NEW a \in Agents, NEW c \in Calls, SummaryAsks(a, c)
      PROVE  TurnsNamed'
  BY <1>7 DEF SummaryAsks, Prepares, NoJob
<1>8. CASE Continues
  BY <1>8 DEF Continues, team
<1>. QED BY <1>1, <1>2, <1>3, <1>4, <1>5, <1>6, <1>7, <1>8 DEF TurnEffects, SummaryEffects

LEMMA WaitingStep ==
  ASSUME Ground, Waiting, TurnEffects \/ SummaryEffects \/ Continues
  PROVE  Waiting'
<1>. USE DEF Waiting
<1>. SUFFICES ASSUME NEW r \in Requests, NEW c \in held'[r]
              PROVE  call'[c.agent] = c \/ job'[c.agent].call = c
  OBVIOUS
<1>0. c \in held[r] => c \in Calls /\ c.agent \in Agents /\ status[c] = "held" /\ (call[c.agent] = c \/ job[c.agent].call = c)
  BY HeldCall
<1>1. ASSUME NEW a \in Agents, NEW q \in Requests, StartsTurn(a, q), Begins(q) \/ UNCHANGED Seen
      PROVE  call'[c.agent] = c \/ job'[c.agent].call = c
  BY <1>0, <1>1 DEF StartsTurn, Begins, Seen
<1>2. ASSUME NEW a \in Agents, NEW d \in Calls, AsksGate(a, d), Called(d)
      PROVE  call'[c.agent] = c \/ job'[c.agent].call = c
  <2>1. c = d \/ c \in held[r]
    BY <1>2 DEF Called
  <2>2. NoCall # c
    BY <1>0, <2>1, CallsTyped
  <2>. QED BY <1>0, <1>2, <2>1, <2>2 DEF AsksGate, Goes
<1>3. ASSUME NEW a \in Agents, Crosses(a) \/ (Sends(a) /\ Counted(turn[a].request, a)) \/ RunsOn(a)
      PROVE  call'[c.agent] = c \/ job'[c.agent].call = c
  <2>1. c \in held[r] /\ UNCHANGED job
    BY <1>3 DEF Crosses, Sends, Counted, RunsOn, Goes, Seen
  <2>2. \A b \in Agents : call'[b] = call[b] \/ status[call[b]] = "proceed"
    BY <1>3 DEF Crosses, Sends, RunsOn
  <2>. QED BY <1>0, <2>1, <2>2
<1>4. CASE Messages
  BY <1>0, <1>4 DEF Messages, Seen
<1>5. ASSUME NEW stopping, NEW agents, EndsTurns(stopping, agents)
      PROVE  call'[c.agent] = c \/ job'[c.agent].call = c
  BY <1>0, <1>5 DEF EndsTurns
<1>6. ASSUME NEW a \in Agents, SummaryStarts(a) \/ SummaryCrosses(a) \/ SummarySends(a)
      PROVE  call'[c.agent] = c \/ job'[c.agent].call = c
  <2>1. c \in held[r] /\ UNCHANGED call
    BY <1>6 DEF SummaryStarts, SummaryCrosses, SummarySends, Counted, Prepares, Seen
  <2>2. \A b \in Agents : job'[b].call = job[b].call \/ job[b].call = NoCall \/ status[job[b].call] = "proceed"
    BY <1>6 DEF SummaryStarts, SummaryCrosses, SummarySends, Prepares
  <2>. QED BY <1>0, <2>1, <2>2, CallsTyped
<1>7. ASSUME NEW a \in Agents, SummaryEnds(a)
      PROVE  call'[c.agent] = c \/ job'[c.agent].call = c
  BY <1>0, <1>7 DEF SummaryEnds, Prepares
<1>8. ASSUME NEW a \in Agents, NEW d \in Calls, SummaryAsks(a, d), Called(d)
      PROVE  call'[c.agent] = c \/ job'[c.agent].call = c
  <2>1. c = d \/ c \in held[r]
    BY <1>8 DEF Called
  <2>. QED BY <1>0, <1>8, <2>1, CallsTyped DEF SummaryAsks, Prepares
<1>9. CASE Continues
  BY <1>0, <1>9 DEF Continues, team
<1>. QED BY <1>1, <1>2, <1>3, <1>4, <1>5, <1>6, <1>7, <1>8, <1>9 DEF TurnEffects, SummaryEffects

LEMMA BegunStep ==
  ASSUME Ground, TurnEffects \/ SummaryEffects \/ Continues
  PROVE  Begun'
<1>. USE DEF Ground, Begun
<1>1. /\ \A r \in Requests : state'[r] = "new" => state[r] = "new" /\ configured'[r] = configured[r]
      /\ UNCHANGED disposed
  BY DEF TurnEffects, SummaryEffects, Continues, Begins, Called, Crosses, Counted, RunsOn, Messages, EndsTurns, Ends,
         Refuses, SummaryStarts, SummaryCrosses, SummarySends, SummaryEnds, Seen
<1>. QED BY <1>1

LEMMA ReservationStep ==
  ASSUME Ground, Waiting, ReservationHasTurn, TurnEffects \/ SummaryEffects \/ Continues
  PROVE  ReservationHasTurn'
<1>. USE DEF ReservationHasTurn, Live
<1>. SUFFICES ASSUME NEW r \in Requests, NEW c \in reserved'[r], c.agent \notin Summarisers
              PROVE  turn'[c.agent].phase # "idle" /\ turn'[c.agent].request = r
  OBVIOUS
<1>. DEFINE Kept == turn'[c.agent].phase # "idle" /\ turn'[c.agent].request = r
<1>0. c \in reserved[r] => /\ c.agent \in Agents /\ turn[c.agent].phase # "idle" /\ turn[c.agent].request = r
  BY CallsTyped DEF Ground, TypeOK
<1>1. ASSUME NEW a \in Agents, NEW q \in Requests, StartsTurn(a, q), Begins(q) \/ UNCHANGED Seen
      PROVE  Kept
  BY <1>0, <1>1 DEF StartsTurn, Begins, Steady, Seen
<1>2. ASSUME NEW a \in Agents, NEW d \in Calls, AsksGate(a, d), Called(d)
      PROVE  Kept
  <2>1. c \in reserved[r] \/ (c = d /\ r = d.request)
    BY <1>2 DEF Called
  <2>. QED BY <1>0, <1>2, <2>1 DEF AsksGate, Goes, Steady
<1>3. ASSUME NEW a \in Agents, Crosses(a) \/ (Sends(a) /\ Counted(turn[a].request, a)) \/ RunsOn(a)
      PROVE  Kept
  <2>1. c \in reserved[r]
    BY <1>3 DEF Crosses, Counted, RunsOn, Seen
  <2>2. PICK p : Goes(a, p)
    BY <1>3 DEF Crosses, Sends, RunsOn
  <2>. QED BY <1>0, <2>1, <2>2 DEF Goes, Steady
<1>4. CASE Messages
  BY <1>0, <1>4 DEF Messages, Seen
<1>5. ASSUME NEW stopping, NEW agents, EndsTurns(stopping, agents)
      PROVE  Kept
  BY <1>0, <1>5 DEF EndsTurns, Ends, ReservedAfter
<1>6. ASSUME NEW a \in Agents, SummaryStarts(a) \/ SummaryCrosses(a) \/ SummarySends(a) \/ SummaryEnds(a)
      PROVE  Kept
  <2>1. job[a].request \in Requests \/ ~SummarySends(a)
    BY DEF SummarySends, Ground, TurnsNamed
  <2>2. c \in reserved[r]
    BY <1>6, <2>1 DEF SummaryStarts, SummaryCrosses, SummarySends, SummaryEnds, Counted, Seen
  <2>. QED BY <1>0, <1>6, <2>2 DEF SummaryStarts, SummaryCrosses, SummarySends, SummaryEnds, Prepares
<1>7. ASSUME NEW a \in Agents, NEW d \in Calls, SummaryAsks(a, d), Called(d)
      PROVE  Kept
  <2>1. a \in Summarisers
    BY <1>7 DEF SummaryAsks, Ground, TurnsNamed, NoJob
  <2>2. c \in reserved[r] \/ c = d
    BY <1>7 DEF Called
  <2>. QED BY <1>0, <1>7, <2>1, <2>2 DEF SummaryAsks, Prepares
<1>8. CASE Continues
  <2>1. c \in reserved[r] \/ c \in held[r]
    BY <1>8 DEF Continues
  <2>2. c \in held[r] => turn[c.agent].phase = "asked" /\ turn[c.agent].request = r
    <3>. SUFFICES ASSUME c \in held[r] PROVE turn[c.agent].phase = "asked" /\ turn[c.agent].request = r
      OBVIOUS
    <3>1. c \in Calls /\ c.agent \in Agents /\ c.request = r
      BY HeldCall
    <3>2. job[c.agent].call # c
      BY <3>1, CallsTyped DEF Ground, TurnsNamed, NoJob
    <3>3. call[c.agent] = c
      BY <3>2 DEF Waiting
    <3>. QED BY <3>1, <3>3, OwnCall, CallsTyped
  <2>. QED BY <1>0, <1>8, <2>1, <2>2 DEF Continues, team
<1>. QED BY <1>1, <1>2, <1>3, <1>4, <1>5, <1>6, <1>7, <1>8 DEF TurnEffects, SummaryEffects

LEMMA StopsStep ==
  ASSUME Ground, StoppedRunsNothing, TurnEffects \/ SummaryEffects \/ Continues
  PROVE  StoppedRunsNothing'
<1>. DEFINE Still(b) == \/ turn[b].phase \in {"idle", "starting"}
                        \/ turn[b].phase = "asked" /\ call[b].kind = "turn-start" /\ status[call[b]] = "stopped"
            Stays(b) == \/ turn'[b].phase \in {"idle", "starting"}
                        \/ turn'[b].phase = "asked" /\ call'[b].kind = "turn-start" /\ status'[call'[b]] = "stopped"
<1>. SUFFICES ASSUME NEW r \in Requests, state'[r] = "stopped", NEW b \in Agents, turn'[b].request = r
              PROVE  Stays(b)
  BY DEF StoppedRunsNothing
<1>0. state[r] = "stopped" /\ turn[b].request = r => Still(b)
  BY DEF StoppedRunsNothing
<1>i. turn[b].phase = "asked" => call[b] \in Calls /\ call[b].agent = b
  BY OwnCall
<1>1. ASSUME NEW a \in Agents, NEW q \in Requests, StartsTurn(a, q), Begins(q) \/ UNCHANGED Seen
      PROVE  Stays(b)
  <2>1. state[r] = "stopped" /\ UNCHANGED <<status, call>>
    BY <1>1 DEF StartsTurn, Begins, Seen
  <2>2. b = a \/ Steady(b)
    BY <1>1 DEF StartsTurn
  <2>. QED BY <1>0, <1>1, <2>1, <2>2 DEF StartsTurn, Steady
<1>2. ASSUME NEW a \in Agents, NEW d \in Calls, AsksGate(a, d), Called(d)
      PROVE  Stays(b)
  <2>1. state[r] = "stopped"
    BY <1>2 DEF Called
  <2>2. CASE b = a
    <3>1. turn[a].request = r /\ turn'[a].phase = "asked"
      BY <1>2, <2>2 DEF AsksGate, Goes
    <3>2. turn[a].phase = "starting"
      BY <1>0, <1>2, <2>1, <2>2, <3>1 DEF AsksGate
    <3>. QED BY <1>2, <2>1, <2>2, <3>1, <3>2 DEF AsksGate, Called
  <2>3. CASE b # a
    <3>1. Steady(b) /\ call'[b] = call[b] /\ d.agent = a
      BY <1>2, <2>3 DEF AsksGate, Goes
    <3>2. turn[b].phase = "asked" => status'[call[b]] = status[call[b]]
      BY <1>2, <1>i, <2>3, <3>1 DEF Called
    <3>. QED BY <1>0, <2>1, <3>1, <3>2 DEF Steady
  <2>. QED BY <2>2, <2>3
<1>3. ASSUME NEW a \in Agents, Crosses(a) \/ (Sends(a) /\ Counted(turn[a].request, a)) \/ RunsOn(a)
      PROVE  Stays(b)
  <2>1. UNCHANGED <<state, status>> /\ \A e \in Agents \ {a} : call'[e] = call[e]
    BY <1>3 DEF Crosses, Sends, Counted, RunsOn, Seen
  <2>2. PICK p : Goes(a, p)
    BY <1>3 DEF Crosses, Sends, RunsOn
  <2>3. CASE b = a
    <3>1. turn[a].request = r /\ state[r] = "stopped" /\ Tracked(r)
      BY <2>1, <2>2, <2>3 DEF Goes, Tracked, TrackedStates
    <3>2. turn[a].phase = "starting" => ~RunsOn(a)
      BY <3>1 DEF RunsOn
    <3>. QED BY <1>0, <1>3, <2>3, <3>1, <3>2 DEF Crosses, Sends, RunsOn
  <2>4. CASE b # a
    BY <1>0, <2>1, <2>2, <2>4 DEF Goes, Steady
  <2>. QED BY <2>3, <2>4
<1>4. CASE Messages
  BY <1>0, <1>4 DEF Messages, Seen
<1>5. ASSUME NEW stopping \in SUBSET Requests, NEW agents \in SUBSET Agents,
             EndsTurns(stopping, agents), Refuses(stopping)
      PROVE  Stays(b)
  <2>1. CASE b \in agents
    BY <1>5, <2>1 DEF EndsTurns, Ends
  <2>2. CASE b \notin agents
    <3>1. turn'[b].request = turn[b].request /\ turn'[b].phase = turn[b].phase /\ call'[b] = call[b]
      BY <1>5, <2>2 DEF EndsTurns, Ends
    <3>2. CASE r \in stopping
      BY <1>5, <2>2, <3>1, <3>2 DEF EndsTurns, Live
    <3>3. CASE r \notin stopping
      <4>1. state[r] = "stopped"
        BY <1>5, <3>3 DEF Refuses
      <4>2. \A c \in Calls : status[c] = "stopped" => status'[c] = "stopped"
        BY <1>5 DEF Refuses
      <4>. QED BY <1>0, <1>i, <3>1, <4>1, <4>2
    <3>. QED BY <3>2, <3>3
  <2>. QED BY <2>1, <2>2
<1>6. ASSUME NEW a \in Agents, SummaryStarts(a) \/ SummaryCrosses(a) \/ SummarySends(a)
      PROVE  Stays(b)
  <2>1. UNCHANGED <<state, status, turn, call>>
    BY <1>6 DEF SummaryStarts, SummaryCrosses, SummarySends, Counted, Prepares, Seen
  <2>. QED BY <1>0, <2>1
<1>7. ASSUME NEW a \in Agents, SummaryEnds(a), Refuses({})
      PROVE  Stays(b)
  <2>1. UNCHANGED <<turn, call>> /\ state[r] = "stopped"
    BY <1>7 DEF SummaryEnds, Prepares, Refuses
  <2>2. \A c \in Calls : status[c] = "stopped" => status'[c] = "stopped"
    BY <1>7 DEF Refuses
  <2>. QED BY <1>0, <1>i, <2>1, <2>2
<1>8. ASSUME NEW a \in Agents, NEW d \in Calls, SummaryAsks(a, d), Called(d)
      PROVE  Stays(b)
  <2>1. UNCHANGED <<turn, call>> /\ state[r] = "stopped"
    BY <1>8 DEF SummaryAsks, Prepares, Called
  <2>2. \A c \in Calls : status[c] = "stopped" => status'[c] = "stopped"
    BY <1>8 DEF Called
  <2>. QED BY <1>0, <1>i, <2>1, <2>2
<1>9. CASE Continues
  <2>1. UNCHANGED <<turn, call>> /\ state[r] = "stopped"
    BY <1>9 DEF Continues, team
  <2>2. \A c \in Calls : status[c] = "stopped" => status'[c] = "stopped"
    BY <1>9 DEF Continues
  <2>. QED BY <1>0, <1>i, <2>1, <2>2
<1>. HIDE DEF Stays
<1>. QED BY <1>1, <1>2, <1>3, <1>4, <1>5, <1>6, <1>7, <1>8, <1>9 DEF TurnEffects, SummaryEffects

LEMMA ForgetStep ==
  ASSUME Ground, ForgottenIsOver, TurnEffects \/ SummaryEffects \/ Continues
  PROVE  ForgottenIsOver'
<1>. SUFFICES ASSUME NEW r \in Requests, state'[r] = "untracked", configured'[r].turns + configured'[r].tokens > 0,
                     NEW b \in Agents
              PROVE  ~(turn'[b].phase # "idle" /\ turn'[b].request = r) /\ <<b, r>> \notin inbox' \union awaited'
  BY DEF ForgottenIsOver, Live
<1>. DEFINE Over == ~(turn'[b].phase # "idle" /\ turn'[b].request = r) /\ <<b, r>> \notin inbox' \union awaited'
<1>0. state[r] = "untracked" /\ configured'[r] = configured[r] =>
        \A e \in Agents : ~(turn[e].phase # "idle" /\ turn[e].request = r) /\ <<e, r>> \notin inbox \union awaited
  BY DEF ForgottenIsOver, Live
<1>1. ASSUME NEW a \in Agents, NEW q \in Requests, StartsTurn(a, q), Begins(q)
      PROVE  Over
  <2>1. CASE r = q
    BY <1>1, <2>1 DEF Begins
  <2>2. CASE r # q
    <3>1. /\ configured'[r] = configured[r] /\ turn'[a].request # r
          /\ \A e \in Agents \ {a} : Steady(e)
          /\ inbox' \union awaited' \subseteq inbox \union awaited
      BY <1>1, <2>2 DEF Begins, StartsTurn
    <3>2. CASE state'[r] = state[r]
      BY <1>0, <3>1, <3>2 DEF Steady
    <3>3. CASE state'[r] # state[r]
      BY <1>1, <2>2, <3>1, <3>3 DEF Begins
    <3>. QED BY <3>2, <3>3
  <2>. QED BY <2>1, <2>2
<1>2. ASSUME NEW a \in Agents, NEW q \in Requests, StartsTurn(a, q), <<a, q>> \in inbox, UNCHANGED Seen
      PROVE  Over
  BY <1>0, <1>2 DEF StartsTurn, Steady, Seen
<1>3. ASSUME NEW a \in Agents, NEW d \in Calls, AsksGate(a, d), Called(d)
      PROVE  Over
  BY <1>0, <1>3 DEF AsksGate, Called, Goes, Steady
<1>4. ASSUME NEW a \in Agents, Crosses(a) \/ (Sends(a) /\ Counted(turn[a].request, a)) \/ RunsOn(a)
      PROVE  Over
  <2>1. UNCHANGED <<state, configured>> /\ turn[a].phase # "idle"
        /\ \A m \in (inbox' \ inbox) \union (awaited' \ awaited) : m[2] = turn[a].request
    BY <1>4 DEF Crosses, Sends, Counted, RunsOn, Seen
  <2>2. PICK p : Goes(a, p)
    BY <1>4 DEF Crosses, Sends, RunsOn
  <2>3. <<b, r>>[2] = r
    OBVIOUS
  <2>. QED BY <1>0, <2>1, <2>2, <2>3 DEF Goes, Steady
<1>5. CASE Messages
  BY <1>0, <1>5 DEF Messages, Seen
<1>6. ASSUME NEW stopping \in SUBSET Requests, NEW agents \in SUBSET Agents,
             EndsTurns(stopping, agents), Refuses(stopping)
      PROVE  Over
  BY <1>0, <1>6 DEF EndsTurns, Ends, Refuses
<1>7. ASSUME NEW a \in Agents, SummaryStarts(a) \/ SummaryCrosses(a) \/ SummarySends(a)
      PROVE  Over
  <2>1. UNCHANGED <<state, configured, turn, inbox, awaited>>
    BY <1>7 DEF SummaryStarts, SummaryCrosses, SummarySends, Counted, Prepares, Seen
  <2>. QED BY <1>0, <2>1
<1>8. ASSUME NEW a \in Agents, SummaryEnds(a), Refuses({})
      PROVE  Over
  BY <1>0, <1>8 DEF SummaryEnds, Prepares, Refuses
<1>9. ASSUME NEW a \in Agents, NEW d \in Calls, SummaryAsks(a, d), Called(d)
      PROVE  Over
  BY <1>0, <1>9 DEF SummaryAsks, Prepares, Called
<1>10. CASE Continues
  BY <1>0, <1>10 DEF Continues, team
<1>. QED BY <1>1, <1>2, <1>3, <1>4, <1>5, <1>6, <1>7, <1>8, <1>9, <1>10 DEF TurnEffects, SummaryEffects

\* Who still owes a request without a reservation, in the next state.
LEMMA LentNext ==
  ASSUME NEW r, NEW b
  PROVE  /\ b \in Lent(r)' <=>
              /\ b \in Agents /\ turn'[b].request = r /\ ~(\E c \in reserved'[r] : c.agent = b)
              /\ \/ turn'[b].phase = "crossed"
                 \/ turn'[b].phase = "asked" /\ status'[call'[b]] = "proceed" /\ call'[b].reserves
         /\ b \in Lent(r) <=>
              /\ b \in Agents /\ turn[b].request = r /\ ~(\E c \in reserved[r] : c.agent = b)
              /\ \/ turn[b].phase = "crossed"
                 \/ turn[b].phase = "asked" /\ status[call[b]] = "proceed" /\ call[b].reserves
BY DEF Lent, Owes

\* A call of the boundary, or an answer, leaves nobody new without a reservation.
LEMMA NobodyNewLent ==
  ASSUME Ground, NEW r \in Requests, NEW b \in Lent(r)',
         turn'[b].request = turn[b].request, turn'[b].phase = turn[b].phase, call'[b] = call[b],
         turn[b].phase = "asked" /\ status'[call[b]] = "proceed" /\ call[b].reserves =>
           status[call[b]] = "proceed" \/ call[b] \in reserved'[call[b].request],
         \A c \in reserved[r] : c.agent = b => c \in reserved'[r]
  PROVE  b \in Lent(r)
<1>1. b \in Agents
  BY LentNext
<1>2. turn[b].phase = "asked" => call[b].agent = b /\ call[b].request = turn[b].request
  BY <1>1, OwnCall
<1>. QED BY <1>2, LentNext

LEMMA BorrowedStep ==
  ASSUME Ground, Borrowed, summaries \in [Requests -> Nat], TurnEffects \/ SummaryEffects \/ Continues
  PROVE  Borrowed'
<1>. SUFFICES ASSUME NEW r \in Requests
              PROVE  IsFiniteSet(Lent(r)') /\ unreserved'[r] + Cardinality(Lent(r)') <= summaries'[r]
  BY DEF Borrowed
<1>. DEFINE Paid == IsFiniteSet(Lent(r)') /\ unreserved'[r] + Cardinality(Lent(r)') <= summaries'[r]
<1>n. /\ IsFiniteSet(Lent(r)) /\ Cardinality(Lent(r)) \in Nat
      /\ unreserved[r] \in Nat /\ summaries[r] \in Nat /\ unreserved[r] + Cardinality(Lent(r)) <= summaries[r]
  BY FS_CardinalityType DEF Borrowed, Ground, TypeOK
<1>s. ASSUME unreserved'[r] = unreserved[r], summaries'[r] = summaries[r], \A b \in Lent(r)' : b \in Lent(r)
      PROVE  Paid
  <2>1. Lent(r)' \in SUBSET Lent(r)
    BY <1>s
  <2>2. /\ IsFiniteSet(Lent(r)') /\ Cardinality(Lent(r)') \in Nat
        /\ Cardinality(Lent(r)') <= Cardinality(Lent(r))
    BY <1>n, <2>1, Fewer
  <2>. QED BY <1>n, <1>s, <2>2
<1>1. ASSUME NEW a \in Agents, NEW q \in Requests, StartsTurn(a, q), Begins(q) \/ UNCHANGED Seen
      PROVE  Paid
  <2>1. unreserved'[r] = unreserved[r] /\ summaries'[r] = summaries[r] /\ UNCHANGED <<status, call>>
    BY <1>1 DEF StartsTurn, Begins, Seen
  <2>2. ASSUME NEW b \in Lent(r)'
        PROVE  b \in Lent(r)
    <3>1. b \in Agents \ {a} /\ turn'[b].request = r
      BY <1>1, LentNext DEF StartsTurn
    <3>2. Steady(b)
      BY <1>1, <3>1 DEF StartsTurn
    <3>3. reserved[r] \subseteq reserved'[r]
      BY <1>1, <3>1 DEF Begins, Seen, Ground, Counting
    <3>. QED BY <2>1, <3>2, <3>3, NobodyNewLent DEF Steady
  <2>. QED BY <1>s, <2>1, <2>2
<1>2. ASSUME NEW a \in Agents, NEW d \in Calls, AsksGate(a, d), Called(d)
      PROVE  Paid
  <2>1. unreserved'[r] = unreserved[r] /\ summaries'[r] = summaries[r]
    BY <1>2 DEF AsksGate, Goes, Called
  <2>2. ASSUME NEW b \in Lent(r)'
        PROVE  b \in Lent(r)
    <3>1. b \in Agents
      BY LentNext
    <3>2. b # a
      BY <1>2, LentNext DEF AsksGate, Called, Goes
    <3>3. Steady(b) /\ call'[b] = call[b]
      BY <1>2, <3>1, <3>2 DEF AsksGate, Goes
    <3>4. turn[b].phase = "asked" => call[b] \in Calls \ {d}
      BY <1>2, <3>1, <3>2, OwnCall DEF AsksGate
    <3>. QED BY <1>2, <3>3, <3>4, NobodyNewLent DEF Called, Steady
  <2>. QED BY <1>s, <2>1, <2>2
<1>3. ASSUME NEW a \in Agents, Crosses(a)
      PROVE  Paid
  <2>1. unreserved'[r] = unreserved[r] /\ summaries'[r] = summaries[r] /\ UNCHANGED <<status, reserved>>
    BY <1>3 DEF Crosses, Goes, Seen
  <2>2. ASSUME NEW b \in Lent(r)'
        PROVE  b \in Lent(r)
    <3>1. b \in Agents
      BY LentNext
    <3>2. CASE b = a
      BY <1>3, <2>1, <3>2, LentNext DEF Crosses, Goes
    <3>3. CASE b # a
      BY <1>3, <2>1, <3>1, <3>3, LentNext DEF Crosses, Goes, Steady
    <3>. QED BY <3>2, <3>3
  <2>. QED BY <1>s, <2>1, <2>2
<1>4. ASSUME NEW a \in Agents, Sends(a), Counted(turn[a].request, a)
      PROVE  Paid
  <2>1. /\ UNCHANGED <<status, call>> /\ summaries'[r] = summaries[r]
        /\ \A c \in reserved[r] : c.agent # a => c \in reserved'[r]
    BY <1>4 DEF Sends, Goes, Counted
  <2>2. ASSUME NEW b \in Lent(r)'
        PROVE  b # a /\ b \in Lent(r)
    <3>1. b \in Agents
      BY LentNext
    <3>2. b # a
      BY <1>4, LentNext DEF Sends, Goes
    <3>3. Steady(b)
      BY <1>4, <3>1, <3>2 DEF Sends, Goes
    <3>. QED BY <2>1, <3>2, <3>3, NobodyNewLent DEF Steady
  <2>3. CASE unreserved'[r] = unreserved[r]
    BY <1>s, <2>1, <2>2, <2>3
  <2>4. CASE unreserved'[r] # unreserved[r]
    <3>1. unreserved'[r] = unreserved[r] + 1 /\ a \in Lent(r)
      BY <1>4, <2>4, LentNext DEF Counted, Sends
    <3>2. Lent(r)' \in SUBSET (Lent(r) \ {a})
      BY <2>2
    <3>3. IsFiniteSet(Lent(r) \ {a}) /\ Cardinality(Lent(r) \ {a}) = Cardinality(Lent(r)) - 1
      BY <1>n, <3>1, FS_RemoveElement
    <3>4. /\ IsFiniteSet(Lent(r)') /\ Cardinality(Lent(r)') \in Nat
          /\ Cardinality(Lent(r)') <= Cardinality(Lent(r) \ {a})
      BY <3>2, <3>3, Fewer
    <3>. QED BY <1>n, <2>1, <3>1, <3>3, <3>4
  <2>. QED BY <2>3, <2>4
<1>5. ASSUME NEW a \in Agents, RunsOn(a)
      PROVE  Paid
  <2>1. unreserved'[r] = unreserved[r] /\ summaries'[r] = summaries[r] /\ UNCHANGED <<status, reserved, call>>
    BY <1>5 DEF RunsOn, Goes, Seen
  <2>2. ASSUME NEW b \in Lent(r)'
        PROVE  b \in Lent(r)
    BY <1>5, <2>1, LentNext DEF RunsOn, Goes, Steady
  <2>. QED BY <1>s, <2>1, <2>2
<1>6. CASE Messages
  <2>1. UNCHANGED <<unreserved, summaries, status, reserved, call, turn>>
    BY <1>6 DEF Messages, Seen
  <2>. QED BY <1>s, <2>1, LentNext
<1>7. ASSUME NEW stopping \in SUBSET Requests, NEW agents \in SUBSET Agents,
             EndsTurns(stopping, agents), Refuses(stopping)
      PROVE  Paid
  <2>1. unreserved'[r] = unreserved[r] /\ summaries'[r] = summaries[r]
    BY <1>7 DEF EndsTurns, Ends, Refuses
  <2>2. ASSUME NEW b \in Lent(r)'
        PROVE  b \in Lent(r)
    <3>1. b \in Agents
      BY LentNext
    <3>2. b \notin agents
      BY <1>7, LentNext DEF EndsTurns, Ends
    <3>3. turn'[b].request = turn[b].request /\ turn'[b].phase = turn[b].phase /\ call'[b] = call[b]
      BY <1>7, <3>1, <3>2 DEF EndsTurns, Ends
    <3>4. \A c \in reserved[r] : c.agent = b => c \in reserved'[r]
      BY <1>7, <3>2 DEF EndsTurns, Ends, ReservedAfter
    <3>5. turn[b].phase = "asked" => status'[call[b]] # "proceed" \/ status[call[b]] = "proceed"
      BY <1>7, <3>1, OwnCall DEF Refuses
    <3>. QED BY <3>3, <3>4, <3>5, NobodyNewLent
  <2>. QED BY <1>s, <2>1, <2>2
<1>8. ASSUME NEW a \in Agents, SummaryStarts(a) \/ SummaryCrosses(a)
      PROVE  Paid
  <2>1. UNCHANGED <<unreserved, summaries, status, reserved, call, turn>>
    BY <1>8 DEF SummaryStarts, SummaryCrosses, Prepares, Seen
  <2>. QED BY <1>s, <2>1, LentNext
<1>9. ASSUME NEW a \in Agents, SummarySends(a)
      PROVE  Paid
  <2>0. UNCHANGED <<turn, call>> /\ job[a].request \in Requests
    BY <1>9 DEF SummarySends, Prepares, Ground, TurnsNamed
  <2>1. CASE UNCHANGED <<Seen, summaries>>
    BY <1>s, <2>0, <2>1, LentNext DEF Seen
  <2>2. CASE Counted(job[a].request, a) /\ summaries' = [summaries EXCEPT ![job[a].request] = @ + 1]
    <3>1. UNCHANGED status /\ \A c \in reserved[r] : c.agent # a => c \in reserved'[r]
      BY <2>2 DEF Counted
    <3>2. \A b \in Lent(r)' : b = a \/ b \in Lent(r)
      BY <2>0, <3>1, LentNext
    <3>3. CASE r # job[a].request
      <4>1. unreserved'[r] = unreserved[r] /\ summaries'[r] = summaries[r] /\ reserved'[r] = reserved[r]
        BY <2>2, <3>3 DEF Counted
      <4>. QED BY <1>s, <2>0, <3>1, <4>1, LentNext
    <3>4. CASE r = job[a].request
      <4>1. summaries'[r] = summaries[r] + 1
        BY <2>2, <3>4
      <4>2. CASE unreserved'[r] = unreserved[r]
        <5>1. Lent(r)' \in SUBSET (Lent(r) \union {a})
          BY <3>2
        <5>2. /\ IsFiniteSet(Lent(r)') /\ Cardinality(Lent(r)') \in Nat
              /\ Cardinality(Lent(r)') <= Cardinality(Lent(r)) + 1
          BY <1>n, <5>1, OneMore
        <5>. QED BY <1>n, <4>1, <4>2, <5>2
      <4>3. CASE unreserved'[r] # unreserved[r]
        <5>1. unreserved'[r] = unreserved[r] + 1 /\ reserved'[r] = reserved[r]
          BY <2>2, <3>4, <4>3 DEF Counted
        <5>2. Lent(r)' \in SUBSET Lent(r)
          BY <2>0, <3>1, <5>1, LentNext
        <5>3. /\ IsFiniteSet(Lent(r)') /\ Cardinality(Lent(r)') \in Nat
              /\ Cardinality(Lent(r)') <= Cardinality(Lent(r))
          BY <1>n, <5>2, Fewer
        <5>. QED BY <1>n, <4>1, <5>1, <5>3
      <4>. QED BY <4>2, <4>3
    <3>. QED BY <3>3, <3>4
  <2>. QED BY <1>9, <2>1, <2>2 DEF SummarySends
<1>10. ASSUME NEW a \in Agents, SummaryEnds(a), Refuses({})
       PROVE  Paid
  <2>1. UNCHANGED <<turn, call, reserved>> /\ unreserved'[r] = unreserved[r] /\ summaries'[r] = summaries[r]
    BY <1>10 DEF SummaryEnds, Prepares, Refuses
  <2>2. ASSUME NEW b \in Lent(r)'
        PROVE  b \in Lent(r)
    <3>1. turn[b].phase = "asked" => status'[call[b]] # "proceed" \/ status[call[b]] = "proceed"
      BY <1>10, LentNext, OwnCall DEF Refuses
    <3>. QED BY <2>1, <3>1, NobodyNewLent
  <2>. QED BY <1>s, <2>1, <2>2
<1>11. ASSUME NEW a \in Agents, NEW d \in Calls, SummaryAsks(a, d), Called(d)
       PROVE  Paid
  <2>1. UNCHANGED <<turn, call>> /\ unreserved'[r] = unreserved[r] /\ summaries'[r] = summaries[r]
    BY <1>11 DEF SummaryAsks, Prepares, Called
  <2>2. ASSUME NEW b \in Lent(r)'
        PROVE  b \in Lent(r)
    <3>1. turn[b].phase = "asked" => call[b] \in Calls
      BY LentNext, OwnCall
    <3>2. reserved[r] \subseteq reserved'[r]
          /\ \A c \in Calls : c # d => status'[c] = status[c]
      BY <1>11 DEF Called
    <3>3. status'[d] = "proceed" /\ d.reserves => d \in reserved'[d.request]
      BY <1>11 DEF Called
    <3>. QED BY <2>1, <3>1, <3>2, <3>3, NobodyNewLent
  <2>. QED BY <1>s, <2>1, <2>2
<1>12. CASE Continues
  <2>1. UNCHANGED <<turn, call, summaries>> /\ unreserved'[r] = unreserved[r]
    BY <1>12 DEF Continues, team
  <2>2. ASSUME NEW b \in Lent(r)'
        PROVE  b \in Lent(r)
    <3>1. turn[b].phase = "asked" => call[b] \in Calls
      BY LentNext, OwnCall
    <3>2. /\ reserved[r] \subseteq reserved'[r]
          /\ \A c \in Calls : status'[c] = status[c] \/ (c.reserves => c \in reserved'[c.request])
      BY <1>12 DEF Continues
    <3>. QED BY <2>1, <3>1, <3>2, NobodyNewLent
  <2>. QED BY <1>s, <2>1, <2>2
<1>. QED
  BY <1>1, <1>2, <1>3, <1>4, <1>5, <1>6, <1>7, <1>8, <1>9, <1>10, <1>11, <1>12 DEF TurnEffects, SummaryEffects

-----------------------------------------------------------------------------
(* The theorems.                                                           *)

LEMMA LimitedInit == LInit => TurnInv
<1>. SUFFICES ASSUME LInit PROVE TurnInv
  OBVIOUS
<1>1. Init /\ turn = [a \in Agents |-> Idle(NoRequest)] /\ call = [a \in Agents |-> NoCall]
      /\ job = [a \in Agents |-> NoJob] /\ inbox = {} /\ awaited = {} /\ summaries = [r \in Requests |-> 0]
  BY DEF LInit
<1>2. Inv /\ TypeOK
  BY <1>1, InitInv DEF Inv
<1>3. TeamTypes
  BY <1>1 DEF TeamTypes, TurnRows, JobRows, Phases, JobPhases, Matched, Idle, NoJob
<1>4. /\ \A a \in Agents : turn[a].phase = "idle" /\ turn[a].request = NoRequest
      /\ \A r \in Requests : /\ state[r] = "new" /\ held[r] = {} /\ reserved[r] = {} /\ unreserved[r] = 0
                             /\ configured[r] = [turns |-> 0, tokens |-> 0]
      /\ ~disposed
  BY <1>1 DEF Init, Idle
<1>5. TurnsNamed /\ Waiting /\ Begun /\ ReservationHasTurn /\ StoppedRunsNothing /\ ForgottenIsOver
  BY <1>1, <1>4 DEF TurnsNamed, Waiting, Begun, ReservationHasTurn, StoppedRunsNothing, ForgottenIsOver, Live, NoJob
<1>6. Borrowed
  <2>1. \A r \in Requests : Lent(r) = {}
    BY <1>4 DEF Lent, Owes
  <2>. QED BY <1>1, <1>4, <2>1, FS_EmptySet DEF Borrowed
<1>. QED BY <1>2, <1>3, <1>5, <1>6, TeamTyped DEF TurnInv

LEMMA LimitedStep == ASSUME TurnInv, [LNext]_all PROVE TurnInv'
<1>1. Ground /\ TypeOK /\ Inv /\ LTypeOK /\ summaries \in [Requests -> Nat]
  BY TeamTyped DEF TurnInv, Inv, Ground, TeamTypes
<1>2. TurnEffects \/ SummaryEffects \/ Continues
  BY <1>1, EveryStep
<1>3. Inv' /\ TypeOK'
  BY <1>1, GateStep DEF TurnInv, Inv
<1>4. LTypeOK'
  BY <1>1, <1>3, LTypeStep DEF TurnInv
<1>5. TurnsNamed' /\ Waiting' /\ Begun'
  BY <1>1, <1>2, NamedStep, WaitingStep, BegunStep DEF TurnInv
<1>6. ReservationHasTurn' /\ StoppedRunsNothing' /\ ForgottenIsOver' /\ Borrowed'
  BY <1>1, <1>2, ReservationStep, StopsStep, ForgetStep, BorrowedStep DEF TurnInv
<1>. QED BY <1>3, <1>4, <1>5, <1>6 DEF TurnInv

\* Every reachable state of the turns satisfies the invariant.
THEOREM LimitedInvariance == LSpec => []TurnInv
<1>1. LInit => TurnInv
  BY LimitedInit
<1>2. TurnInv /\ [LNext]_all => TurnInv'
  BY LimitedStep
<1>. QED BY <1>1, <1>2, PTL DEF LSpec

\* Turns, calls, summaries and messages keep their types, and a turn or a summary has a call exactly while it asks
\* (SessionManager.ts holdTurnStart, SummaryRequest.ts).
THEOREM LimitedTypeCorrect == LSpec => []LTypeOK
<1>1. TurnInv => LTypeOK
  BY DEF TurnInv
<1>. QED BY <1>1, LimitedInvariance, PTL

\* Turns keep the limit, for any number of agents, routes and requests: only background summaries are counted beyond
\* the allowance (SessionManager.ts holdTurnStart, releaseTurnReservation).
THEOREM TurnsKeepTheLimit == LSpec => []OnlySummariesOverrun
<1>1. ASSUME TurnInv
      PROVE  OnlySummariesOverrun
  <2>. SUFFICES ASSUME NEW r \in Requests, Tracked(r), configured[r].turns > 0
                PROVE  ObservedTurns(r, reserved[r]) <= Allowance(configured[r].turns, allowances[r]) + summaries[r]
    BY DEF OnlySummariesOverrun
  <2>1. ObservedTurns(r, reserved[r]) <= Allowance(configured[r].turns, allowances[r]) + unreserved[r]
    BY <1>1 DEF TurnInv, Inv, Counting, AllowanceRespected
  <2>2. unreserved[r] \in Nat /\ summaries[r] \in Nat /\ unreserved[r] <= summaries[r]
    <3>1. Cardinality(Lent(r)) \in Nat /\ unreserved[r] + Cardinality(Lent(r)) <= summaries[r]
      BY <1>1, FS_CardinalityType DEF TurnInv, Borrowed
    <3>2. unreserved[r] \in Nat /\ summaries[r] \in Nat
      BY <1>1 DEF TurnInv, LTypeOK, TypeOK
    <3>. QED BY <3>1, <3>2
  <2>3. ObservedTurns(r, reserved[r]) \in Nat /\ Allowance(configured[r].turns, allowances[r]) \in Nat
    <3>1. counted[r] \in Nat /\ configured[r].turns \in Nat /\ allowances[r] \in Nat /\ IsFiniteSet(reserved[r])
      BY <1>1 DEF TurnInv, LTypeOK, TypeOK, Inv, Counting
    <3>2. Cardinality(reserved[r]) \in Nat /\ Allowance(configured[r].turns, allowances[r]) \in Nat
      BY <3>1, FS_CardinalityType, AllowanceGrows
    <3>. QED BY <3>1, <3>2 DEF ObservedTurns
  <2>. QED BY <2>1, <2>2, <2>3
<1>. QED BY <1>1, LimitedInvariance, PTL

\* What is reserved belongs to a turn that is live in that very request, or to an agent with a background summary
\* (SessionManager.ts releaseTurnReservation, forgetTurnRequest).
THEOREM ReservationsHaveTurns == LSpec => []ReservationHasTurn
<1>1. TurnInv => ReservationHasTurn
  BY DEF TurnInv
<1>. QED BY <1>1, LimitedInvariance, PTL

\* A turn of a request that the person stopped gets no further than the refusal of its start (RequestCeiling.ts
\* settle, SessionManager.ts interrupt).
THEOREM StopStopsTheTurns == LSpec => []StoppedRunsNothing
<1>1. TurnInv => StoppedRunsNothing
  BY DEF TurnInv
<1>. QED BY <1>1, LimitedInvariance, PTL

\* A limited request that the gate forgot is named by no live turn and no message, and never will be
\* (RequestCeiling.ts forgetUnreachable, SessionManager.ts reachableRequestIds).
THEOREM ForgottenForGood == LSpec => []ForgottenIsOver
<1>1. TurnInv => ForgottenIsOver
  BY DEF TurnInv
<1>. QED BY <1>1, LimitedInvariance, PTL

\* Under its users the gate keeps what it promises alone: nobody is lost behind a decision that is over, the allowance
\* holds, and a crossing is counted once per allowance (RequestCeiling.ts, RequestLimitBinding.ts).
THEOREM GateUnderTurns == LSpec => [](HeldBehindDecision /\ AllowanceRespected /\ CrossingPerAllowance)
<1>1. TurnInv => HeldBehindDecision /\ AllowanceRespected /\ CrossingPerAllowance
  BY DEF TurnInv, Inv, Line, Counting
<1>. QED BY <1>1, LimitedInvariance, PTL

\* What the gate's steps may never do, they never do under its users either, whatever the order of turns, stops and
\* summaries: a stopped request runs nothing again, nobody overtakes a held boundary, and an answer buys a tranche for
\* its own decision alone (RequestCeiling.ts settle, admit, withdraw, under SessionManager.ts interrupt).
THEOREM GateRulesUnderTurns == LSpec => StoppedIsFinal /\ NoOvertaking /\ TrancheAnswersItsDecision
<1>. DEFINE Final(r) == state[r] = "stopped" =>
              /\ state'[r] \in {"stopped", "untracked"}
              /\ reserved'[r] \subseteq reserved[r]
              /\ \A c \in Calls : c.request = r /\ status'[c] = "proceed" => status[c] = "proceed"
            Ordered(c, d) ==
              /\ c.request = d.request
              /\ status[c] # "proceed" /\ status'[c] = "proceed"
              /\ status[d] = "held" /\ status'[d] = "held"
              => c \in ahead[d]
            Bought(r) == allowances'[r] # allowances[r] =>
              /\ allowances'[r] = allowances[r] + 1
              /\ decision[r] \in prompts[r] \ prompts'[r]
              /\ decision'[r] # decision[r]
<1>1. ASSUME TurnInv, [LNext]_all
      PROVE  (\A r \in Requests : Final(r) /\ Bought(r)) /\ (\A c, d \in Calls : Ordered(c, d))
  <2>1. CASE [Next]_vars
    <3>1. Inv
      BY <1>1 DEF TurnInv
    <3>2. \A r \in Requests : Final(r)
      BY <2>1, <3>1, StoppedStep
    <3>3. \A r \in Requests : Bought(r)
      BY <2>1, <3>1, TrancheStep
    <3>4. \A c, d \in Calls : Ordered(c, d)
      BY <2>1, <3>1, OvertakingStep
    <3>. QED BY <3>2, <3>3, <3>4
  <2>2. CASE GivesUp
    <3>0. TypeOK /\ Line
      BY <1>1 DEF TurnInv, Inv
    <3>1. /\ UNCHANGED allowances
          /\ \A c \in Calls : status'[c] = "proceed" => status[c] = "proceed"
          /\ \A r \in Requests : state[r] = "stopped" => state'[r] = "stopped"
      <4>1. ASSUME NEW stopping \in SUBSET {r \in Requests : Tracked(r)}, NEW cs, Refused(stopping, cs)
            PROVE  /\ UNCHANGED allowances
                   /\ \A c \in Calls : status'[c] = "proceed" => status[c] = "proceed"
                   /\ \A r \in Requests : state[r] = "stopped" => state'[r] = "stopped"
        <5>1. UNCHANGED allowances
          BY <4>1 DEF Refused
        <5>2. stopping \in SUBSET Requests
          OBVIOUS
        <5>3. /\ \A r \in Requests : IF r \in stopping THEN state'[r] = "stopped"
                 ELSE state'[r] = state[r] \/ (state[r] = "awaiting-decision" /\ state'[r] = "open")
              /\ \A c \in Calls : status'[c] = status[c] \/ (status[c] = "held" /\ status'[c] = "stopped")
          BY <3>0, <4>1, <5>2, RefusedEffect
        <5>. QED BY <5>1, <5>3
      <4>2. CASE UNCHANGED <<state, limits, counted, unreserved, tokens, decided, status>>
        BY <4>2 DEF decided
      <4>. QED BY <2>2, <4>1, <4>2 DEF GivesUp
    <3>2. \A r \in Requests : reserved'[r] \subseteq reserved[r]
      BY <2>2 DEF GivesUp
    <3>. QED BY <3>1, <3>2
  <2>. QED BY <1>1, <2>1, <2>2, GateMoves DEF TurnInv
<1>2. TurnInv /\ [LNext]_all => [\A r \in Requests : Final(r)]_vars
  BY <1>1
<1>3. TurnInv /\ [LNext]_all => [\A c, d \in Calls : Ordered(c, d)]_vars
  BY <1>1
<1>4. TurnInv /\ [LNext]_all => [\A r \in Requests : Bought(r)]_vars
  BY <1>1
<1>5. LSpec => StoppedIsFinal
  BY <1>2, LimitedInvariance, PTL DEF LSpec, StoppedIsFinal
<1>6. LSpec => NoOvertaking
  BY <1>3, LimitedInvariance, PTL DEF LSpec, NoOvertaking
<1>7. LSpec => TrancheAnswersItsDecision
  BY <1>4, LimitedInvariance, PTL DEF LSpec, TrancheAnswersItsDecision
<1>. QED BY <1>5, <1>6, <1>7

=============================================================================
