---------------------------- MODULE LimitedTurns ----------------------------
(***************************************************************************)
(* Turns of agents under the request ceiling: who asks the gate of         *)
(* RequestCeiling, under which request, and what a stop does to the turns. *)
(*                                                                         *)
(* An agent runs one turn at a time (src/src/session/SessionManager.ts).   *)
(* A gateway agent's backend asks before each model request; on a CLI      *)
(* route the start of the turn is what is counted.  Beside its turn a      *)
(* gateway agent may run one background summary, whose requests ask under  *)
(* the request of the agent's RUNNING turn (host/RequestLimitBinding.ts)   *)
(* and are counted for the request the summary was captured for.           *)
(* Messages that continue a request wait in `inbox`.                       *)
(***************************************************************************)
EXTENDS RequestCeiling

CONSTANTS
  CliAgents,      \* agents on a Claude CLI or Codex route
  Summarisers,    \* gateway agents whose history is compacted in the background
  NoCall,         \* no boundary call in flight
  NoRequest       \* an agent that never ran a turn

ASSUME RoutesAssumption ==
  /\ CliAgents \subseteq Agents
  /\ Summarisers \subseteq Agents \ CliAgents
  /\ NoCall \notin Calls /\ NoRequest \notin Requests

Kinds == {"turn-start", "provider-request", "effect"}

\* Which calls reserve: a model request, and the start of a turn that is counted as one.
ASSUME KindsAssumption ==
  \A c \in Calls :
    /\ c.kind \in Kinds
    /\ c.reserves = (c.kind = "provider-request" \/ (c.kind = "turn-start" /\ c.agent \in CliAgents))

VARIABLES
  turn,     \* per agent: the request of its latest turn (turnRequestIds) and the turn's phase
  call,     \* per agent: the boundary call its turn waits on, or NoCall
  job,      \* per agent: its background summary, the request it was captured for and its call
  inbox,    \* <<agent, request>>: queued messages that continue a request
  awaited,  \* <<agent, request>>: the agent dispatched a task whose result may still come back (correlationRequests)
  summaries \* history: model requests of background summaries counted per request

gate == <<state, limits, totals, tokens, decided, status, disposed>>
team == <<turn, call, job, inbox, awaited, summaries>>
all  == <<gate, team>>

Idle(r) == [request |-> r, phase |-> "idle"]
NoJob == [request |-> NoRequest, phase |-> "none", call |-> NoCall]

Live(a) == turn[a].phase # "idle"

\* Mutant: only the turns that wait for the person are stopped.
WaitingTurnsOf(r) == {a \in Agents : turn[a].phase = "asked" /\ turn[a].request = r}

\* liveTurnsOf(): exactly the turns that Stop this request would stop.
LiveTurnsOf(r) == {a \in Agents : Live(a) /\ turn[a].request = r}

\* Mutant: only the agents' turns are looked at.
ReachableByTurns(turns) == {r \in Requests : \E a \in Agents : turns[a].request = r}

\* reachableRequestIds(), once the turns are those of `turns`.
ReachableIn(turns) ==
  {r \in Requests : \E a \in Agents : turns[a].request = r}
    \union {m[2] : m \in inbox \union awaited}

-----------------------------------------------------------------------------
(* A turn starts: a new request, or a message that continues one.          *)

NewRequest(a, r, setting) ==
  LET turns == [turn EXCEPT ![a] = [request |-> r, phase |-> "starting"]] IN
  /\ ~Live(a)
  /\ Begin(r, setting, ReachableIn(turns))
  /\ turn' = turns
  /\ UNCHANGED <<call, job, inbox, awaited, summaries>>

ContinueRequest(a, r) ==
  /\ ~Live(a) /\ <<a, r>> \in inbox
  /\ turn' = [turn EXCEPT ![a] = [request |-> r, phase |-> "starting"]]
  /\ inbox' = inbox \ {<<a, r>>}
  /\ UNCHANGED <<gate, call, job, awaited, summaries>>

\* A request without a limit is never asked about.
StartUnlimited(a) ==
  /\ turn[a].phase = "starting" /\ ~Tracked(turn[a].request)
  /\ turn' = [turn EXCEPT ![a].phase = "running"]
  /\ UNCHANGED <<gate, call, job, inbox, awaited, summaries>>

-----------------------------------------------------------------------------
(* The turn asks the gate and reads its answer.                            *)

Boundary(c) == Cross(c) \/ RefuseStopped(c) \/ Hold(c)

\* holdTurnStart() while the turn starts; afterwards a model request on a gateway route, or an effect.
Ask(a, c) ==
  /\ c.agent = a /\ c.request = turn[a].request /\ Tracked(c.request)
  /\ \/ turn[a].phase = "starting" /\ c.kind = "turn-start"
     \/ turn[a].phase = "running" /\ c.kind = "effect"
     \/ turn[a].phase = "running" /\ c.kind = "provider-request" /\ a \notin CliAgents
  /\ Boundary(c)
  /\ call' = [call EXCEPT ![a] = c]
  /\ turn' = [turn EXCEPT ![a].phase = "asked"]
  /\ UNCHANGED <<job, inbox, awaited, summaries>>

Proceed(a) ==
  /\ turn[a].phase = "asked" /\ status[call[a]] = "proceed"
  /\ turn' = [turn EXCEPT ![a].phase =
                CASE call[a].reserves         -> "crossed"
                  [] call[a].kind = "effect"  -> "acting"
                  [] OTHER                    -> "running"]
  /\ call' = [call EXCEPT ![a] = NoCall]
  /\ UNCHANGED <<gate, job, inbox, awaited, summaries>>

\* The request leaves and is counted: a model request, or the CLI turn as it is handed over.
Send(a) ==
  /\ turn[a].phase = "crossed"
  /\ NoteProviderRequest(turn[a].request, a)
  /\ turn' = [turn EXCEPT ![a].phase = "running"]
  /\ UNCHANGED <<call, job, inbox, awaited, summaries>>

\* Mutant: the turn that follows a compaction is sent without being asked again.
CompactAndSend(a) ==
  /\ turn[a].phase = "crossed" /\ a \in CliAgents
  /\ NoteProviderRequest(turn[a].request, a)
  /\ UNCHANGED <<turn, call, job, inbox, awaited, summaries>>

\* On a CLI route a compaction before the turn is a turn of its own and takes the start that was allowed.
CompactFirst(a) ==
  /\ turn[a].phase = "crossed" /\ a \in CliAgents
  /\ NoteProviderRequest(turn[a].request, a)
  /\ turn' = [turn EXCEPT ![a].phase = "starting"]
  /\ UNCHANGED <<call, job, inbox, awaited, summaries>>

\* An effect that dispatches: a teammate gets a message that continues the request, and its result is awaited.
Dispatch(a, b) ==
  /\ b # a /\ turn[a].phase = "acting"
  /\ turn' = [turn EXCEPT ![a].phase = "running"]
  /\ inbox' = inbox \union {<<b, turn[a].request>>}
  /\ awaited' = awaited \union {<<a, turn[a].request>>}
  /\ UNCHANGED <<gate, call, job, summaries>>

\* Any other effect.
Act(a) ==
  /\ turn[a].phase = "acting"
  /\ turn' = [turn EXCEPT ![a].phase = "running"]
  /\ UNCHANGED <<gate, call, job, inbox, awaited, summaries>>

\* The result of a delegation wakes the agent that waits for it, under the delegation's request.
Wake(a, r) ==
  /\ <<a, r>> \in awaited
  /\ inbox' = inbox \union {<<a, r>>}
  /\ UNCHANGED <<gate, turn, call, job, awaited, summaries>>

\* correlationRequests keeps the newest thousand: the oldest request may be dropped at any time.
DropAwaited(a, r) ==
  /\ <<a, r>> \in awaited
  /\ awaited' = awaited \ {<<a, r>>}
  /\ UNCHANGED <<gate, turn, call, job, inbox, summaries>>

-----------------------------------------------------------------------------
(* A turn ends, and gives back what it reserved in its request.            *)

\* Mutant: a turn that is over keeps what it reserved.
ReservedKept(ended) == reserved

ReservedAfter(ended) ==
  [r \in Requests |->
    {c \in reserved[r] : ~(c.agent \in ended /\ turn[c.agent].request = r)}]

Ended(ended) == [a \in Agents |-> IF a \in ended THEN Idle(turn[a].request) ELSE turn[a]]

\* finishRequestCloseout() of a turn that completes; its background summary goes on.
EndTurn(a) ==
  /\ turn[a].phase = "running"
  /\ reserved' = ReservedAfter({a})
  /\ turn' = Ended({a})
  /\ UNCHANGED <<state, limits, counted, unreserved, tokens, decided, status, disposed>>
  /\ UNCHANGED <<call, job, inbox, awaited, summaries>>

\* Mutant: the call that a stopped turn waited on is not forgotten.
InterruptCallKept(stopping, agents) ==
  /\ Refused(stopping, {call[a] : a \in agents} \union {job[a].call : a \in agents})
  /\ reserved' = ReservedAfter(agents)
  /\ turn' = Ended(agents)
  /\ job' = [a \in Agents |-> IF a \in agents THEN NoJob ELSE job[a]]
  /\ UNCHANGED <<call, inbox, awaited, summaries, disposed>>

\* interrupt() of these agents, with the requests in `stopping` stopped in the same step: their held boundaries are
\* refused, their reservations given back and their background summaries cancelled.
Interrupt(stopping, agents) ==
  /\ Refused(stopping, {call[a] : a \in agents} \union {job[a].call : a \in agents})
  /\ reserved' = ReservedAfter(agents)
  /\ turn' = Ended(agents)
  /\ call' = [a \in Agents |-> IF a \in agents THEN NoCall ELSE call[a]]
  /\ job' = [a \in Agents |-> IF a \in agents THEN NoJob ELSE job[a]]
  /\ UNCHANGED <<inbox, awaited, summaries, disposed>>

\* The person stops the agent.
UserStop(a) ==
  /\ Live(a)
  /\ Interrupt({}, {a})
  /\ UNCHANGED prompts

\* A turn start that was refused ends its turn.  Every other refusal finds its turn ended by the stop that gave it.
RefusalEndsTurn(a) ==
  /\ turn[a].phase = "asked" /\ status[call[a]] = "stopped" /\ call[a].kind = "turn-start"
  /\ Interrupt({}, {a})
  /\ UNCHANGED prompts

\* Stop of the open decision, by answer or by its timer, ends every live turn of the request.
StopByAnswer(r) ==
  /\ decision[r] # 0 /\ decision[r] \in prompts[r]
  /\ Interrupt({r}, LiveTurnsOf(r))
  /\ prompts' = [prompts EXCEPT ![r] = @ \ {decision[r]}]

StopByTimer(r) ==
  /\ decision[r] # 0
  /\ Interrupt({r}, LiveTurnsOf(r))
  /\ UNCHANGED prompts

-----------------------------------------------------------------------------
(* The background summary of an agent (compaction/SummaryRequest.ts).      *)

StartSummary(a) ==
  /\ a \in Summarisers /\ turn[a].phase = "running" /\ job[a] = NoJob
  /\ job' = [job EXCEPT ![a] = [request |-> turn[a].request, phase |-> "ready", call |-> NoCall]]
  /\ UNCHANGED <<gate, turn, call, inbox, awaited, summaries>>

\* The boundary is that of the agent's running turn.
AskSummary(a, c) ==
  /\ job[a].phase = "ready"
  /\ Live(a) /\ c.agent = a /\ c.request = turn[a].request /\ Tracked(c.request)
  /\ c.kind = "provider-request"
  /\ Boundary(c)
  /\ job' = [job EXCEPT ![a].phase = "asked", ![a].call = c]
  /\ UNCHANGED <<turn, call, inbox, awaited, summaries>>

\* currentRequestId() knows no running turn, or one without a limit: the request crosses unasked.
SummaryUnasked(a) ==
  /\ job[a].phase = "ready"
  /\ ~Live(a) \/ ~Tracked(turn[a].request)
  /\ job' = [job EXCEPT ![a].phase = "crossed"]
  /\ UNCHANGED <<gate, turn, call, inbox, awaited, summaries>>

SummaryProceeds(a) ==
  /\ job[a].phase = "asked" /\ status[job[a].call] = "proceed"
  /\ job' = [job EXCEPT ![a].phase = "crossed", ![a].call = NoCall]
  /\ UNCHANGED <<gate, turn, call, inbox, awaited, summaries>>

\* Counted for the request the summary was captured for, if the gate still tracks it.
SendSummary(a) ==
  LET r == job[a].request IN
  /\ job[a].phase = "crossed"
  /\ job' = [job EXCEPT ![a].phase = "ready"]
  /\ IF Tracked(r)
       THEN /\ NoteProviderRequest(r, a)
            /\ summaries' = [summaries EXCEPT ![r] = @ + 1]
       ELSE UNCHANGED <<gate, summaries>>
  /\ UNCHANGED <<turn, call, inbox, awaited>>

\* Prepared, refused, out of time or cancelled: a held boundary of it is released by its signal.
EndSummary(a) ==
  /\ job[a].phase # "none"
  /\ Refused({}, {job[a].call})
  /\ job' = [job EXCEPT ![a] = NoJob]
  /\ UNCHANGED <<reserved, prompts, disposed, turn, call, inbox, awaited, summaries>>

-----------------------------------------------------------------------------
(* What the host does to the gate alone.  Its shutdown (Dispose), which     *)
(* ends every turn with it, is checked with the gate.                      *)

Answered(r) == AnswerContinue(r) /\ UNCHANGED team
LateAnswer(r) == AnswerLate(r) /\ UNCHANGED team

LInit ==
  /\ Init
  /\ turn = [a \in Agents |-> Idle(NoRequest)]
  /\ call = [a \in Agents |-> NoCall]
  /\ job = [a \in Agents |-> NoJob]
  /\ inbox = {}
  /\ awaited = {}
  /\ summaries = [r \in Requests |-> 0]

TurnStep(a) ==
  \/ \E r \in Requests, setting \in LimitSettings : NewRequest(a, r, setting)
  \/ \E r \in Requests : ContinueRequest(a, r) \/ Wake(a, r) \/ DropAwaited(a, r)
  \/ StartUnlimited(a)
  \/ \E c \in Calls : Ask(a, c)
  \/ Proceed(a) \/ Send(a) \/ CompactFirst(a) \/ Act(a)
  \/ \E b \in Agents : Dispatch(a, b)
  \/ EndTurn(a) \/ UserStop(a) \/ RefusalEndsTurn(a)

SummaryStep(a) ==
  \/ StartSummary(a) \/ SummaryUnasked(a) \/ SummaryProceeds(a) \/ SendSummary(a) \/ EndSummary(a)
  \/ \E c \in Calls : AskSummary(a, c)

DecisionStep(r) == Answered(r) \/ LateAnswer(r) \/ StopByAnswer(r) \/ StopByTimer(r)

LNext ==
  \/ \E a \in Agents : TurnStep(a) \/ SummaryStep(a)
  \/ \E r \in Requests : DecisionStep(r)

LSpec == LInit /\ [][LNext]_all

-----------------------------------------------------------------------------
(* Properties.                                                             *)

LTypeOK ==
  /\ TypeOK
  /\ turn \in [Agents -> [request : Requests \union {NoRequest},
                          phase : {"idle", "starting", "asked", "crossed", "acting", "running"}]]
  /\ call \in [Agents -> Calls \union {NoCall}]
  /\ job \in [Agents -> [request : Requests \union {NoRequest}, call : Calls \union {NoCall},
                         phase : {"none", "ready", "asked", "crossed"}]]
  /\ inbox \subseteq Agents \X Requests
  /\ awaited \subseteq Agents \X Requests
  /\ summaries \in [Requests -> Nat]
  /\ \A a \in Agents :
       /\ (call[a] # NoCall) <=> (turn[a].phase = "asked")
       /\ (job[a].call # NoCall) <=> (job[a].phase = "asked")

\* Turns keep the limit: whatever the order of their questions, stops, compactions and hand-overs, the only requests
\* counted beyond the allowance are those of background summaries (SessionManager.ts holdTurnStart and
\* releaseTurnReservation with RequestLimitBinding.ts).
OnlySummariesOverrun ==
  \A r \in Requests :
    Tracked(r) /\ configured[r].turns > 0
      => ObservedTurns(r, reserved[r]) <= Allowance(configured[r].turns, allowances[r]) + summaries[r]

\* A request that never left does not stay counted: what is reserved for an agent that runs no background summary
\* belongs to a turn of that agent that is live in that very request (releaseTurnReservation, forgetTurnRequest).
ReservationHasTurn ==
  \A r \in Requests : \A c \in reserved[r] :
    c.agent \notin Summarisers => Live(c.agent) /\ turn[c.agent].request = r

\* Nothing of a request the person stopped runs on: a turn of it that starts later gets no further than the refusal of
\* its start.
StoppedRunsNothing ==
  \A r \in Requests : state[r] = "stopped" =>
    \A a \in Agents : turn[a].request = r =>
      \/ turn[a].phase \in {"idle", "starting"}
      \/ turn[a].phase = "asked" /\ call[a].kind = "turn-start" /\ status[call[a]] = "stopped"

\* A limited request is forgotten only when nothing can name it again: no turn runs under it, and no message of it is
\* queued, at the moment or ever after (forgetUnreachable with reachableRequestIds).
ForgottenIsOver ==
  \A r \in Requests : state[r] = "untracked" /\ configured[r].turns + configured[r].tokens > 0 =>
    \A a \in Agents : ~(Live(a) /\ turn[a].request = r) /\ <<a, r>> \notin inbox \union awaited

\* extension.ts: "a summary request is held at a reached request limit like the agent's own model requests".
SummaryHeldAtLimit ==
  \A r \in Requests :
    Tracked(r) /\ configured[r].turns > 0
      => ObservedTurns(r, reserved[r]) <= Allowance(configured[r].turns, allowances[r])

=============================================================================
