--------------------------- MODULE RequestCeiling ---------------------------
(***************************************************************************)
(* The request ceiling: the gate that owns what happens when a request     *)
(* reaches a limit the person configured (src/src/host/RequestCeiling.ts). *)
(*                                                                         *)
(* A request moves open -> awaiting-decision -> open | stopped.  A caller  *)
(* about to send a model request, start a turn or act asks the gate at a   *)
(* boundary.  Inside the limits it crosses at once, and a boundary that is *)
(* followed by a counted request reserves that request in the same step.   *)
(* At a reached limit it is held behind the one open decision.             *)
(*                                                                         *)
(* A member of Calls is one call of boundary(): the request and the agent  *)
(* it is made for and whether it reserves.  The code keeps the number of   *)
(* reservations per agent; the model keeps the calls that made them, so an *)
(* agent's counter is the number of its calls in the set.                  *)
(***************************************************************************)
EXTENDS Integers, FiniteSets, Functions

CONSTANTS
  Requests,       \* request ids: fresh UUIDs, one begin() each
  Agents,         \* agents that make the requests
  Calls,          \* calls of boundary(): records with fields request, agent, reserves
  Units,          \* usage units
  Figures,        \* raw-token totals a usage report may carry
  LimitSettings,  \* values of the setting: [turns |-> n, tokens |-> n], 0 is no limit
  MaxTracked,     \* MAX_TRACKED_REQUESTS
  MaxCounted,     \* bound: requests counted per request id
  MaxSettled      \* bound: settled tokens per request id

ASSUME CallsAssumption ==
  \A c \in Calls : c.request \in Requests /\ c.agent \in Agents /\ c.reserves \in BOOLEAN

ASSUME BoundsAssumption ==
  /\ Figures \subseteq Nat
  /\ LimitSettings \subseteq [turns : Nat, tokens : Nat]
  /\ MaxTracked \in Nat /\ MaxCounted \in Nat /\ MaxSettled \in Nat

VARIABLES
  state,         \* per request: "new", "untracked" or a tracked state
  configured,    \* limits pinned when the request began
  counted,       \* providerRequests + hostCountedTurns
  reserved,      \* calls that crossed and whose request is not counted yet
  settledTokens, \* raw tokens of the usage units that are over
  tokensByUnit,  \* latest figure of each unit that is open, -1 when it is not
  allowances,    \* tranches added
  crossings,     \* times a limit was reached
  crossedAt,     \* allowances when the last crossing was counted, -1 for none
  held,          \* calls behind the open decision
  ahead,         \* per held call: the calls before it there, whose Set keeps the order they came in
  decision,      \* number of the open decision, 0 when none is open
  asked,         \* decisions opened so far
  prompts,       \* decisions whose prompt has not answered yet
  status,        \* per call: "idle", "held" (its promise is pending), "proceed" or "stopped"
  disposed,      \* the host is shutting down
  unreserved     \* history: requests counted that no call had reserved

limits   == <<configured>>
totals   == <<counted, reserved, unreserved>>
tokens   == <<settledTokens, tokensByUnit>>
decided  == <<allowances, crossings, crossedAt, held, ahead, decision, asked, prompts>>
vars     == <<state, limits, totals, tokens, decided, status, disposed>>

TrackedStates == {"open", "awaiting-decision", "stopped"}
NoTokens == -1

-----------------------------------------------------------------------------
(* What the gate computes from its state.                                  *)

Tracked(r) == state[r] \in TrackedStates

ObservedTurns(r, taken) == counted[r] + Cardinality(taken)

\* Units that are not open report nothing.
ObservedTokens(r) ==
  settledTokens[r]
    + SumFunctionOnSet(tokensByUnit[r], {u \in Units : tokensByUnit[r][u] # NoTokens})

\* A limit of `configured` allows one tranche more for each Continue.
Allowance(configuredLimit, tranches) == configuredLimit * (tranches + 1)

\* Reaching the allowance exactly is reaching it.
TurnsReached(r, taken, tranches) ==
  /\ configured[r].turns > 0
  /\ ObservedTurns(r, taken) >= Allowance(configured[r].turns, tranches)

TokensReached(r, tranches) ==
  /\ configured[r].tokens > 0
  /\ ObservedTokens(r) >= Allowance(configured[r].tokens, tranches)

ReachedWith(r, taken, tranches) == TurnsReached(r, taken, tranches) \/ TokensReached(r, tranches)

Reached(r) == ReachedWith(r, reserved[r], allowances[r])

\* Mutant: a stopped request is asked about again.
WouldHoldStopped(r) == Tracked(r) /\ (state[r] # "open" \/ Reached(r))

\* What a caller reads to know that its wait would be the person's.
WouldHold(r) == state[r] = "awaiting-decision" \/ (state[r] = "open" /\ Reached(r))

Reserving(cs) == {c \in cs : c.reserves}

-----------------------------------------------------------------------------
(* begin(): pin the limits configured now.  At MaxTracked requests the     *)
(* gate first forgets those the host says nothing can continue.            *)

Forgettable(reachable) ==
  {q \in Requests : Tracked(q) /\ decision[q] = 0 /\ q \notin reachable}

\* With fewer requests nothing is forgotten, and neither when the host cannot say.
Forgotten(reachable) ==
  IF Cardinality({q \in Requests : Tracked(q)}) < MaxTracked THEN {} ELSE Forgettable(reachable)

Begin(r, setting, reachable) ==
  /\ state[r] = "new"
  /\ IF setting.turns = 0 /\ setting.tokens = 0
       THEN /\ state' = [state EXCEPT ![r] = "untracked"]
            /\ UNCHANGED <<limits, totals, tokens>>
       ELSE /\ state' = [[q \in Requests |-> IF q \in Forgotten(reachable) THEN "untracked" ELSE state[q]]
                           EXCEPT ![r] = IF disposed THEN "stopped" ELSE "open"]
            /\ configured' = [configured EXCEPT ![r] = setting]
            /\ reserved' = [q \in Requests |-> IF q \in Forgotten(reachable) THEN {} ELSE reserved[q]]
            /\ UNCHANGED <<counted, unreserved, tokens>>
  /\ UNCHANGED <<decided, status, disposed>>

-----------------------------------------------------------------------------
(* The totals.                                                             *)

\* noteProviderRequest(): the agent's reservation becomes the count.
NoteProviderRequest(r, a) ==
  LET own == {c \in reserved[r] : c.agent = a} IN
  /\ Tracked(r) /\ counted[r] < MaxCounted
  /\ counted' = [counted EXCEPT ![r] = @ + 1]
  /\ \/ /\ \E c \in own : reserved' = [reserved EXCEPT ![r] = @ \ {c}]
        /\ UNCHANGED unreserved
     \/ /\ own = {}
        /\ unreserved' = [unreserved EXCEPT ![r] = @ + 1]
        /\ UNCHANGED reserved
  /\ UNCHANGED <<state, limits, tokens, decided, status, disposed>>

\* release(): the agent's turn is over and makes none of what it reserved.
Release(r, a) ==
  /\ Tracked(r)
  /\ reserved' = [reserved EXCEPT ![r] = {c \in @ : c.agent # a}]
  /\ UNCHANGED <<state, limits, counted, unreserved, tokens, decided, status, disposed>>

\* noteUsage(): a later figure of the same unit replaces the earlier one.
NoteUsage(r, u, n) ==
  /\ Tracked(r)
  /\ tokensByUnit' = [tokensByUnit EXCEPT ![r][u] = n]
  /\ UNCHANGED <<state, limits, totals, settledTokens, decided, status, disposed>>

\* Mutant: a unit that reported nothing has no figure of its own to fall back on.
SettleUsageUndefaulted(r, u, n) ==
  LET final == IF n = NoTokens THEN tokensByUnit[r][u] ELSE n
  IN  /\ Tracked(r) /\ settledTokens[r] + final <= MaxSettled
      /\ tokensByUnit' = [tokensByUnit EXCEPT ![r][u] = NoTokens]
      /\ settledTokens' = [settledTokens EXCEPT ![r] = @ + final]
      /\ UNCHANGED <<state, limits, totals, decided, status, disposed>>

\* settleUsage(): the terminal figure, or without one (NoTokens) the last reported one.
SettleUsage(r, u, n) ==
  LET last  == IF tokensByUnit[r][u] = NoTokens THEN 0 ELSE tokensByUnit[r][u]
      final == IF n = NoTokens THEN last ELSE n
  IN  /\ Tracked(r) /\ settledTokens[r] + final <= MaxSettled
      /\ tokensByUnit' = [tokensByUnit EXCEPT ![r][u] = NoTokens]
      /\ settledTokens' = [settledTokens EXCEPT ![r] = @ + final]
      /\ UNCHANGED <<state, limits, totals, decided, status, disposed>>

-----------------------------------------------------------------------------
(* boundary(): cross at once, be refused, or be held behind the decision.  *)

\* Mutant: only the limit is looked at, not the decision that is open.
CrossWhileAwaited(c) ==
  /\ status[c] = "idle" /\ state[c.request] \in {"open", "awaiting-decision"} /\ ~Reached(c.request)
  /\ reserved' = [reserved EXCEPT ![c.request] = @ \union Reserving({c})]
  /\ status' = [status EXCEPT ![c] = "proceed"]
  /\ UNCHANGED <<state, limits, counted, unreserved, tokens, decided, disposed>>

\* Mutant: the count is read as the boundary is crossed, and grows only when the request leaves.
CrossUnreserved(c) ==
  /\ status[c] = "idle"
  /\ ~Tracked(c.request) \/ (state[c.request] = "open" /\ ~Reached(c.request))
  /\ status' = [status EXCEPT ![c] = "proceed"]
  /\ UNCHANGED <<state, limits, totals, tokens, decided, disposed>>

Cross(c) ==
  /\ status[c] = "idle"
  /\ \/ ~Tracked(c.request) /\ UNCHANGED reserved
     \/ /\ state[c.request] = "open" /\ ~Reached(c.request)
        /\ reserved' = [reserved EXCEPT ![c.request] = @ \union Reserving({c})]
  /\ status' = [status EXCEPT ![c] = "proceed"]
  /\ UNCHANGED <<state, limits, counted, unreserved, tokens, decided, disposed>>

\* A stopped request refuses.
RefuseStopped(c) ==
  /\ status[c] = "idle" /\ state[c.request] = "stopped"
  /\ status' = [status EXCEPT ![c] = "stopped"]
  /\ UNCHANGED <<state, limits, totals, tokens, decided, disposed>>

\* A caller whose signal is already aborted is not held and opens no prompt.
RefuseAborted(c) ==
  /\ status[c] = "idle" /\ WouldHold(c.request)
  /\ status' = [status EXCEPT ![c] = "stopped"]
  /\ UNCHANGED <<state, limits, totals, tokens, decided, disposed>>

\* Calls leave the decision they were held behind.
Leave(gone) ==
  /\ held' = [r \in Requests |-> held[r] \ gone]
  /\ ahead' = [c \in Calls |-> IF c \in gone THEN {} ELSE ahead[c] \ gone]

\* Mutant: every decision counts a crossing.
OpenDecisionRecounted(r, tranches) ==
  /\ state' = [state EXCEPT ![r] = "awaiting-decision"]
  /\ asked' = [asked EXCEPT ![r] = @ + 1]
  /\ decision' = [decision EXCEPT ![r] = asked[r] + 1]
  /\ crossings' = [crossings EXCEPT ![r] = @ + 1]
  /\ crossedAt' = [crossedAt EXCEPT ![r] = tranches]

\* hold() without a decision: openDecision() and ask(), at this number of tranches.
OpenDecision(r, tranches) ==
  /\ state' = [state EXCEPT ![r] = "awaiting-decision"]
  /\ asked' = [asked EXCEPT ![r] = @ + 1]
  /\ decision' = [decision EXCEPT ![r] = asked[r] + 1]
  /\ crossings' = [crossings EXCEPT ![r] = IF crossedAt[r] = tranches THEN @ ELSE @ + 1]
  /\ crossedAt' = [crossedAt EXCEPT ![r] = tranches]

Hold(c) ==
  LET r == c.request IN
  /\ status[c] = "idle" /\ WouldHold(r)
  /\ status' = [status EXCEPT ![c] = "held"]
  /\ held' = [held EXCEPT ![r] = @ \union {c}]
  /\ ahead' = [ahead EXCEPT ![c] = held[r]]
  /\ \/ decision[r] # 0 /\ UNCHANGED <<state, crossings, crossedAt, decision, asked, prompts>>
     \/ /\ decision[r] = 0
        /\ OpenDecision(r, allowances[r])
        /\ prompts' = [prompts EXCEPT ![r] = @ \union {asked[r] + 1}]
  /\ UNCHANGED <<limits, totals, tokens, allowances, disposed>>

\* Mutant: the decision stays open when its last boundary is stopped by its own caller.
RefusedStillOpen(stopping, cs) ==
  LET gone == UNION {held[r] \intersect (IF r \in stopping THEN Calls ELSE cs) : r \in Requests}
  IN  /\ Leave(gone)
      /\ status' = [c \in Calls |-> IF c \in gone THEN "stopped" ELSE status[c]]
      /\ decision' = [r \in Requests |-> IF r \in stopping THEN 0 ELSE decision[r]]
      /\ state' = [r \in Requests |-> IF r \in stopping THEN "stopped" ELSE state[r]]
      /\ UNCHANGED <<limits, counted, unreserved, tokens, allowances, crossings, crossedAt, asked>>

\* Held boundaries are refused: all those of the requests that are stopped, and those whose own caller is stopped.
\* A request with nobody left behind its decision closes the prompt; unless it is stopped, it is open again.
Refused(stopping, cs) ==
  LET gone == UNION {held[r] \intersect (IF r \in stopping THEN Calls ELSE cs) : r \in Requests}
      over(r) == decision[r] # 0 /\ held[r] \subseteq gone
  IN  /\ Leave(gone)
      /\ status' = [c \in Calls |-> IF c \in gone THEN "stopped" ELSE status[c]]
      /\ decision' = [r \in Requests |-> IF over(r) THEN 0 ELSE decision[r]]
      /\ state' = [r \in Requests |->
                     IF r \in stopping THEN "stopped" ELSE IF over(r) THEN "open" ELSE state[r]]
      /\ UNCHANGED <<limits, counted, unreserved, tokens, allowances, crossings, crossedAt, asked>>

\* The caller's own signal aborts.
Abort(c) ==
  /\ status[c] = "held"
  /\ Refused({}, {c})
  /\ UNCHANGED <<reserved, prompts, disposed>>

-----------------------------------------------------------------------------
(* settle(): the one answer of the open decision.                          *)

\* What is reserved once these calls have crossed too.
Taken(r, cs) == reserved[r] \union Reserving(cs)

\* Mutant: Continue lets everyone who waits cross.
AdmittedAll(r, last) == held[r] = ahead[last] \union {last}

\* admit(): the first boundary crosses, each next one while the new allowance is not reached; `last` is the last one.
AdmittedUpTo(r, last) ==
  /\ ahead[last] = {} \/ ~ReachedWith(r, Taken(r, ahead[last]), allowances[r] + 1)
  /\ held[r] = ahead[last] \union {last}
       \/ ReachedWith(r, Taken(r, ahead[last] \union {last}), allowances[r] + 1)

\* The boundaries that the new allowance does not cover are held again, behind a new decision.
ContinueUpTo(r, last) ==
  LET crossing == ahead[last] \union {last} IN
  /\ Leave(crossing)
  /\ allowances' = [allowances EXCEPT ![r] = @ + 1]
  /\ reserved' = [reserved EXCEPT ![r] = Taken(r, crossing)]
  /\ status' = [c \in Calls |-> IF c \in crossing THEN "proceed" ELSE status[c]]
  /\ \/ /\ crossing = held[r]
        /\ state' = [state EXCEPT ![r] = "open"]
        /\ decision' = [decision EXCEPT ![r] = 0]
        /\ prompts' = [prompts EXCEPT ![r] = @ \ {decision[r]}]
        /\ UNCHANGED <<crossings, crossedAt, asked>>
     \/ /\ crossing # held[r]
        /\ OpenDecision(r, allowances[r] + 1)
        /\ prompts' = [prompts EXCEPT ![r] = (@ \ {decision[r]}) \union {asked[r] + 1}]
  /\ UNCHANGED <<limits, counted, unreserved, tokens, disposed>>

AnswerContinue(r) ==
  /\ decision[r] # 0 /\ decision[r] \in prompts[r]
  /\ \E last \in held[r] : AdmittedUpTo(r, last) /\ ContinueUpTo(r, last)

\* Any other answer, and a prompt that failed.
AnswerStop(r) ==
  /\ decision[r] # 0 /\ decision[r] \in prompts[r]
  /\ Refused({r}, {})
  /\ prompts' = [prompts EXCEPT ![r] = @ \ {decision[r]}]
  /\ UNCHANGED <<reserved, disposed>>

\* Mutant: an answer settles whatever is open, with the boundaries of its own decision, of which none is left.
AnswerLateApplied(r) ==
  /\ \E d \in prompts[r] \ {decision[r]} : prompts' = [prompts EXCEPT ![r] = @ \ {d}]
  /\ state' = [state EXCEPT ![r] = "open"]
  /\ allowances' = [allowances EXCEPT ![r] = @ + 1]
  /\ decision' = [decision EXCEPT ![r] = 0]
  /\ UNCHANGED <<limits, totals, tokens, crossings, crossedAt, held, ahead, asked, status, disposed>>

\* The answer of a decision that is over, whatever it says, changes nothing.
AnswerLate(r) ==
  /\ \E d \in prompts[r] \ {decision[r]} : prompts' = [prompts EXCEPT ![r] = @ \ {d}]
  /\ UNCHANGED <<state, limits, totals, tokens, allowances, crossings, crossedAt, held, ahead, decision, asked, status, disposed>>

\* Mutant: the timer is set for the first decision alone.
ExpireFirst(r) ==
  /\ decision[r] = 1
  /\ Refused({r}, {})
  /\ UNCHANGED <<reserved, prompts, disposed>>

\* The timer of the open decision: nobody answered in time.
Expire(r) ==
  /\ decision[r] # 0
  /\ Refused({r}, {})
  /\ UNCHANGED <<reserved, prompts, disposed>>

\* dispose(): every tracked request is stopped and every held boundary refused.
Dispose ==
  /\ ~disposed
  /\ disposed' = TRUE
  /\ Refused({r \in Requests : Tracked(r)}, {})
  /\ UNCHANGED <<reserved, prompts>>

-----------------------------------------------------------------------------
Init ==
  /\ state = [r \in Requests |-> "new"]
  /\ configured = [r \in Requests |-> [turns |-> 0, tokens |-> 0]]
  /\ counted = [r \in Requests |-> 0]
  /\ reserved = [r \in Requests |-> {}]
  /\ unreserved = [r \in Requests |-> 0]
  /\ settledTokens = [r \in Requests |-> 0]
  /\ tokensByUnit = [r \in Requests |-> [u \in Units |-> NoTokens]]
  /\ allowances = [r \in Requests |-> 0]
  /\ crossings = [r \in Requests |-> 0]
  /\ crossedAt = [r \in Requests |-> -1]
  /\ held = [r \in Requests |-> {}]
  /\ ahead = [c \in Calls |-> {}]
  /\ decision = [r \in Requests |-> 0]
  /\ asked = [r \in Requests |-> 0]
  /\ prompts = [r \in Requests |-> {}]
  /\ status = [c \in Calls |-> "idle"]
  /\ disposed = FALSE

Totals(r) ==
  \/ \E a \in Agents : NoteProviderRequest(r, a) \/ Release(r, a)
  \/ \E u \in Units, n \in Figures : NoteUsage(r, u, n)
  \/ \E u \in Units, n \in Figures \union {NoTokens} : SettleUsage(r, u, n)

Answers(r) == AnswerContinue(r) \/ AnswerStop(r) \/ AnswerLate(r) \/ Expire(r)

Next ==
  \/ \E r \in Requests :
       \/ \E setting \in LimitSettings, reachable \in SUBSET Requests : Begin(r, setting, reachable)
       \/ Totals(r)
       \/ Answers(r)
  \/ \E c \in Calls : Cross(c) \/ RefuseStopped(c) \/ RefuseAborted(c) \/ Hold(c) \/ Abort(c)
  \/ Dispose

Spec == Init /\ [][Next]_vars

\* Every open decision has a running timer, and the timer fires.
FairSpec == Spec /\ \A r \in Requests : WF_vars(Expire(r))

-----------------------------------------------------------------------------
(* Properties.                                                             *)

TypeOK ==
  /\ state \in [Requests -> {"new", "untracked"} \union TrackedStates]
  /\ configured \in [Requests -> [turns : Nat, tokens : Nat]]
  /\ counted \in [Requests -> Nat]
  /\ reserved \in [Requests -> SUBSET Calls]
  /\ unreserved \in [Requests -> Nat]
  /\ settledTokens \in [Requests -> Nat]
  /\ tokensByUnit \in [Requests -> [Units -> Nat \union {NoTokens}]]
  /\ allowances \in [Requests -> Nat]
  /\ crossings \in [Requests -> Nat]
  /\ crossedAt \in [Requests -> Nat \union {-1}]
  /\ held \in [Requests -> SUBSET Calls]
  /\ ahead \in [Calls -> SUBSET Calls]
  /\ decision \in [Requests -> Nat]
  /\ asked \in [Requests -> Nat]
  /\ prompts \in [Requests -> SUBSET Nat]
  /\ status \in [Calls -> {"idle", "held", "proceed", "stopped"}]
  /\ disposed \in BOOLEAN

\* A call waits exactly while it stands behind the one open decision of its own request, in one line with the others,
\* and a decision is open exactly while its request awaits it: no caller is left waiting for a prompt that is gone, and
\* no prompt is left open for nobody (RequestCeiling.ts hold, settle, withdraw, dispose).
HeldBehindDecision ==
  /\ \A c \in Calls : status[c] = "held" <=> c \in held[c.request]
  /\ \A r \in Requests :
       /\ \A c \in held[r] : c.request = r /\ ahead[c] \subseteq held[r] \ {c}
       /\ \A c, d \in held[r] : c = d \/ (c \in ahead[d] <=> d \notin ahead[c])
       /\ (state[r] = "awaiting-decision") <=> (decision[r] # 0)
       /\ (decision[r] # 0) <=> (held[r] # {})

\* What was counted and what may still be counted never exceeds the configured limit and the tranches the person
\* added, but for requests counted that nobody had reserved: two callers that ask at the same count cannot both pass
\* the last allowance (the file's header comment).
AllowanceRespected ==
  \A r \in Requests :
    Tracked(r) /\ configured[r].turns > 0
      => ObservedTurns(r, reserved[r]) <= Allowance(configured[r].turns, allowances[r]) + unreserved[r]

\* A tranche is added only by the answer of the very decision that is open, which is over with it: the answer of a
\* prompt that was withdrawn, replaced or timed out buys nothing, whatever it says and whenever it comes.
TrancheAnswersItsDecision ==
  [][\A r \in Requests : allowances'[r] # allowances[r] =>
       /\ allowances'[r] = allowances[r] + 1
       /\ decision[r] \in prompts[r] \ prompts'[r]
       /\ decision'[r] # decision[r]]_vars

\* A crossing is counted once for each allowance at which the person was asked, however often a prompt was withdrawn
\* and asked again there.
CrossingPerAllowance ==
  \A r \in Requests :
    /\ crossings[r] = allowances[r] + (IF crossedAt[r] = allowances[r] THEN 1 ELSE 0)
    /\ decision[r] # 0 => crossedAt[r] = allowances[r]

\* A stopped request never runs again: no boundary of it is crossed and nothing of it is held or reserved anew.  It
\* may only be forgotten, once the host says that nothing can continue it.
StoppedIsFinal ==
  [][\A r \in Requests : state[r] = "stopped" =>
       /\ state'[r] \in {"stopped", "untracked"}
       /\ reserved'[r] \subseteq reserved[r]
       /\ \A c \in Calls : c.request = r /\ status'[c] = "proceed" => status[c] = "proceed"]_vars

\* Nobody overtakes a held boundary of the same request: who crosses while another stays held came before it.
NoOvertaking ==
  [][\A c, d \in Calls :
       /\ c.request = d.request
       /\ status[c] # "proceed" /\ status'[c] = "proceed"
       /\ status[d] = "held" /\ status'[d] = "held"
       => c \in ahead[d]]_vars

\* A held boundary is always answered: by the person, by its caller's abort, by the host's end or by the timer.
HeldIsAnswered == \A c \in Calls : (status[c] = "held") ~> (status[c] # "held")

=============================================================================
