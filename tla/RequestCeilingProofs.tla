------------------------ MODULE RequestCeilingProofs ------------------------
(***************************************************************************)
(* Theorems of the request ceiling, for every set of requests, agents,     *)
(* calls and limits.                                                       *)
(***************************************************************************)
EXTENDS RequestCeiling, FiniteSetTheorems, TLAPS

-----------------------------------------------------------------------------
(* Type correctness.                                                       *)

\* A function with one value replaced.
LEMMA ReplacedValue ==
  ASSUME NEW D, NEW R, NEW f \in [D -> R], NEW d \in D, NEW v \in R
  PROVE  [f EXCEPT ![d] = v] \in [D -> R]
OBVIOUS

LEMMA RefusedType ==
  ASSUME TypeOK, NEW stopping \in SUBSET Requests, NEW cs, Refused(stopping, cs)
  PROVE  /\ state' \in [Requests -> {"new", "untracked"} \union TrackedStates]
         /\ held' \in [Requests -> SUBSET Calls]
         /\ ahead' \in [Calls -> SUBSET Calls]
         /\ decision' \in [Requests -> Nat]
         /\ status' \in [Calls -> {"idle", "held", "proceed", "stopped"}]
         /\ UNCHANGED <<limits, counted, unreserved, tokens, allowances, crossings, crossedAt, asked>>
<1>1. held' \in [Requests -> SUBSET Calls] /\ ahead' \in [Calls -> SUBSET Calls]
  BY DEF TypeOK, Refused, Leave
<1>2. /\ state' \in [Requests -> {"new", "untracked"} \union TrackedStates]
      /\ decision' \in [Requests -> Nat]
  BY DEF TypeOK, Refused, TrackedStates
<1>3. status' \in [Calls -> {"idle", "held", "proceed", "stopped"}]
  BY DEF TypeOK, Refused
<1>. QED BY <1>1, <1>2, <1>3 DEF Refused

LEMMA OpenDecisionType ==
  ASSUME TypeOK, NEW r \in Requests, NEW tranches \in Nat, OpenDecision(r, tranches)
  PROVE  /\ state' \in [Requests -> {"new", "untracked"} \union TrackedStates]
         /\ asked' \in [Requests -> Nat]
         /\ decision' \in [Requests -> Nat]
         /\ crossings' \in [Requests -> Nat]
         /\ crossedAt' \in [Requests -> Nat \union {-1}]
<1>1. state' \in [Requests -> {"new", "untracked"} \union TrackedStates]
  BY DEF TypeOK, OpenDecision, TrackedStates
<1>2. asked' \in [Requests -> Nat] /\ decision' \in [Requests -> Nat]
  BY DEF TypeOK, OpenDecision
<1>3. crossings' \in [Requests -> Nat]
  BY DEF TypeOK, OpenDecision
<1>4. crossedAt' \in [Requests -> Nat \union {-1}]
  BY DEF TypeOK, OpenDecision
<1>. QED BY <1>1, <1>2, <1>3, <1>4

LEMMA TypeStep ==
  ASSUME TypeOK, [Next]_vars
  PROVE  TypeOK'
<1>. USE DEF limits, totals, tokens, decided
<1>1. ASSUME NEW r \in Requests, NEW setting \in LimitSettings, NEW reachable \in SUBSET Requests,
             Begin(r, setting, reachable)
      PROVE  TypeOK'
  <2>1. setting \in [turns : Nat, tokens : Nat]
    BY BoundsAssumption
  <2>2. CASE setting.turns = 0 /\ setting.tokens = 0
    BY <1>1, <2>2 DEF TypeOK, Begin
  <2>3. CASE ~(setting.turns = 0 /\ setting.tokens = 0)
    <3>1. state' \in [Requests -> {"new", "untracked"} \union TrackedStates]
      <4>. DEFINE kept == [q \in Requests |-> IF q \in Forgotten(reachable) THEN "untracked" ELSE state[q]]
      <4>1. kept \in [Requests -> {"new", "untracked"} \union TrackedStates]
        BY DEF TypeOK
      <4>2. state' = [kept EXCEPT ![r] = IF disposed THEN "stopped" ELSE "open"]
        BY <1>1, <2>3 DEF Begin
      <4>. HIDE DEF kept
      <4>. QED BY <4>1, <4>2 DEF TrackedStates
    <3>2. configured' \in [Requests -> [turns : Nat, tokens : Nat]]
      <4>1. configured \in [Requests -> [turns : Nat, tokens : Nat]]
        BY DEF TypeOK
      <4>2. configured' = [configured EXCEPT ![r] = setting]
        BY <1>1, <2>3 DEF Begin
      <4>. QED BY <2>1, <4>1, <4>2, ReplacedValue
    <3>3. reserved' \in [Requests -> SUBSET Calls]
      BY <1>1, <2>3 DEF TypeOK, Begin
    <3>. QED BY <1>1, <2>3, <3>1, <3>2, <3>3 DEF TypeOK, Begin
  <2>. QED BY <2>2, <2>3
<1>2. ASSUME NEW r \in Requests, NEW a \in Agents, NoteProviderRequest(r, a)
      PROVE  TypeOK'
  <2>0. unreserved' \in [Requests -> Nat]
    BY <1>2 DEF TypeOK, NoteProviderRequest
  <2>1. counted' \in [Requests -> Nat]
    BY <1>2 DEF TypeOK, NoteProviderRequest
  <2>2. reserved \in [Requests -> SUBSET Calls] /\ reserved[r] \in SUBSET Calls
    BY DEF TypeOK
  <2>3. reserved' \in [Requests -> SUBSET Calls]
    <3>1. CASE UNCHANGED reserved
      BY <2>2, <3>1
    <3>2. CASE \E c \in reserved[r] : reserved' = [reserved EXCEPT ![r] = @ \ {c}]
      <4>1. PICK c \in reserved[r] : reserved' = [reserved EXCEPT ![r] = reserved[r] \ {c}]
        BY <3>2
      <4>2. reserved[r] \ {c} \in SUBSET Calls
        BY <2>2
      <4>. QED BY <2>2, <4>1, <4>2, ReplacedValue
    <3>. QED BY <1>2, <3>1, <3>2 DEF NoteProviderRequest
  <2>4. UNCHANGED <<state, limits, tokens, decided, status, disposed>>
    BY <1>2 DEF NoteProviderRequest
  <2>. QED BY <2>0, <2>1, <2>3, <2>4 DEF TypeOK
<1>3. ASSUME NEW r \in Requests, NEW a \in Agents, Release(r, a)
      PROVE  TypeOK'
  BY <1>3 DEF TypeOK, Release
<1>4. ASSUME NEW r \in Requests, NEW u \in Units, NEW n \in Figures, NoteUsage(r, u, n)
      PROVE  TypeOK'
  BY <1>4, BoundsAssumption DEF TypeOK, NoteUsage
<1>5. ASSUME NEW r \in Requests, NEW u \in Units, NEW n \in Figures \union {NoTokens}, SettleUsage(r, u, n)
      PROVE  TypeOK'
  BY <1>5, BoundsAssumption DEF TypeOK, SettleUsage, NoTokens
<1>6. ASSUME NEW c \in Calls, Cross(c)
      PROVE  TypeOK'
  <2>1. reserved' \in [Requests -> SUBSET Calls]
    <3>1. /\ c.request \in Requests /\ reserved \in [Requests -> SUBSET Calls]
          /\ reserved[c.request] \union Reserving({c}) \in SUBSET Calls
      BY CallsAssumption DEF TypeOK, Reserving
    <3>2. UNCHANGED reserved
            \/ reserved' = [reserved EXCEPT ![c.request] = reserved[c.request] \union Reserving({c})]
      BY <1>6 DEF Cross
    <3>. QED BY <3>1, <3>2, ReplacedValue
  <2>2. status' \in [Calls -> {"idle", "held", "proceed", "stopped"}]
    BY <1>6 DEF TypeOK, Cross
  <2>. QED BY <1>6, <2>1, <2>2 DEF TypeOK, Cross
<1>7. ASSUME NEW c \in Calls, RefuseStopped(c) \/ RefuseAborted(c)
      PROVE  TypeOK'
  BY <1>7 DEF TypeOK, RefuseStopped, RefuseAborted
<1>8. ASSUME NEW c \in Calls, Hold(c)
      PROVE  TypeOK'
  <2>1. held' \in [Requests -> SUBSET Calls] /\ ahead' \in [Calls -> SUBSET Calls]
    BY <1>8, CallsAssumption DEF TypeOK, Hold
  <2>2. status' \in [Calls -> {"idle", "held", "proceed", "stopped"}]
    BY <1>8 DEF TypeOK, Hold
  <2>3. CASE decision[c.request] # 0 /\ UNCHANGED <<state, crossings, crossedAt, decision, asked, prompts>>
    BY <1>8, <2>1, <2>2, <2>3 DEF TypeOK, Hold
  <2>4. CASE /\ OpenDecision(c.request, allowances[c.request])
             /\ prompts' = [prompts EXCEPT ![c.request] = @ \union {asked[c.request] + 1}]
    <3>1. c.request \in Requests /\ allowances[c.request] \in Nat /\ asked[c.request] \in Nat
      BY CallsAssumption DEF TypeOK
    <3>2. prompts' \in [Requests -> SUBSET Nat]
      BY <2>4, <3>1 DEF TypeOK
    <3>. QED BY <1>8, <2>1, <2>2, <2>4, <3>1, <3>2, OpenDecisionType DEF TypeOK, Hold
  <2>. QED BY <1>8, <2>3, <2>4 DEF Hold
<1>9. ASSUME NEW c \in Calls, Abort(c)
      PROVE  TypeOK'
  BY <1>9, RefusedType DEF TypeOK, Abort
<1>10. ASSUME NEW r \in Requests, AnswerContinue(r)
       PROVE  TypeOK'
  <2>1. PICK last \in held[r] : ContinueUpTo(r, last)
    BY <1>10 DEF AnswerContinue
  <2>2. held' \in [Requests -> SUBSET Calls] /\ ahead' \in [Calls -> SUBSET Calls]
    BY <2>1 DEF TypeOK, ContinueUpTo, Leave
  <2>3. reserved' \in [Requests -> SUBSET Calls] /\ allowances' \in [Requests -> Nat]
    BY <2>1 DEF TypeOK, ContinueUpTo, Taken, Reserving
  <2>4. status' \in [Calls -> {"idle", "held", "proceed", "stopped"}]
    BY <2>1 DEF TypeOK, ContinueUpTo
  <2>5. prompts' \in [Requests -> SUBSET Nat]
    <3>1. /\ prompts \in [Requests -> SUBSET Nat]
          /\ prompts[r] \ {decision[r]} \in SUBSET Nat
          /\ (prompts[r] \ {decision[r]}) \union {asked[r] + 1} \in SUBSET Nat
      BY DEF TypeOK
    <3>2. \/ prompts' = [prompts EXCEPT ![r] = prompts[r] \ {decision[r]}]
          \/ prompts' = [prompts EXCEPT ![r] = (prompts[r] \ {decision[r]}) \union {asked[r] + 1}]
      BY <2>1 DEF ContinueUpTo
    <3>. QED BY <3>1, <3>2, ReplacedValue
  <2>6. CASE OpenDecision(r, allowances[r] + 1)
    <3>1. allowances[r] + 1 \in Nat
      BY DEF TypeOK
    <3>. QED BY <2>1, <2>2, <2>3, <2>4, <2>5, <2>6, <3>1, OpenDecisionType DEF TypeOK, ContinueUpTo
  <2>7. CASE ~OpenDecision(r, allowances[r] + 1)
    <3>1. /\ state' = [state EXCEPT ![r] = "open"]
          /\ decision' = [decision EXCEPT ![r] = 0]
          /\ UNCHANGED <<crossings, crossedAt, asked>>
          /\ UNCHANGED <<limits, counted, unreserved, tokens, disposed>>
      BY <2>1, <2>7 DEF ContinueUpTo
    <3>. QED BY <2>2, <2>3, <2>4, <2>5, <3>1 DEF TypeOK, TrackedStates
  <2>. QED BY <2>6, <2>7
<1>11. ASSUME NEW r \in Requests, AnswerStop(r)
       PROVE  TypeOK'
  BY <1>11, RefusedType, {r} \in SUBSET Requests DEF TypeOK, AnswerStop
<1>12. ASSUME NEW r \in Requests, AnswerLate(r)
       PROVE  TypeOK'
  BY <1>12 DEF TypeOK, AnswerLate
<1>13. ASSUME NEW r \in Requests, Expire(r)
       PROVE  TypeOK'
  BY <1>13, RefusedType, {r} \in SUBSET Requests DEF TypeOK, Expire
<1>14. CASE Dispose
  BY <1>14, RefusedType, {r \in Requests : Tracked(r)} \in SUBSET Requests DEF TypeOK, Dispose
<1>15. CASE UNCHANGED vars
  BY <1>15 DEF TypeOK, vars
<1>. QED
  BY <1>1, <1>2, <1>3, <1>4, <1>5, <1>6, <1>7, <1>8, <1>9, <1>10, <1>11, <1>12, <1>13, <1>14, <1>15
  DEF Next, Totals, Answers

-----------------------------------------------------------------------------
(* The line behind the decision.                                           *)

\* What is before a call's predecessor is before the call, and decisions are numbered as they are opened.
Line ==
  /\ HeldBehindDecision
  /\ \A r \in Requests : \A c \in held[r] : \A d \in ahead[c] : ahead[d] \subseteq ahead[c]
  /\ \A r \in Requests : decision[r] <= asked[r]

\* Calls that leave a line leave a line.
LEMMA LeaveLine ==
  ASSUME TypeOK, Line, NEW gone \in SUBSET Calls, Leave(gone)
  PROVE  \A r \in Requests :
           /\ \A c \in held'[r] : c.request = r /\ ahead'[c] \subseteq held'[r] \ {c}
           /\ \A c, d \in held'[r] : c = d \/ (c \in ahead'[d] <=> d \notin ahead'[c])
           /\ \A c \in held'[r] : \A d \in ahead'[c] : ahead'[d] \subseteq ahead'[c]
<1>. SUFFICES ASSUME NEW r \in Requests
              PROVE  /\ \A c \in held'[r] : c.request = r /\ ahead'[c] \subseteq held'[r] \ {c}
                     /\ \A c, d \in held'[r] : c = d \/ (c \in ahead'[d] <=> d \notin ahead'[c])
                     /\ \A c \in held'[r] : \A d \in ahead'[c] : ahead'[d] \subseteq ahead'[c]
  OBVIOUS
<1>1. held'[r] = held[r] \ gone /\ held[r] \subseteq Calls
  BY DEF Leave, TypeOK
<1>2. \A c \in Calls \ gone : ahead'[c] = ahead[c] \ gone
  BY DEF Leave
<1>3. \A c \in held[r] : c.request = r /\ ahead[c] \subseteq held[r] \ {c}
  BY DEF Line, HeldBehindDecision
<1>4. \A c, d \in held[r] : c = d \/ (c \in ahead[d] <=> d \notin ahead[c])
  BY DEF Line, HeldBehindDecision
<1>5. \A c \in held[r] : \A d \in ahead[c] : ahead[d] \subseteq ahead[c]
  BY DEF Line
<1>. QED BY <1>1, <1>2, <1>3, <1>4, <1>5

\* Refusing held boundaries, whoever is refused, leaves every line in order.
LEMMA RefusedLine ==
  ASSUME TypeOK, Line, NEW stopping \in SUBSET Requests, NEW cs, Refused(stopping, cs)
  PROVE  Line'
<1>. DEFINE gone == UNION {held[r] \intersect (IF r \in stopping THEN Calls ELSE cs) : r \in Requests}
            over(r) == decision[r] # 0 /\ held[r] \subseteq gone
<1>1. gone \in SUBSET Calls
  BY DEF TypeOK
<1>2. Leave(gone)
  BY DEF Refused
<1>3. \A r \in stopping : held[r] \subseteq gone
  BY DEF TypeOK
<1>4. /\ status' = [c \in Calls |-> IF c \in gone THEN "stopped" ELSE status[c]]
      /\ decision' = [r \in Requests |-> IF over(r) THEN 0 ELSE decision[r]]
      /\ state' = [r \in Requests |->
                     IF r \in stopping THEN "stopped" ELSE IF over(r) THEN "open" ELSE state[r]]
      /\ asked' = asked
  BY DEF Refused
<1>. HIDE DEF gone
<1>5. \A c \in Calls : status'[c] = "held" <=> c \in held'[c.request]
  BY <1>1, <1>2, <1>4, CallsAssumption DEF Leave, Line, HeldBehindDecision
<1>6. ASSUME NEW r \in Requests
      PROVE  /\ (state'[r] = "awaiting-decision") <=> (decision'[r] # 0)
             /\ (decision'[r] # 0) <=> (held'[r] # {})
             /\ decision'[r] <= asked'[r]
  <2>1. held'[r] = held[r] \ gone
    BY <1>2 DEF Leave
  <2>2. /\ (state[r] = "awaiting-decision") <=> (decision[r] # 0)
        /\ (decision[r] # 0) <=> (held[r] # {})
        /\ decision[r] <= asked[r] /\ asked[r] \in Nat /\ decision[r] \in Nat
    BY DEF Line, HeldBehindDecision, TypeOK
  <2>. QED BY <1>3, <1>4, <2>1, <2>2
<1>. QED BY <1>1, <1>2, <1>5, <1>6, LeaveLine DEF Line, HeldBehindDecision

LEMMA HoldLine ==
  ASSUME TypeOK, Line, NEW c \in Calls, Hold(c)
  PROVE  Line'
<1>. DEFINE r == c.request
<1>0. r \in Requests /\ held[r] \subseteq Calls
  BY CallsAssumption DEF TypeOK
<1>1. /\ status[c] = "idle" /\ c \notin held[r]
      /\ status' = [status EXCEPT ![c] = "held"]
      /\ held' = [held EXCEPT ![r] = held[r] \union {c}]
      /\ ahead' = [ahead EXCEPT ![c] = held[r]]
  BY DEF Hold, Line, HeldBehindDecision
<1>2. \A d \in Calls : status'[d] = "held" <=> d \in held'[d.request]
  BY <1>0, <1>1, CallsAssumption DEF TypeOK, Line, HeldBehindDecision
<1>3. ASSUME NEW q \in Requests
      PROVE  /\ \A d \in held'[q] : d.request = q /\ ahead'[d] \subseteq held'[q] \ {d}
             /\ \A d, e \in held'[q] : d = e \/ (d \in ahead'[e] <=> e \notin ahead'[d])
             /\ \A d \in held'[q] : \A e \in ahead'[d] : ahead'[e] \subseteq ahead'[d]
  <2>1. /\ \A d \in held[q] : d.request = q /\ ahead[d] \subseteq held[q] \ {d}
        /\ \A d, e \in held[q] : d = e \/ (d \in ahead[e] <=> e \notin ahead[d])
        /\ \A d \in held[q] : \A e \in ahead[d] : ahead[e] \subseteq ahead[d]
    BY DEF Line, HeldBehindDecision
  <2>2. held'[q] = IF q = r THEN held[r] \union {c} ELSE held[q]
    BY <1>0, <1>1 DEF TypeOK
  <2>3. /\ ahead'[c] = held[r]
        /\ \A d \in held[q] : d # c /\ ahead'[d] = ahead[d]
    BY <1>0, <1>1, <2>1 DEF TypeOK
  <2>4. CASE q = r
    BY <2>1, <2>2, <2>3, <2>4, <1>1
  <2>5. CASE q # r
    BY <2>1, <2>2, <2>3, <2>5
  <2>. QED BY <2>4, <2>5
<1>4. ASSUME NEW q \in Requests
      PROVE  /\ (state'[q] = "awaiting-decision") <=> (decision'[q] # 0)
             /\ (decision'[q] # 0) <=> (held'[q] # {})
             /\ decision'[q] <= asked'[q]
  <2>1. /\ (state[q] = "awaiting-decision") <=> (decision[q] # 0)
        /\ (decision[q] # 0) <=> (held[q] # {})
        /\ decision[q] <= asked[q] /\ asked[q] \in Nat /\ decision[q] \in Nat
    BY DEF Line, HeldBehindDecision, TypeOK
  <2>2. held'[q] = IF q = r THEN held[r] \union {c} ELSE held[q]
    BY <1>0, <1>1 DEF TypeOK
  <2>3. \/ decision[r] # 0 /\ UNCHANGED <<state, decision, asked>>
        \/ /\ state' = [state EXCEPT ![r] = "awaiting-decision"]
           /\ asked' = [asked EXCEPT ![r] = @ + 1]
           /\ decision' = [decision EXCEPT ![r] = asked[r] + 1]
    BY DEF Hold, OpenDecision
  <2>4. CASE q = r
    BY <1>0, <2>1, <2>2, <2>3, <2>4 DEF TypeOK
  <2>5. CASE q # r
    BY <1>0, <2>1, <2>2, <2>3, <2>5 DEF TypeOK
  <2>. QED BY <2>4, <2>5
<1>. QED BY <1>2, <1>3, <1>4 DEF Line, HeldBehindDecision

LEMMA ContinueLine ==
  ASSUME TypeOK, Line, NEW r \in Requests, NEW last \in held[r], ContinueUpTo(r, last)
  PROVE  Line'
<1>. DEFINE crossing == ahead[last] \union {last}
<1>1. crossing \in SUBSET Calls /\ crossing \subseteq held[r] /\ Leave(crossing)
  BY DEF TypeOK, Line, HeldBehindDecision, ContinueUpTo
<1>2. /\ status' = [c \in Calls |-> IF c \in crossing THEN "proceed" ELSE status[c]]
      /\ \/ /\ crossing = held[r]
            /\ state' = [state EXCEPT ![r] = "open"]
            /\ decision' = [decision EXCEPT ![r] = 0]
            /\ asked' = asked
         \/ /\ crossing # held[r]
            /\ state' = [state EXCEPT ![r] = "awaiting-decision"]
            /\ asked' = [asked EXCEPT ![r] = @ + 1]
            /\ decision' = [decision EXCEPT ![r] = asked[r] + 1]
  BY DEF ContinueUpTo, OpenDecision
<1>. HIDE DEF crossing
<1>3. \A c \in Calls : status'[c] = "held" <=> c \in held'[c.request]
  BY <1>1, <1>2, CallsAssumption DEF Leave, Line, HeldBehindDecision
<1>4. ASSUME NEW q \in Requests
      PROVE  /\ (state'[q] = "awaiting-decision") <=> (decision'[q] # 0)
             /\ (decision'[q] # 0) <=> (held'[q] # {})
             /\ decision'[q] <= asked'[q]
  <2>1. /\ (state[q] = "awaiting-decision") <=> (decision[q] # 0)
        /\ (decision[q] # 0) <=> (held[q] # {})
        /\ decision[q] <= asked[q] /\ asked[q] \in Nat /\ decision[q] \in Nat
        /\ \A c \in held[q] : c.request = q
        /\ \A c \in held[r] : c.request = r
    BY DEF Line, HeldBehindDecision, TypeOK
  <2>2. held'[q] = held[q] \ crossing
    BY <1>1 DEF Leave
  <2>3. CASE q = r
    <3>1. (held'[r] = {}) <=> (crossing = held[r])
      BY <1>1, <2>2, <2>3
    <3>2. \/ crossing = held[r] /\ state'[r] = "open" /\ decision'[r] = 0 /\ asked'[r] = asked[r]
          \/ /\ crossing # held[r] /\ state'[r] = "awaiting-decision"
             /\ asked'[r] = asked[r] + 1 /\ decision'[r] = asked[r] + 1
      BY <1>2 DEF TypeOK
    <3>. QED BY <2>1, <2>3, <3>1, <3>2
  <2>4. CASE q # r
    <3>1. held'[q] = held[q]
      BY <1>1, <2>1, <2>2, <2>4
    <3>. QED BY <1>2, <2>1, <2>4, <3>1 DEF TypeOK
  <2>. QED BY <2>3, <2>4
<1>. QED BY <1>1, <1>3, <1>4, LeaveLine DEF Line, HeldBehindDecision

LEMMA BeginLine ==
  ASSUME TypeOK, Line, NEW r \in Requests, NEW setting, NEW reachable, Begin(r, setting, reachable)
  PROVE  Line'
<1>1. UNCHANGED <<held, ahead, decision, asked, status>> /\ state[r] = "new"
  BY DEF Begin, decided
<1>2. ASSUME NEW q \in Requests
      PROVE  (state'[q] = "awaiting-decision") <=> (decision[q] # 0)
  <2>1. (state[q] = "awaiting-decision") <=> (decision[q] # 0)
    BY DEF Line, HeldBehindDecision
  <2>2. CASE q = r
    <3>1. state'[r] \in {"untracked", "stopped", "open"}
      BY DEF Begin, TypeOK
    <3>. QED BY <1>1, <2>1, <2>2, <3>1
  <2>3. CASE q # r
    <3>1. state'[q] = state[q] \/ (q \in Forgotten(reachable) /\ state'[q] = "untracked")
      BY <2>3 DEF Begin, TypeOK
    <3>2. q \in Forgotten(reachable) => decision[q] = 0
      BY DEF Forgotten, Forgettable
    <3>. QED BY <2>1, <3>1, <3>2
  <2>. QED BY <2>2, <2>3
<1>. QED BY <1>1, <1>2 DEF Line, HeldBehindDecision

LEMMA LineStep ==
  ASSUME TypeOK, Line, [Next]_vars
  PROVE  Line'
<1>1. ASSUME NEW r \in Requests, NEW setting \in LimitSettings, NEW reachable \in SUBSET Requests,
             Begin(r, setting, reachable)
      PROVE  Line'
  BY <1>1, BeginLine
<1>2. ASSUME NEW r \in Requests, Totals(r)
      PROVE  Line'
  <2>1. UNCHANGED <<state, held, ahead, decision, asked, status>>
    BY <1>2 DEF Totals, NoteProviderRequest, Release, NoteUsage, SettleUsage, decided
  <2>. QED BY <2>1 DEF Line, HeldBehindDecision
<1>3. ASSUME NEW c \in Calls, Cross(c) \/ RefuseStopped(c) \/ RefuseAborted(c)
      PROVE  Line'
  <2>1. UNCHANGED <<state, held, ahead, decision, asked>>
    BY <1>3 DEF Cross, RefuseStopped, RefuseAborted, decided
  <2>2. status[c] = "idle" /\ \E answer \in {"proceed", "stopped"} : status' = [status EXCEPT ![c] = answer]
    BY <1>3 DEF Cross, RefuseStopped, RefuseAborted
  <2>3. \A d \in Calls : status'[d] = "held" <=> status[d] = "held"
    BY <2>2 DEF TypeOK
  <2>. QED BY <2>1, <2>3 DEF Line, HeldBehindDecision
<1>4. ASSUME NEW c \in Calls, Hold(c)
      PROVE  Line'
  BY <1>4, HoldLine
<1>5. ASSUME NEW c \in Calls, Abort(c)
      PROVE  Line'
  BY <1>5, RefusedLine, {} \in SUBSET Requests DEF Abort
<1>6. ASSUME NEW r \in Requests, AnswerContinue(r)
      PROVE  Line'
  BY <1>6, ContinueLine DEF AnswerContinue
<1>7. ASSUME NEW r \in Requests, AnswerStop(r) \/ Expire(r)
      PROVE  Line'
  BY <1>7, RefusedLine, {r} \in SUBSET Requests DEF AnswerStop, Expire
<1>8. ASSUME NEW r \in Requests, AnswerLate(r)
      PROVE  Line'
  BY <1>8 DEF AnswerLate, Line, HeldBehindDecision
<1>9. CASE Dispose
  BY <1>9, RefusedLine, {r \in Requests : Tracked(r)} \in SUBSET Requests DEF Dispose
<1>10. CASE UNCHANGED vars
  BY <1>10 DEF vars, decided, Line, HeldBehindDecision
<1>. QED
  BY <1>1, <1>2, <1>3, <1>4, <1>5, <1>6, <1>7, <1>8, <1>9, <1>10 DEF Next, Answers

-----------------------------------------------------------------------------
(* The allowance.                                                          *)

\* Nothing is counted, reserved or added for a request before it begins, and only finitely many calls wait or reserve.
Counting ==
  /\ \A r \in Requests : IsFiniteSet(reserved[r]) /\ IsFiniteSet(held[r])
  /\ \A r \in Requests : state[r] = "new" => counted[r] = 0 /\ reserved[r] = {} /\ allowances[r] = 0
  /\ AllowanceRespected

LEMMA OneMore ==
  ASSUME NEW S, IsFiniteSet(S), NEW x, NEW T \in SUBSET (S \union {x})
  PROVE  IsFiniteSet(T) /\ Cardinality(T) \in Nat /\ Cardinality(T) <= Cardinality(S) + 1
<1>1. /\ IsFiniteSet(S \union {x}) /\ Cardinality(S) \in Nat
      /\ Cardinality(S \union {x}) = Cardinality(S) \/ Cardinality(S \union {x}) = Cardinality(S) + 1
  BY FS_AddElement, FS_CardinalityType
<1>2. IsFiniteSet(T) /\ Cardinality(T) <= Cardinality(S \union {x}) /\ Cardinality(T) \in Nat
  BY <1>1, FS_Subset, FS_CardinalityType
<1>. QED BY <1>1, <1>2

LEMMA Fewer ==
  ASSUME NEW S, IsFiniteSet(S), NEW T \in SUBSET S
  PROVE  /\ IsFiniteSet(T) /\ Cardinality(T) \in Nat /\ Cardinality(S) \in Nat
         /\ Cardinality(T) <= Cardinality(S)
BY FS_Subset, FS_CardinalityType

LEMMA AllowanceGrows ==
  ASSUME NEW n \in Nat, NEW tranches \in Nat
  PROVE  /\ Allowance(n, tranches) \in Nat
         /\ n <= Allowance(n, tranches)
         /\ Allowance(n, tranches + 1) = Allowance(n, tranches) + n
<1>1. n * (tranches + 1) = n * tranches + n /\ n * (tranches + 1 + 1) = n * (tranches + 1) + n
  OBVIOUS
<1>2. n * tranches \in Nat /\ n * (tranches + 1) \in Nat
  OBVIOUS
<1>. QED BY <1>1, <1>2 DEF Allowance

\* One request's total, in numbers.
Covered(r) ==
  Tracked(r) /\ configured[r].turns > 0
    => ObservedTurns(r, reserved[r]) <= Allowance(configured[r].turns, allowances[r]) + unreserved[r]

\* A request whose limits, allowance and counts stand, and that reserves no more than before, stays covered.
LEMMA StaysCovered ==
  ASSUME TypeOK, Counting, NEW r \in Requests,
         Tracked(r)' => Tracked(r),
         state'[r] = "new" => state[r] = "new",
         configured'[r] = configured[r], counted'[r] = counted[r],
         allowances'[r] = allowances[r], unreserved'[r] = unreserved[r],
         reserved'[r] \subseteq reserved[r]
  PROVE  /\ Covered(r)' /\ IsFiniteSet(reserved'[r])
         /\ state'[r] = "new" => counted'[r] = 0 /\ reserved'[r] = {} /\ allowances'[r] = 0
<1>1. /\ IsFiniteSet(reserved'[r]) /\ Cardinality(reserved'[r]) \in Nat /\ Cardinality(reserved[r]) \in Nat
      /\ Cardinality(reserved'[r]) <= Cardinality(reserved[r])
  BY Fewer DEF Counting
<1>2. /\ counted[r] \in Nat /\ unreserved[r] \in Nat /\ allowances[r] \in Nat /\ configured[r].turns \in Nat
      /\ Allowance(configured[r].turns, allowances[r]) \in Nat
  BY AllowanceGrows DEF TypeOK
<1>3. Covered(r)
  BY DEF Counting, AllowanceRespected, Covered
<1>4. Covered(r)'
  BY <1>1, <1>2, <1>3 DEF Covered, ObservedTurns, Allowance
<1>. QED BY <1>1, <1>4 DEF Counting

\* A request that was not at its limit has room for one call more.
LEMMA RoomForOne ==
  ASSUME TypeOK, Counting, NEW r \in Requests, NEW tranches \in Nat, NEW cs, IsFiniteSet(cs), NEW c,
         configured[r].turns > 0, ~TurnsReached(r, cs, tranches),
         NEW T \in SUBSET (cs \union {c})
  PROVE  /\ IsFiniteSet(T)
         /\ ObservedTurns(r, T) <= Allowance(configured[r].turns, tranches) + unreserved[r]
<1>1. /\ IsFiniteSet(T) /\ Cardinality(T) \in Nat /\ Cardinality(cs) \in Nat
      /\ Cardinality(T) <= Cardinality(cs) + 1
  BY OneMore, FS_CardinalityType
<1>2. /\ counted[r] \in Nat /\ unreserved[r] \in Nat /\ configured[r].turns \in Nat
      /\ Allowance(configured[r].turns, tranches) \in Nat
  BY AllowanceGrows DEF TypeOK
<1>3. counted[r] + Cardinality(cs) < Allowance(configured[r].turns, tranches)
  BY <1>1, <1>2 DEF TurnsReached, ObservedTurns
<1>. QED BY <1>1, <1>2, <1>3 DEF ObservedTurns

LEMMA BeginCount ==
  ASSUME TypeOK, Line, Counting, NEW r \in Requests, NEW setting \in LimitSettings, NEW reachable,
         Begin(r, setting, reachable)
  PROVE  Counting'
<1>. USE DEF limits, totals, tokens, decided
<1>1. UNCHANGED <<held, counted, unreserved, allowances>> /\ state[r] = "new"
  BY DEF Begin
<1>2. ASSUME NEW q \in Requests
      PROVE  /\ Covered(q)' /\ IsFiniteSet(reserved'[q])
             /\ state'[q] = "new" => counted'[q] = 0 /\ reserved'[q] = {} /\ allowances'[q] = 0
  <2>1. CASE q = r
    <3>1. state'[r] # "new" /\ counted[r] = 0 /\ allowances[r] = 0
      BY DEF Begin, TypeOK, Counting
    <3>2. reserved'[r] = {}
      BY DEF Begin, TypeOK, Counting
    <3>3. (configured'[r] = setting \/ state'[r] = "untracked") /\ setting.turns \in Nat
      BY BoundsAssumption DEF Begin, TypeOK
    <3>4. Allowance(setting.turns, 0) = setting.turns /\ unreserved[r] \in Nat
      BY <3>3 DEF Allowance, TypeOK
    <3>5. IsFiniteSet({}) /\ Cardinality({}) = 0
      BY FS_EmptySet
    <3>6. Covered(r)'
      BY <1>1, <3>1, <3>2, <3>3, <3>4, <3>5 DEF Covered, ObservedTurns, Allowance, Tracked, TrackedStates
    <3>. QED BY <1>1, <2>1, <3>1, <3>2, <3>5, <3>6
  <2>2. CASE q # r
    <3>1. /\ configured'[q] = configured[q] /\ reserved'[q] \subseteq reserved[q]
          /\ state'[q] = state[q] \/ state'[q] = "untracked"
      BY <2>2 DEF Begin, TypeOK
    <3>. QED BY <1>1, <3>1, StaysCovered DEF Tracked, TrackedStates
  <2>. QED BY <2>1, <2>2
<1>. QED BY <1>1, <1>2 DEF Counting, AllowanceRespected, Covered

LEMMA NoteCount ==
  ASSUME TypeOK, Counting, NEW r \in Requests, NEW a \in Agents, NoteProviderRequest(r, a)
  PROVE  Counting'
<1>. USE DEF limits, totals, tokens, decided
<1>1. /\ UNCHANGED <<held, state, configured, allowances>> /\ Tracked(r)
      /\ counted' = [counted EXCEPT ![r] = @ + 1]
      /\ \/ /\ \E c \in reserved[r] : reserved' = [reserved EXCEPT ![r] = @ \ {c}]
            /\ UNCHANGED unreserved
         \/ unreserved' = [unreserved EXCEPT ![r] = @ + 1] /\ UNCHANGED reserved
  BY DEF NoteProviderRequest
<1>2. ASSUME NEW q \in Requests
      PROVE  /\ Covered(q)' /\ IsFiniteSet(reserved'[q])
             /\ state'[q] = "new" => counted'[q] = 0 /\ reserved'[q] = {} /\ allowances'[q] = 0
  <2>1. CASE q # r
    <3>1. counted'[q] = counted[q] /\ unreserved'[q] = unreserved[q] /\ reserved'[q] = reserved[q]
      BY <1>1, <2>1 DEF TypeOK
    <3>. QED BY <1>1, <3>1, StaysCovered DEF Tracked
  <2>2. CASE q = r
    <3>1. /\ counted[r] \in Nat /\ unreserved[r] \in Nat /\ allowances[r] \in Nat /\ configured[r].turns \in Nat
          /\ Allowance(configured[r].turns, allowances[r]) \in Nat
          /\ IsFiniteSet(reserved[r]) /\ Cardinality(reserved[r]) \in Nat
          /\ counted'[r] = counted[r] + 1
      BY <1>1, AllowanceGrows, FS_CardinalityType DEF TypeOK, Counting
    <3>2. Covered(r) /\ state[r] # "new"
      BY <1>1 DEF Counting, AllowanceRespected, Covered, Tracked, TrackedStates
    <3>3. CASE unreserved' = [unreserved EXCEPT ![r] = @ + 1] /\ UNCHANGED reserved
      <4>1. unreserved'[r] = unreserved[r] + 1
        BY <3>3 DEF TypeOK
      <4>2. Covered(r)'
        BY <1>1, <3>1, <3>2, <3>3, <4>1 DEF Covered, ObservedTurns, Tracked, Allowance
      <4>. QED BY <1>1, <2>2, <3>1, <3>2, <3>3, <4>2
    <3>4. CASE (\E c \in reserved[r] : reserved' = [reserved EXCEPT ![r] = @ \ {c}]) /\ UNCHANGED unreserved
      <4>1. PICK c \in reserved[r] : reserved'[r] = reserved[r] \ {c}
        BY <3>4 DEF TypeOK
      <4>2. IsFiniteSet(reserved'[r]) /\ Cardinality(reserved'[r]) = Cardinality(reserved[r]) - 1
        <5>1. /\ IsFiniteSet(reserved[r] \ {c})
              /\ Cardinality(reserved[r] \ {c}) = Cardinality(reserved[r]) - 1
          BY <3>1, FS_RemoveElement
        <5>. QED BY <4>1, <5>1
      <4>3. Covered(r)'
        BY <1>1, <3>1, <3>2, <3>4, <4>2 DEF Covered, ObservedTurns, Tracked, Allowance
      <4>. QED BY <1>1, <2>2, <3>2, <4>2, <4>3
    <3>. QED BY <1>1, <3>3, <3>4
  <2>. QED BY <2>1, <2>2
<1>. QED BY <1>1, <1>2 DEF Counting, AllowanceRespected, Covered

LEMMA CrossCount ==
  ASSUME TypeOK, Counting, NEW c \in Calls, Cross(c)
  PROVE  Counting'
<1>. USE DEF limits, totals, tokens, decided
<1>. DEFINE r == c.request
<1>1. /\ UNCHANGED <<held, state, configured, counted, unreserved, allowances>> /\ r \in Requests
      /\ \/ UNCHANGED reserved
         \/ /\ state[r] = "open" /\ ~Reached(r)
            /\ reserved' = [reserved EXCEPT ![r] = @ \union Reserving({c})]
  BY CallsAssumption DEF Cross
<1>2. ASSUME NEW q \in Requests
      PROVE  /\ Covered(q)' /\ IsFiniteSet(reserved'[q])
             /\ state'[q] = "new" => counted'[q] = 0 /\ reserved'[q] = {} /\ allowances'[q] = 0
  <2>1. CASE reserved'[q] = reserved[q]
    BY <1>1, <2>1, StaysCovered DEF Tracked
  <2>2. CASE reserved'[q] # reserved[q]
    <3>1. /\ q = r /\ state[r] = "open" /\ ~Reached(r)
          /\ reserved'[r] \in SUBSET (reserved[r] \union {c})
      BY <1>1, <2>2 DEF TypeOK, Reserving
    <3>2. ~TurnsReached(r, reserved[r], allowances[r]) /\ allowances[r] \in Nat /\ IsFiniteSet(reserved[r])
      BY <1>1, <3>1 DEF Reached, ReachedWith, Counting, TypeOK
    <3>3. IsFiniteSet(reserved'[r])
      BY <1>1, <3>1, <3>2, OneMore
    <3>4. configured[r].turns > 0
            => ObservedTurns(r, reserved'[r]) <= Allowance(configured[r].turns, allowances[r]) + unreserved[r]
      BY <1>1, <3>1, <3>2, RoomForOne
    <3>. QED BY <1>1, <3>1, <3>3, <3>4 DEF Covered, ObservedTurns, Allowance
  <2>. QED BY <2>1, <2>2
<1>. QED BY <1>1, <1>2 DEF Counting, AllowanceRespected, Covered

LEMMA ContinueCount ==
  ASSUME TypeOK, Line, Counting, NEW r \in Requests, NEW last \in held[r],
         AdmittedUpTo(r, last), ContinueUpTo(r, last)
  PROVE  Counting'
<1>. USE DEF limits, totals, tokens, decided
<1>. DEFINE crossing == ahead[last] \union {last}
<1>1. /\ UNCHANGED <<configured, counted, unreserved>>
      /\ held' = [q \in Requests |-> held[q] \ crossing]
      /\ allowances' = [allowances EXCEPT ![r] = @ + 1]
      /\ reserved' = [reserved EXCEPT ![r] = Taken(r, crossing)]
      /\ state' = [state EXCEPT ![r] = "open"] \/ state' = [state EXCEPT ![r] = "awaiting-decision"]
  BY DEF ContinueUpTo, OpenDecision, Leave
<1>2. state[r] = "awaiting-decision" /\ ahead[last] \subseteq held[r] /\ Covered(r)
  BY DEF Line, HeldBehindDecision, Counting, AllowanceRespected, Covered
<1>3. ASSUME NEW q \in Requests
      PROVE  /\ Covered(q)' /\ IsFiniteSet(reserved'[q]) /\ IsFiniteSet(held'[q])
             /\ state'[q] = "new" => counted'[q] = 0 /\ reserved'[q] = {} /\ allowances'[q] = 0
  <2>1. IsFiniteSet(held'[q])
    BY <1>1, Fewer DEF Counting
  <2>2. CASE q # r
    <3>1. state'[q] = state[q] /\ reserved'[q] = reserved[q] /\ allowances'[q] = allowances[q]
      BY <1>1, <2>2 DEF TypeOK
    <3>. QED BY <1>1, <2>1, <3>1, StaysCovered DEF Tracked
  <2>3. CASE q = r
    <3>1. /\ reserved'[r] = Taken(r, crossing) /\ allowances'[r] = allowances[r] + 1
          /\ allowances[r] \in Nat /\ configured[r].turns \in Nat /\ unreserved[r] \in Nat /\ counted[r] \in Nat
          /\ state'[r] # "new"
      BY <1>1 DEF TypeOK
    <3>2. IsFiniteSet(Taken(r, ahead[last]))
      <4>1. IsFiniteSet(held[r]) /\ IsFiniteSet(reserved[r]) /\ Reserving(ahead[last]) \subseteq held[r]
        BY <1>2 DEF Counting, Reserving
      <4>. QED BY <4>1, FS_Subset, FS_Union DEF Taken
    <3>3. Taken(r, crossing) \in SUBSET (Taken(r, ahead[last]) \union {last})
      BY DEF Taken, Reserving
    <3>4. IsFiniteSet(Taken(r, crossing))
      BY <3>2, <3>3, OneMore
    <3>5. ASSUME configured[r].turns > 0
          PROVE  ObservedTurns(r, Taken(r, crossing))
                   <= Allowance(configured[r].turns, allowances[r] + 1) + unreserved[r]
      <4>1. CASE ~ReachedWith(r, Taken(r, ahead[last]), allowances[r] + 1)
        <5>1. ~TurnsReached(r, Taken(r, ahead[last]), allowances[r] + 1) /\ allowances[r] + 1 \in Nat
          BY <3>1, <4>1 DEF ReachedWith
        <5>. QED BY <3>2, <3>3, <3>5, <5>1, RoomForOne
      <4>2. CASE ahead[last] = {}
        <5>1. Taken(r, crossing) \in SUBSET (reserved[r] \union {last}) /\ IsFiniteSet(reserved[r])
          BY <4>2 DEF Taken, Reserving, Counting
        <5>2. /\ Cardinality(Taken(r, crossing)) \in Nat /\ Cardinality(reserved[r]) \in Nat
              /\ Cardinality(Taken(r, crossing)) <= Cardinality(reserved[r]) + 1
          BY <5>1, OneMore, FS_CardinalityType
        <5>3. counted[r] + Cardinality(reserved[r])
                <= Allowance(configured[r].turns, allowances[r]) + unreserved[r]
          BY <1>2, <3>5 DEF Covered, ObservedTurns, Tracked, TrackedStates
        <5>4. /\ Allowance(configured[r].turns, allowances[r]) \in Nat
              /\ Allowance(configured[r].turns, allowances[r] + 1)
                   = Allowance(configured[r].turns, allowances[r]) + configured[r].turns
          BY <3>1, AllowanceGrows
        <5>. HIDE DEF crossing
        <5>. QED BY <3>1, <3>5, <5>2, <5>3, <5>4 DEF ObservedTurns
      <4>. QED BY <4>1, <4>2 DEF AdmittedUpTo
    <3>. HIDE DEF crossing
    <3>6. Covered(r)'
      BY <1>1, <3>1, <3>5 DEF Covered, ObservedTurns, Allowance
    <3>. QED BY <2>1, <2>3, <3>1, <3>4, <3>6
  <2>. QED BY <2>2, <2>3
<1>. QED BY <1>1, <1>3 DEF Counting, AllowanceRespected, Covered

LEMMA HoldCount ==
  ASSUME TypeOK, Counting, NEW c \in Calls, Hold(c)
  PROVE  Counting'
<1>. USE DEF limits, totals, tokens, decided
<1>. DEFINE r == c.request
<1>1. /\ UNCHANGED <<configured, counted, reserved, unreserved, allowances>> /\ r \in Requests
      /\ held' = [held EXCEPT ![r] = @ \union {c}]
      /\ state' = state \/ state' = [state EXCEPT ![r] = "awaiting-decision"]
      /\ Tracked(r)
  BY CallsAssumption DEF Hold, OpenDecision, WouldHold, Tracked, TrackedStates
<1>2. ASSUME NEW q \in Requests
      PROVE  /\ Covered(q)' /\ IsFiniteSet(reserved'[q]) /\ IsFiniteSet(held'[q])
             /\ state'[q] = "new" => counted'[q] = 0 /\ reserved'[q] = {} /\ allowances'[q] = 0
  <2>1. held'[q] \in SUBSET (held[q] \union {c}) /\ IsFiniteSet(held[q])
    BY <1>1 DEF TypeOK, Counting
  <2>2. IsFiniteSet(held'[q])
    BY <2>1, OneMore
  <2>3. (Tracked(q)' => Tracked(q)) /\ (state'[q] = "new" => state[q] = "new")
    BY <1>1 DEF Tracked, TypeOK, TrackedStates
  <2>. QED BY <1>1, <2>2, <2>3, StaysCovered
<1>. QED BY <1>1, <1>2 DEF Counting, AllowanceRespected, Covered

LEMMA RefusedCount ==
  ASSUME TypeOK, Line, Counting, NEW stopping \in SUBSET {r \in Requests : Tracked(r)}, NEW cs,
         Refused(stopping, cs), \A r \in Requests : reserved'[r] \subseteq reserved[r]
  PROVE  Counting'
<1>. USE DEF limits, totals, tokens, decided
<1>. DEFINE gone == UNION {held[r] \intersect (IF r \in stopping THEN Calls ELSE cs) : r \in Requests}
            over(r) == decision[r] # 0 /\ held[r] \subseteq gone
<1>1. /\ UNCHANGED <<configured, counted, unreserved, allowances>>
      /\ held' = [r \in Requests |-> held[r] \ gone]
      /\ state' = [r \in Requests |->
                     IF r \in stopping THEN "stopped" ELSE IF over(r) THEN "open" ELSE state[r]]
  BY DEF Refused, Leave
<1>. HIDE DEF gone
<1>2. ASSUME NEW q \in Requests
      PROVE  /\ Covered(q)' /\ IsFiniteSet(reserved'[q]) /\ IsFiniteSet(held'[q])
             /\ state'[q] = "new" => counted'[q] = 0 /\ reserved'[q] = {} /\ allowances'[q] = 0
  <2>1. IsFiniteSet(held'[q])
    BY <1>1, Fewer DEF Counting
  <2>2. decision[q] # 0 => Tracked(q)
    BY DEF Line, HeldBehindDecision, Tracked, TrackedStates
  <2>3. (Tracked(q)' => Tracked(q)) /\ (state'[q] = "new" => state[q] = "new")
    BY <1>1, <2>2 DEF Tracked
  <2>. QED BY <1>1, <2>1, <2>3, StaysCovered
<1>. QED BY <1>1, <1>2 DEF Counting, AllowanceRespected, Covered

\* A step that leaves the requests' states, limits and totals alone, but for reservations that are given back.
LEMMA GivenBackCount ==
  ASSUME TypeOK, Counting, UNCHANGED <<state, configured, counted, unreserved, allowances, held>>,
         \A r \in Requests : reserved'[r] \subseteq reserved[r]
  PROVE  Counting'
<1>1. ASSUME NEW q \in Requests
      PROVE  /\ Covered(q)' /\ IsFiniteSet(reserved'[q])
             /\ state'[q] = "new" => counted'[q] = 0 /\ reserved'[q] = {} /\ allowances'[q] = 0
  BY StaysCovered DEF Tracked
<1>. QED BY <1>1 DEF Counting, AllowanceRespected, Covered

LEMMA CountStep ==
  ASSUME TypeOK, Line, Counting, [Next]_vars
  PROVE  Counting'
<1>. USE DEF limits, totals, tokens, decided
<1>1. ASSUME NEW r \in Requests, NEW setting \in LimitSettings, NEW reachable \in SUBSET Requests,
             Begin(r, setting, reachable)
      PROVE  Counting'
  BY <1>1, BeginCount
<1>2. ASSUME NEW r \in Requests, NEW a \in Agents, NoteProviderRequest(r, a)
      PROVE  Counting'
  BY <1>2, NoteCount
<1>3. ASSUME NEW r \in Requests, NEW a \in Agents, Release(r, a)
      PROVE  Counting'
  <2>1. /\ UNCHANGED <<state, configured, counted, unreserved, allowances, held>>
        /\ \A q \in Requests : reserved'[q] \subseteq reserved[q]
    BY <1>3 DEF Release, TypeOK
  <2>. QED BY <2>1, GivenBackCount
<1>4. ASSUME NEW r \in Requests, NEW u \in Units,
             (\E n \in Figures : NoteUsage(r, u, n)) \/ (\E n \in Figures \union {NoTokens} : SettleUsage(r, u, n))
      PROVE  Counting'
  <2>1. UNCHANGED <<state, configured, counted, reserved, unreserved, allowances, held>>
    BY <1>4 DEF NoteUsage, SettleUsage
  <2>. QED BY <2>1, GivenBackCount
<1>5. ASSUME NEW c \in Calls, Cross(c)
      PROVE  Counting'
  BY <1>5, CrossCount
<1>6. ASSUME NEW c \in Calls, RefuseStopped(c) \/ RefuseAborted(c)
      PROVE  Counting'
  <2>1. UNCHANGED <<state, configured, counted, reserved, unreserved, allowances, held>>
    BY <1>6 DEF RefuseStopped, RefuseAborted
  <2>. QED BY <2>1, GivenBackCount
<1>7. ASSUME NEW c \in Calls, Hold(c)
      PROVE  Counting'
  BY <1>7, HoldCount
<1>8. ASSUME NEW c \in Calls, Abort(c)
      PROVE  Counting'
  BY <1>8, RefusedCount, {} \in SUBSET {r \in Requests : Tracked(r)} DEF Abort
<1>9. ASSUME NEW r \in Requests, AnswerContinue(r)
      PROVE  Counting'
  BY <1>9, ContinueCount DEF AnswerContinue
<1>10. ASSUME NEW r \in Requests, AnswerStop(r) \/ Expire(r)
       PROVE  Counting'
  <2>1. {r} \in SUBSET {q \in Requests : Tracked(q)}
    BY <1>10 DEF AnswerStop, Expire, Line, HeldBehindDecision, Tracked, TrackedStates
  <2>. QED BY <1>10, <2>1, RefusedCount DEF AnswerStop, Expire
<1>11. ASSUME NEW r \in Requests, AnswerLate(r)
       PROVE  Counting'
  <2>1. UNCHANGED <<state, configured, counted, reserved, unreserved, allowances, held>>
    BY <1>11 DEF AnswerLate
  <2>. QED BY <2>1, GivenBackCount
<1>12. CASE Dispose
  BY <1>12, RefusedCount, {r \in Requests : Tracked(r)} \in SUBSET {r \in Requests : Tracked(r)} DEF Dispose
<1>13. CASE UNCHANGED vars
  <2>1. UNCHANGED <<state, configured, counted, reserved, unreserved, allowances, held>>
    BY <1>13 DEF vars
  <2>. QED BY <2>1, GivenBackCount
<1>. QED
  BY <1>1, <1>2, <1>3, <1>4, <1>5, <1>6, <1>7, <1>8, <1>9, <1>10, <1>11, <1>12, <1>13
  DEF Next, Totals, Answers

-----------------------------------------------------------------------------
(* Crossings.                                                              *)

LEMMA CrossingStep ==
  ASSUME TypeOK, Line, CrossingPerAllowance, [Next]_vars
  PROVE  CrossingPerAllowance'
<1>. USE DEF decided
<1>1. ASSUME UNCHANGED <<allowances, crossings, crossedAt>>,
             \A q \in Requests : decision'[q] = 0 \/ decision'[q] = decision[q]
      PROVE  CrossingPerAllowance'
  BY <1>1 DEF CrossingPerAllowance
<1>2. ASSUME NEW stopping \in SUBSET Requests, NEW cs, Refused(stopping, cs)
      PROVE  CrossingPerAllowance'
  <2>1. \A q \in Requests : decision'[q] = 0 \/ decision'[q] = decision[q]
    BY <1>2 DEF Refused
  <2>. QED BY <1>1, <1>2, <2>1 DEF Refused
<1>3. ASSUME NEW c \in Calls, Hold(c)
      PROVE  CrossingPerAllowance'
  <2>. DEFINE r == c.request
  <2>1. r \in Requests
    BY CallsAssumption
  <2>2. CASE decision[r] # 0 /\ UNCHANGED <<crossings, crossedAt, decision>>
    BY <1>1, <1>3, <2>2 DEF Hold
  <2>3. CASE OpenDecision(r, allowances[r])
    <3>1. ASSUME NEW q \in Requests
          PROVE  /\ crossings'[q] = allowances'[q] + (IF crossedAt'[q] = allowances'[q] THEN 1 ELSE 0)
                 /\ decision'[q] # 0 => crossedAt'[q] = allowances'[q]
      <4>1. /\ crossings[q] = allowances[q] + (IF crossedAt[q] = allowances[q] THEN 1 ELSE 0)
            /\ decision[q] # 0 => crossedAt[q] = allowances[q]
            /\ crossings[q] \in Nat /\ allowances[q] \in Nat /\ allowances' = allowances
        BY <1>3 DEF CrossingPerAllowance, TypeOK, Hold
      <4>2. CASE q = r
        BY <2>1, <2>3, <4>1, <4>2 DEF OpenDecision, TypeOK
      <4>3. CASE q # r
        BY <2>1, <2>3, <4>1, <4>3 DEF OpenDecision, TypeOK
      <4>. QED BY <4>2, <4>3
    <3>. QED BY <3>1 DEF CrossingPerAllowance
  <2>. QED BY <1>3, <2>2, <2>3 DEF Hold
<1>4. ASSUME NEW r \in Requests, AnswerContinue(r)
      PROVE  CrossingPerAllowance'
  <2>1. PICK last \in held[r] : ContinueUpTo(r, last)
    BY <1>4 DEF AnswerContinue
  <2>2. decision[r] # 0
    BY <1>4 DEF AnswerContinue
  <2>3. ASSUME NEW q \in Requests
        PROVE  /\ crossings'[q] = allowances'[q] + (IF crossedAt'[q] = allowances'[q] THEN 1 ELSE 0)
               /\ decision'[q] # 0 => crossedAt'[q] = allowances'[q]
    <3>1. /\ crossings[q] = allowances[q] + (IF crossedAt[q] = allowances[q] THEN 1 ELSE 0)
          /\ decision[q] # 0 => crossedAt[q] = allowances[q]
          /\ crossings[q] \in Nat /\ allowances[q] \in Nat
          /\ allowances'[q] = IF q = r THEN allowances[q] + 1 ELSE allowances[q]
      BY <2>1 DEF CrossingPerAllowance, TypeOK, ContinueUpTo
    <3>2. CASE decision' = [decision EXCEPT ![r] = 0] /\ UNCHANGED <<crossings, crossedAt>>
      BY <2>2, <3>1, <3>2 DEF TypeOK
    <3>3. CASE OpenDecision(r, allowances[r] + 1)
      <4>1. CASE q = r
        BY <2>2, <3>1, <3>3, <4>1 DEF OpenDecision, TypeOK
      <4>2. CASE q # r
        BY <3>1, <3>3, <4>2 DEF OpenDecision, TypeOK
      <4>. QED BY <4>1, <4>2
    <3>. QED BY <2>1, <3>2, <3>3 DEF ContinueUpTo
  <2>. QED BY <2>3 DEF CrossingPerAllowance
<1>5. CASE UNCHANGED <<allowances, crossings, crossedAt, decision>>
  BY <1>1, <1>5
<1>6. ASSUME NEW r \in Requests, NEW setting \in LimitSettings, NEW reachable \in SUBSET Requests,
             Begin(r, setting, reachable)
      PROVE  CrossingPerAllowance'
  BY <1>5, <1>6 DEF Begin
<1>7. ASSUME NEW r \in Requests, Totals(r)
      PROVE  CrossingPerAllowance'
  BY <1>5, <1>7 DEF Totals, NoteProviderRequest, Release, NoteUsage, SettleUsage
<1>8. ASSUME NEW c \in Calls, Cross(c) \/ RefuseStopped(c) \/ RefuseAborted(c)
      PROVE  CrossingPerAllowance'
  BY <1>5, <1>8 DEF Cross, RefuseStopped, RefuseAborted
<1>9. ASSUME NEW c \in Calls, Abort(c)
      PROVE  CrossingPerAllowance'
  BY <1>2, <1>9, {} \in SUBSET Requests DEF Abort
<1>10. ASSUME NEW r \in Requests, AnswerStop(r) \/ Expire(r)
       PROVE  CrossingPerAllowance'
  BY <1>2, <1>10, {r} \in SUBSET Requests DEF AnswerStop, Expire
<1>11. ASSUME NEW r \in Requests, AnswerLate(r)
       PROVE  CrossingPerAllowance'
  BY <1>5, <1>11 DEF AnswerLate
<1>12. CASE Dispose
  BY <1>2, <1>12, {r \in Requests : Tracked(r)} \in SUBSET Requests DEF Dispose
<1>13. CASE UNCHANGED vars
  BY <1>5, <1>13 DEF vars
<1>. QED
  BY <1>3, <1>4, <1>6, <1>7, <1>8, <1>9, <1>10, <1>11, <1>12, <1>13 DEF Next, Answers

-----------------------------------------------------------------------------
(* The theorems.                                                           *)

\* The inductive invariant: the line says which requests are waited for, and the totals rest on it.
Inv == TypeOK /\ Line /\ Counting /\ CrossingPerAllowance

LEMMA InitInv ==
  ASSUME Init
  PROVE  Inv
<1>1. TypeOK
  BY DEF Init, TypeOK, NoTokens
<1>2. Line
  BY CallsAssumption DEF Init, Line, HeldBehindDecision
<1>3. Counting
  BY FS_EmptySet DEF Init, Counting, AllowanceRespected, Tracked, TrackedStates
<1>4. CrossingPerAllowance
  BY DEF Init, CrossingPerAllowance
<1>. QED BY <1>1, <1>2, <1>3, <1>4 DEF Inv

\* The inductive invariant holds of every behaviour of the gate.
THEOREM Invariance == Spec => []Inv
<1>1. Inv /\ [Next]_vars => Inv'
  BY TypeStep, LineStep, CountStep, CrossingStep DEF Inv
<1>. QED BY InitInv, <1>1, PTL DEF Spec

\* Every variable keeps its type (RequestCeiling.ts TrackedRequest, OpenDecision).
THEOREM TypeCorrect == Spec => []TypeOK
BY Invariance, PTL DEF Inv

\* No caller of boundary() waits for a prompt that is gone, and no prompt is open for nobody.
THEOREM NobodyIsLost == Spec => []HeldBehindDecision
<1>1. Inv => HeldBehindDecision
  BY DEF Inv, Line
<1>. QED BY <1>1, Invariance, PTL

\* Whatever the callers do, a reserved boundary never passes the allowance of its request.
THEOREM AllowanceHolds == Spec => []AllowanceRespected
<1>1. Inv => AllowanceRespected
  BY DEF Inv, Counting
<1>. QED BY <1>1, Invariance, PTL

\* Crossings are counted per allowance, however often a prompt was withdrawn and asked again.
THEOREM CrossingsCounted == Spec => []CrossingPerAllowance
<1>1. Inv => CrossingPerAllowance
  BY DEF Inv
<1>. QED BY <1>1, Invariance, PTL

LEMMA StoppedStep ==
  ASSUME Inv, [Next]_vars, NEW r \in Requests, state[r] = "stopped"
  PROVE  /\ state'[r] \in {"stopped", "untracked"}
         /\ reserved'[r] \subseteq reserved[r]
         /\ \A c \in Calls : c.request = r /\ status'[c] = "proceed" => status[c] = "proceed"
<1>. USE DEF limits, totals, tokens, decided
<1>. DEFINE Still == /\ state'[r] \in {"stopped", "untracked"}
                     /\ reserved'[r] \subseteq reserved[r]
                     /\ \A c \in Calls : c.request = r /\ status'[c] = "proceed" => status[c] = "proceed"
<1>1. TypeOK /\ decision[r] = 0 /\ Tracked(r)
  BY DEF Inv, Line, HeldBehindDecision, Tracked, TrackedStates
<1>2. ASSUME NEW stopping \in SUBSET Requests, NEW cs, Refused(stopping, cs), UNCHANGED reserved
      PROVE  Still
  <2>1. state'[r] = "stopped"
    BY <1>1, <1>2 DEF Refused
  <2>2. \A c \in Calls : status'[c] = "proceed" => status[c] = "proceed"
    BY <1>2 DEF Refused
  <2>. QED BY <1>2, <2>1, <2>2
<1>3. ASSUME NEW q \in Requests, NEW setting \in LimitSettings, NEW reachable \in SUBSET Requests,
             Begin(q, setting, reachable)
      PROVE  Still
  <2>1. q # r /\ UNCHANGED status
    BY <1>3 DEF Begin
  <2>2. state'[r] = state[r] \/ state'[r] = "untracked"
    BY <1>1, <1>3, <2>1 DEF Begin, TypeOK
  <2>3. reserved'[r] \subseteq reserved[r]
    BY <1>1, <1>3 DEF Begin, TypeOK
  <2>. QED BY <2>1, <2>2, <2>3
<1>4. ASSUME NEW q \in Requests, Totals(q)
      PROVE  Still
  <2>1. UNCHANGED <<state, status>>
    BY <1>4 DEF Totals, NoteProviderRequest, Release, NoteUsage, SettleUsage
  <2>2. \/ UNCHANGED reserved
        \/ \E S : reserved' = [reserved EXCEPT ![q] = S] /\ S \subseteq reserved[q]
    <3>1. ASSUME NEW a \in Agents, NoteProviderRequest(q, a)
          PROVE  UNCHANGED reserved \/ \E c : reserved' = [reserved EXCEPT ![q] = reserved[q] \ {c}]
      BY <3>1 DEF NoteProviderRequest
    <3>2. ASSUME NEW a \in Agents, Release(q, a)
          PROVE  reserved' = [reserved EXCEPT ![q] = {c \in reserved[q] : c.agent # a}]
      BY <3>2 DEF Release
    <3>. QED BY <1>4, <3>1, <3>2 DEF Totals, NoteUsage, SettleUsage
  <2>3. reserved'[r] \subseteq reserved[r]
    BY <1>1, <2>2 DEF TypeOK
  <2>. QED BY <2>1, <2>3
<1>5. ASSUME NEW c \in Calls, Cross(c)
      PROVE  Still
  <2>1. /\ UNCHANGED state /\ status' = [status EXCEPT ![c] = "proceed"]
        /\ c.request # r
        /\ UNCHANGED reserved \/ reserved' = [reserved EXCEPT ![c.request] = @ \union Reserving({c})]
    BY <1>1, <1>5 DEF Cross
  <2>. QED BY <1>1, <2>1 DEF TypeOK
<1>6. ASSUME NEW c \in Calls, RefuseStopped(c) \/ RefuseAborted(c)
      PROVE  Still
  BY <1>1, <1>6 DEF RefuseStopped, RefuseAborted, TypeOK
<1>7. ASSUME NEW c \in Calls, Hold(c)
      PROVE  Still
  <2>1. c.request # r
    BY <1>7 DEF Hold, WouldHold
  <2>2. /\ state' = state \/ state' = [state EXCEPT ![c.request] = "awaiting-decision"]
        /\ UNCHANGED reserved /\ status' = [status EXCEPT ![c] = "held"]
    BY <1>7 DEF Hold, OpenDecision
  <2>. QED BY <1>1, <2>1, <2>2 DEF TypeOK
<1>8. ASSUME NEW c \in Calls, Abort(c)
      PROVE  Still
  BY <1>2, <1>8, {} \in SUBSET Requests DEF Abort
<1>9. ASSUME NEW q \in Requests, AnswerContinue(q)
      PROVE  Still
  <2>1. PICK last \in held[q] : ContinueUpTo(q, last)
    BY <1>9 DEF AnswerContinue
  <2>2. /\ q # r /\ \A c \in ahead[last] \union {last} : c.request = q
    BY <1>1, <1>9 DEF AnswerContinue, Inv, Line, HeldBehindDecision
  <2>3. /\ state' = [state EXCEPT ![q] = "open"] \/ state' = [state EXCEPT ![q] = "awaiting-decision"]
        /\ reserved' = [reserved EXCEPT ![q] = Taken(q, ahead[last] \union {last})]
        /\ status' = [c \in Calls |-> IF c \in ahead[last] \union {last} THEN "proceed" ELSE status[c]]
    BY <2>1 DEF ContinueUpTo, OpenDecision
  <2>. QED BY <1>1, <2>2, <2>3 DEF TypeOK
<1>10. ASSUME NEW q \in Requests, AnswerStop(q) \/ Expire(q)
       PROVE  Still
  BY <1>2, <1>10, {q} \in SUBSET Requests DEF AnswerStop, Expire
<1>11. ASSUME NEW q \in Requests, AnswerLate(q)
       PROVE  Still
  BY <1>11 DEF AnswerLate
<1>12. CASE Dispose
  BY <1>2, <1>12, {q \in Requests : Tracked(q)} \in SUBSET Requests DEF Dispose
<1>13. CASE UNCHANGED vars
  BY <1>13 DEF vars
<1>. QED
  BY <1>3, <1>4, <1>5, <1>6, <1>7, <1>8, <1>9, <1>10, <1>11, <1>12, <1>13 DEF Next, Answers

\* A request that was stopped runs nothing again: no later answer, caller or clean-up brings it back.
THEOREM StoppedForGood == Spec => StoppedIsFinal
<1>1. Inv /\ [Next]_vars =>
        [\A r \in Requests : state[r] = "stopped" =>
           /\ state'[r] \in {"stopped", "untracked"}
           /\ reserved'[r] \subseteq reserved[r]
           /\ \A c \in Calls : c.request = r /\ status'[c] = "proceed" => status[c] = "proceed"]_vars
  BY StoppedStep
<1>. QED BY <1>1, Invariance, PTL DEF Spec, StoppedIsFinal

\* Which steps let a call cross: its own crossing at once, or a Continue of its request that reaches it.
LEMMA CrossingSteps ==
  ASSUME Inv, [Next]_vars, NEW c \in Calls, status[c] # "proceed", status'[c] = "proceed"
  PROVE  \/ Cross(c)
         \/ \E r \in Requests : \E last \in held[r] :
              AnswerContinue(r) /\ ContinueUpTo(r, last) /\ c \in ahead[last] \union {last}
<1>. USE DEF limits, totals, tokens, decided
<1>0. TypeOK
  BY DEF Inv
<1>1. ASSUME NEW r \in Requests, AnswerContinue(r)
      PROVE  \E last \in held[r] : ContinueUpTo(r, last) /\ c \in ahead[last] \union {last}
  BY <1>1 DEF AnswerContinue, ContinueUpTo
<1>2. ASSUME NEW stopping, NEW cs, Refused(stopping, cs)
      PROVE  FALSE
  BY <1>2 DEF Refused
<1>3. ASSUME NEW d \in Calls, RefuseStopped(d) \/ RefuseAborted(d) \/ Hold(d) \/ Abort(d)
      PROVE  FALSE
  BY <1>0, <1>2, <1>3 DEF RefuseStopped, RefuseAborted, Hold, Abort, TypeOK
<1>4. ASSUME NEW d \in Calls, Cross(d)
      PROVE  Cross(c)
  <2>1. d = c
    BY <1>0, <1>4 DEF Cross, TypeOK
  <2>. QED BY <1>4, <2>1
<1>5. ASSUME UNCHANGED status
      PROVE  FALSE
  BY <1>5
<1>6. ASSUME NEW r \in Requests, Totals(r)
      PROVE  FALSE
  BY <1>5, <1>6 DEF Totals, NoteProviderRequest, Release, NoteUsage, SettleUsage
<1>7. ASSUME NEW r \in Requests, NEW setting \in LimitSettings, NEW reachable \in SUBSET Requests,
             Begin(r, setting, reachable)
      PROVE  FALSE
  BY <1>5, <1>7 DEF Begin
<1>8. ASSUME NEW r \in Requests, AnswerStop(r) \/ Expire(r) \/ AnswerLate(r)
      PROVE  FALSE
  BY <1>2, <1>5, <1>8 DEF AnswerStop, Expire, AnswerLate
<1>9. CASE Dispose
  BY <1>2, <1>9 DEF Dispose
<1>10. CASE UNCHANGED vars
  BY <1>5, <1>10 DEF vars
<1>. QED BY <1>1, <1>3, <1>4, <1>6, <1>7, <1>8, <1>9, <1>10 DEF Next, Answers

LEMMA OvertakingStep ==
  ASSUME Inv, [Next]_vars, NEW c \in Calls, NEW d \in Calls, c.request = d.request,
         status[c] # "proceed", status'[c] = "proceed", status[d] = "held", status'[d] = "held"
  PROVE  c \in ahead[d]
<1>1. d \in held[d.request] /\ d.request \in Requests /\ state[d.request] = "awaiting-decision"
  BY CallsAssumption DEF Inv, Line, HeldBehindDecision
<1>2. CASE Cross(c)
  BY <1>1, <1>2 DEF Cross, Tracked, TrackedStates
<1>3. CASE \E r \in Requests : \E last \in held[r] :
             AnswerContinue(r) /\ ContinueUpTo(r, last) /\ c \in ahead[last] \union {last}
  <2>0. PICK r \in Requests : \E last \in held[r] : ContinueUpTo(r, last) /\ c \in ahead[last] \union {last}
    BY <1>3
  <2>1. PICK last \in held[r] : ContinueUpTo(r, last) /\ c \in ahead[last] \union {last}
    BY <2>0
  <2>2. d \notin ahead[last] \union {last}
    BY <2>1 DEF ContinueUpTo
  <2>3. /\ c \in held[r] /\ c.request = r /\ last.request = r
        /\ \A e \in held[r] : \A f \in held[r] : e = f \/ (e \in ahead[f] <=> f \notin ahead[e])
        /\ \A e \in held[r] : \A f \in ahead[e] : ahead[f] \subseteq ahead[e]
    BY <2>1 DEF Inv, Line, HeldBehindDecision
  <2>. QED BY <1>1, <2>1, <2>2, <2>3
<1>. QED BY <1>2, <1>3, CrossingSteps

\* Boundaries held behind a decision cross in the order they came.
THEOREM ServedInOrder == Spec => NoOvertaking
<1>1. Inv /\ [Next]_vars =>
        [\A c, d \in Calls :
           /\ c.request = d.request
           /\ status[c] # "proceed" /\ status'[c] = "proceed"
           /\ status[d] = "held" /\ status'[d] = "held"
           => c \in ahead[d]]_vars
  BY OvertakingStep
<1>. QED BY <1>1, Invariance, PTL DEF Spec, NoOvertaking

LEMMA TrancheStep ==
  ASSUME Inv, [Next]_vars, NEW r \in Requests, allowances'[r] # allowances[r]
  PROVE  /\ allowances'[r] = allowances[r] + 1
         /\ decision[r] \in prompts[r] \ prompts'[r]
         /\ decision'[r] # decision[r]
<1>. USE DEF limits, totals, tokens, decided
<1>1. TypeOK /\ decision[r] <= asked[r]
  BY DEF Inv, Line
<1>2. ASSUME NEW q \in Requests, AnswerContinue(q)
      PROVE  /\ allowances'[r] = allowances[r] + 1
             /\ decision[r] \in prompts[r] \ prompts'[r]
             /\ decision'[r] # decision[r]
  <2>1. PICK last \in held[q] : ContinueUpTo(q, last)
    BY <1>2 DEF AnswerContinue
  <2>2. q = r /\ allowances'[r] = allowances[r] + 1
    BY <1>1, <2>1 DEF ContinueUpTo, TypeOK
  <2>3. decision[r] # 0 /\ decision[r] \in prompts[r]
    BY <1>2, <2>2 DEF AnswerContinue
  <2>4. \/ decision'[r] = 0 /\ prompts'[r] = prompts[r] \ {decision[r]}
        \/ /\ decision'[r] = asked[r] + 1
           /\ prompts'[r] = (prompts[r] \ {decision[r]}) \union {asked[r] + 1}
    BY <1>1, <2>1, <2>2 DEF ContinueUpTo, OpenDecision, TypeOK
  <2>5. decision[r] # asked[r] + 1
    BY <1>1 DEF TypeOK
  <2>. QED BY <2>2, <2>3, <2>4, <2>5
<1>3. ASSUME UNCHANGED allowances
      PROVE  FALSE
  BY <1>3
<1>4. ASSUME NEW c \in Calls, Cross(c) \/ RefuseStopped(c) \/ RefuseAborted(c) \/ Hold(c) \/ Abort(c)
      PROVE  FALSE
  BY <1>3, <1>4 DEF Cross, RefuseStopped, RefuseAborted, Hold, Abort, Refused
<1>5. ASSUME NEW q \in Requests, AnswerStop(q) \/ Expire(q) \/ AnswerLate(q)
      PROVE  FALSE
  BY <1>3, <1>5 DEF AnswerStop, Expire, AnswerLate, Refused
<1>6. ASSUME NEW q \in Requests, Totals(q)
      PROVE  FALSE
  BY <1>3, <1>6 DEF Totals, NoteProviderRequest, Release, NoteUsage, SettleUsage
<1>7. ASSUME NEW q \in Requests, NEW setting \in LimitSettings, NEW reachable \in SUBSET Requests,
             Begin(q, setting, reachable)
      PROVE  FALSE
  BY <1>3, <1>7 DEF Begin
<1>8. CASE Dispose
  BY <1>3, <1>8 DEF Dispose, Refused
<1>9. CASE UNCHANGED vars
  BY <1>3, <1>9 DEF vars
<1>. QED BY <1>2, <1>4, <1>5, <1>6, <1>7, <1>8, <1>9 DEF Next, Answers

\* A tranche is bought by the answer of the decision that is open, and by nothing else.
THEOREM OwnAnswerOnly == Spec => TrancheAnswersItsDecision
<1>1. Inv /\ [Next]_vars =>
        [\A r \in Requests : allowances'[r] # allowances[r] =>
           /\ allowances'[r] = allowances[r] + 1
           /\ decision[r] \in prompts[r] \ prompts'[r]
           /\ decision'[r] # decision[r]]_vars
  BY TrancheStep
<1>. QED BY <1>1, Invariance, PTL DEF Spec, TrancheAnswersItsDecision

=============================================================================
