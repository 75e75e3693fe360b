------------------------- MODULE SharedMountsProofs -------------------------
(***************************************************************************)
(* Theorems of the shared mount of an integration, for any number of       *)
(* sessions, of starts and of mounts.                                      *)
(***************************************************************************)
EXTENDS SharedMounts, TLAPS

-----------------------------------------------------------------------------
(* Type correctness.                                                       *)

\* What settling leaves of the starts and the leases.
LEMMA SettleTypes ==
  ASSUME MTypeOK, Settle
  PROVE  /\ op' = "none" /\ leases' = {} /\ background' = FALSE
         /\ start' \in [Starts -> {"idle", "waiting", "ahead"}]
         /\ \A t \in Starts : start'[t] # "waiting"
         /\ UNCHANGED <<number, aborted, cancelled>>
BY DEF Settle, Leave, MTypeOK

\* A step that settles the operation and adds no prompt keeps the types.
LEMMA SettledTypes ==
  ASSUME MTypeOK, Settle, prompts' \subseteq prompts, removal' \in Removals,
         {mounted', approved', configured', late', confirmed'} \subseteq BOOLEAN
  PROVE  MTypeOK'
<1>1. /\ op' = "none" /\ leases' = {} /\ background' = FALSE
      /\ start' \in [Starts -> {"idle", "waiting", "ahead"}]
      /\ \A t \in Starts : start'[t] # "waiting"
      /\ UNCHANGED <<number, aborted, cancelled>>
  BY SettleTypes
<1>. QED BY <1>1 DEF MTypeOK, Stages

LEMMA AcquireTypes ==
  ASSUME MTypeOK, Acquire
  PROVE  /\ op' \in Stages \ {"none"} /\ number' \in Nat /\ number' > 0
         /\ aborted' \in BOOLEAN /\ cancelled' \in BOOLEAN
         /\ \A m \in 1..number : m \in 1..number'
         /\ op' = "asking" => op = "asking" /\ UNCHANGED <<number, aborted>>
<1>1. CASE op = "none"
  <2>1. op' = "starting" /\ number' = number + 1 /\ aborted' = FALSE /\ cancelled' = FALSE
    BY <1>1 DEF Acquire
  <2>2. number \in Nat
    BY DEF MTypeOK
  <2>3. number' \in Nat /\ number' > 0 /\ \A m \in 1..number : m \in 1..number'
    BY <2>1, <2>2
  <2>4. op' \in Stages \ {"none"} /\ op' # "asking"
    BY <2>1 DEF Stages
  <2>5. aborted' \in BOOLEAN /\ cancelled' \in BOOLEAN
    BY <2>1
  <2>. QED BY <2>3, <2>4, <2>5
<1>2. CASE op # "none"
  BY <1>2 DEF Acquire, MTypeOK, Stages, operation
<1>. QED BY <1>1, <1>2

LEMMA StartTypes == ASSUME MTypeOK, NEW t \in Starts, OfStart(t) PROVE MTypeOK'
<1>1. CASE StartsAtOnce(t)
  <2>1. /\ UNCHANGED <<op, number, aborted, cancelled, leases, background, prompts>>
        /\ UNCHANGED <<mounted, approved, configured, removal, late, confirmed>>
        /\ start' \in [Starts -> {"idle", "waiting", "ahead"}]
        /\ \A r \in Starts : start'[r] = "waiting" <=> start[r] = "waiting"
    BY <1>1 DEF StartsAtOnce, operation, held, server, MTypeOK
  <2>. QED BY <2>1 DEF MTypeOK
<1>2. CASE StartWaits(t)
  <2>1. /\ UNCHANGED <<background, prompts, mounted, approved, configured, removal, late, confirmed>>
        /\ start' = [start EXCEPT ![t] = "waiting"] /\ leases' = leases \union {t} /\ Acquire
    BY <1>2 DEF StartWaits, Join, server
  <2>2. leases' = {r \in Starts : start'[r] = "waiting"} /\ start' \in [Starts -> {"idle", "waiting", "ahead"}]
    BY <2>1 DEF MTypeOK
  <2>. QED BY <2>1, <2>2, AcquireTypes DEF MTypeOK
<1>3. CASE TimesOut(t)
  <2>1. /\ UNCHANGED <<op, number, cancelled, prompts, mounted, approved, configured, removal, late, confirmed>>
        /\ leases' = leases \ {t} /\ background' = TRUE /\ aborted' = (aborted \/ (leases' = {} /\ ~background'))
        /\ start' = [r \in Starts |-> IF r \in {t} THEN "ahead" ELSE start[r]] /\ start[t] = "waiting"
    BY <1>3 DEF TimesOut, Leave, server
  <2>2. leases' = {r \in Starts : start'[r] = "waiting"} /\ start' \in [Starts -> {"idle", "waiting", "ahead"}]
    BY <2>1 DEF MTypeOK
  <2>3. op # "none" /\ aborted' = aborted
    BY <2>1 DEF MTypeOK
  <2>. QED BY <2>1, <2>2, <2>3 DEF MTypeOK
<1>. QED BY <1>1, <1>2, <1>3 DEF OfStart

LEMMA PromptTypes == ASSUME MTypeOK, NEW p \in prompts, OfPrompt(p) PROVE MTypeOK'
<1>1. CASE Approves(p)
  BY <1>1 DEF Approves, Asked, held, MTypeOK, Stages
<1>2. CASE Declines(p)
  <2>1. Settle /\ prompts' \subseteq prompts /\ UNCHANGED <<mounted, approved, configured, removal, late, confirmed>>
    BY <1>2 DEF Declines, server
  <2>. QED BY <2>1, SettledTypes DEF MTypeOK
<1>3. CASE AnswersLate(p)
  BY <1>3 DEF AnswersLate, Asked, operation, held, server, MTypeOK
<1>. QED BY <1>1, <1>2, <1>3 DEF OfPrompt

LEMMA MountTypes == ASSUME MTypeOK, OfMount PROVE MTypeOK'
<1>1. CASE Mount
  <2>1. /\ UNCHANGED <<leases, start, prompts, mounted, approved, configured, removal, confirmed>>
        /\ background' = TRUE /\ late' \in BOOLEAN /\ Acquire
    BY <1>1 DEF Mount, clocks, server, MTypeOK
  <2>. QED BY <2>1, AcquireTypes DEF MTypeOK
<1>2. CASE Begins
  <2>1. /\ UNCHANGED <<number, aborted, cancelled, leases, background, start>>
        /\ UNCHANGED <<mounted, approved, configured, removal, late, confirmed>>
        /\ op = "starting" /\ op' = IF approved THEN "registering" ELSE "asking"
    BY <1>2 DEF Begins, held, server
  <2>2. prompts' = IF approved THEN prompts ELSE prompts \union {number}
    BY <1>2 DEF Begins, Open
  <2>3. prompts' \subseteq 1..number
    BY <2>1, <2>2 DEF MTypeOK
  <2>. QED BY <2>1, <2>2, <2>3 DEF MTypeOK, Stages
<1>3. ASSUME NotBegun \/ AskingAborted \/ NotSaved \/ Registers \/ NotRegistered PROVE MTypeOK'
  <2>1. Settle /\ prompts' \subseteq prompts /\ UNCHANGED <<approved, configured, removal, late, confirmed>>
        /\ mounted' \in {mounted, TRUE}
    BY <1>3 DEF NotBegun, AskingAborted, NotSaved, Registers, NotRegistered, server
  <2>. QED BY <2>1, SettledTypes DEF MTypeOK
<1>4. CASE Saved
  BY <1>4 DEF Saved, held, clocks, server, MTypeOK, Stages
<1>5. CASE RegistersTooLate
  BY <1>5 DEF RegistersTooLate, held, clocks, server, MTypeOK, Stages
<1>. QED BY <1>1, <1>2, <1>3, <1>4, <1>5 DEF OfMount

LEMMA RemovalTypes == ASSUME MTypeOK, OfRemoval PROVE MTypeOK'
<1>. USE DEF MTypeOK, Removals, operation, held, clocks
<1>1. CASE Revoke
  BY <1>1 DEF Revoke
<1>2. CASE CancelAndUnregister
  BY <1>2 DEF CancelAndUnregister
<1>3. CASE DropApproval
  BY <1>3 DEF DropApproval
<1>4. CASE ApprovalNotDropped
  BY <1>4 DEF ApprovalNotDropped
<1>5. CASE DeleteConfiguration
  BY <1>5 DEF DeleteConfiguration
<1>6. CASE GrantAgain
  BY <1>6 DEF GrantAgain
<1>7. CASE AddAgain
  BY <1>7 DEF AddAgain
<1>8. CASE ApprovalDropped
  BY <1>8 DEF ApprovalDropped
<1>. QED BY <1>1, <1>2, <1>3, <1>4, <1>5, <1>6, <1>7, <1>8 DEF OfRemoval

LEMMA InitTypes == Init => MTypeOK
<1>. SUFFICES ASSUME Init PROVE MTypeOK
  OBVIOUS
<1>1. start \in [Starts -> {"idle", "waiting", "ahead"}] /\ leases = {t \in Starts : start[t] = "waiting"}
  BY DEF Init
<1>2. {aborted, background, mounted, approved, configured, cancelled, late, confirmed} \subseteq BOOLEAN
  BY DEF Init
<1>. QED BY <1>1, <1>2 DEF Init, MTypeOK, Stages, Removals

LEMMA NextTypes == MTypeOK /\ [Next]_vars => MTypeOK'
<1>. SUFFICES ASSUME MTypeOK, [Next]_vars PROVE MTypeOK'
  OBVIOUS
<1>1. CASE UNCHANGED vars
  BY <1>1 DEF vars, operation, held, clocks, server, MTypeOK
<1>. QED BY <1>1, StartTypes, PromptTypes, MountTypes, RemovalTypes DEF Next

\* The type invariant holds in every reachable state: an operation is under way exactly while a start
\* or the background holds a lease of it, and the starts that hold one are those that wait.
THEOREM MTypeCorrect == Spec => []MTypeOK
BY InitTypes, NextTypes, PTL DEF Spec

-----------------------------------------------------------------------------
(* Turn clocks: the pauses are those of the waiting sessions.              *)

PInv == MTypeOK /\ PausedForTheWaiting

LEMMA SessionType == \A t \in Starts : SessionOf[t] \in Sessions
BY MountAssumption

\* Starts that stop waiting, while the prompts stay or one of them closes.
LEMMA LeaveRight ==
  ASSUME PInv, NEW T \in SUBSET Starts, Leave(T), UNCHANGED prompts
  PROVE  PausedForTheWaiting'
<1>1. \A s \in Sessions : Waiting(s)' <=> \E t \in Starts \ T : SessionOf[t] = s /\ start[t] = "waiting"
  BY DEF Leave, Waiting
<1>2. \A s : (\E t \in Starts \ T : SessionOf[t] = s /\ start[t] = "waiting") => Waiting(s)
  BY DEF Waiting
<1>. QED BY <1>1, <1>2 DEF Leave, PInv, PausedForTheWaiting

\* Settling ends every wait: nobody is paused.
LEMMA SettleRight == ASSUME PInv, Settle PROVE PausedForTheWaiting'
<1>1. \A t \in Starts : start'[t] # "waiting"
  BY SettleTypes DEF PInv
<1>2. paused' = {}
  BY DEF Settle, Leave, PInv, PausedForTheWaiting
<1>. QED BY <1>1, <1>2 DEF PausedForTheWaiting, Waiting

LEMMA ClosedRight ==
  ASSUME PInv, NEW p, prompts' = prompts \ {p}, paused' = Closed(p), UNCHANGED start
  PROVE  PausedForTheWaiting'
<1>1. \A s : Waiting(s)' <=> Waiting(s)
  BY DEF Waiting
<1>2. paused' = {s \in Sessions : Waiting(s)} \X prompts'
  BY DEF Closed, PInv, PausedForTheWaiting
<1>. QED BY <1>1, <1>2 DEF PausedForTheWaiting

LEMMA SameRight == ASSUME PInv, UNCHANGED clocks PROVE PausedForTheWaiting'
BY DEF PInv, PausedForTheWaiting, clocks, Waiting

LEMMA NextRight == PInv /\ [Next]_vars => PInv'
<1>. SUFFICES ASSUME PInv, [Next]_vars PROVE PausedForTheWaiting'
  BY NextTypes DEF PInv
<1>1. ASSUME NEW t \in Starts, OfStart(t) PROVE PausedForTheWaiting'
  <2>1. CASE StartsAtOnce(t)
    <3>1. \A r \in Starts : start'[r] = "waiting" <=> start[r] = "waiting"
      BY <2>1 DEF StartsAtOnce, PInv, MTypeOK
    <3>. QED BY <2>1, <3>1 DEF StartsAtOnce, PInv, PausedForTheWaiting, Waiting
  <2>2. CASE StartWaits(t)
    <3>1. start' = [start EXCEPT ![t] = "waiting"] /\ UNCHANGED prompts
          /\ paused' = paused \union (IF Waiting(SessionOf[t]) THEN {} ELSE {SessionOf[t]} \X prompts)
          /\ start[t] = "idle"
      BY <2>2 DEF StartWaits, Join
    <3>2. \A s \in Sessions : Waiting(s)' <=> Waiting(s) \/ s = SessionOf[t]
      BY <3>1 DEF Waiting, PInv, MTypeOK
    <3>3. SessionOf[t] \in Sessions
      BY SessionType
    <3>. QED BY <3>1, <3>2, <3>3 DEF PInv, PausedForTheWaiting
  <2>3. CASE TimesOut(t)
    BY <2>3, LeaveRight DEF TimesOut
  <2>. QED BY <1>1, <2>1, <2>2, <2>3 DEF OfStart
<1>2. ASSUME NEW p \in prompts, OfPrompt(p) PROVE PausedForTheWaiting'
  <2>1. CASE Approves(p)
    BY <2>1, ClosedRight DEF Approves
  <2>2. CASE Declines(p)
    BY <2>2, SettleRight DEF Declines
  <2>3. CASE AnswersLate(p)
    BY <2>3, ClosedRight DEF AnswersLate
  <2>. QED BY <1>2, <2>1, <2>2, <2>3 DEF OfPrompt
<1>3. ASSUME OfMount PROVE PausedForTheWaiting'
  <2>1. CASE NotBegun \/ AskingAborted \/ NotSaved \/ Registers \/ NotRegistered
    BY <2>1, SettleRight DEF NotBegun, AskingAborted, NotSaved, Registers, NotRegistered
  <2>2. CASE Mount \/ Saved \/ RegistersTooLate
    BY <2>2, SameRight DEF Mount, Saved, RegistersTooLate
  <2>3. CASE Begins
    <3>1. UNCHANGED start /\ (UNCHANGED <<prompts, paused>> \/ Open(number))
      BY <2>3 DEF Begins
    <3>2. CASE UNCHANGED <<prompts, paused>>
      BY <3>1, <3>2, SameRight DEF clocks
    <3>3. CASE Open(number)
      <4>1. \A s : Waiting(s)' <=> Waiting(s)
        BY <3>1 DEF Waiting
      <4>2. paused' = {s \in Sessions : Waiting(s)} \X (prompts \union {number})
        BY <3>3 DEF Open, PInv, PausedForTheWaiting
      <4>. QED BY <3>3, <4>1, <4>2 DEF Open, PausedForTheWaiting
    <3>. QED BY <3>1, <3>2, <3>3
  <2>. QED BY <1>3, <2>1, <2>2, <2>3 DEF OfMount
<1>4. ASSUME OfRemoval PROVE PausedForTheWaiting'
  BY <1>4, SameRight
     DEF OfRemoval, Revoke, CancelAndUnregister, DropApproval, ApprovalDropped, ApprovalNotDropped, DeleteConfiguration,
         GrantAgain, AddAgain
<1>5. CASE UNCHANGED vars
  BY <1>5, SameRight DEF vars
<1>. QED BY <1>1, <1>2, <1>3, <1>4, <1>5 DEF Next

\* In every reachable state the paused clocks are those of the waiting sessions, each for every prompt
\* that is open, whatever starts share a session and whatever dialogs outlive their mount.
THEOREM ClocksPausedRight == Spec => []PausedForTheWaiting
<1>1. Init => PInv
  BY InitTypes DEF Init, PInv, PausedForTheWaiting
<1>2. PInv => PausedForTheWaiting
  BY DEF PInv
<1>. QED BY <1>1, <1>2, NextRight, PTL DEF Spec

-----------------------------------------------------------------------------
(* Aborted mounts.                                                         *)

RInv == MTypeOK /\ OnlyRemovalAborts /\ RemovedIsUnmounted

LEMMA NextAborts == RInv /\ [Next]_vars => RInv'
<1>. SUFFICES ASSUME RInv, [Next]_vars PROVE OnlyRemovalAborts' /\ RemovedIsUnmounted'
  BY NextTypes DEF RInv
<1>. USE DEF OnlyRemovalAborts, RemovedIsUnmounted
<1>1. ASSUME NEW t \in Starts, OfStart(t) PROVE OnlyRemovalAborts' /\ RemovedIsUnmounted'
  <2>1. CASE StartsAtOnce(t)
    BY <2>1 DEF StartsAtOnce, operation, server, RInv
  <2>2. CASE StartWaits(t)
    BY <2>2 DEF StartWaits, Acquire, operation, server, RInv, Granted
  <2>3. CASE TimesOut(t)
    \* The background holds a lease by then.
    BY <2>3 DEF TimesOut, server, RInv, MTypeOK
  <2>. QED BY <1>1, <2>1, <2>2, <2>3 DEF OfStart
<1>2. ASSUME NEW p \in prompts, OfPrompt(p) PROVE OnlyRemovalAborts' /\ RemovedIsUnmounted'
  <2>1. CASE Approves(p)
    BY <2>1 DEF Approves, Asked, RInv
  <2>2. CASE Declines(p)
    BY <2>2 DEF Declines, Asked, Settle, server, RInv
  <2>3. CASE AnswersLate(p)
    BY <2>3 DEF AnswersLate, operation, server, RInv
  <2>. QED BY <1>2, <2>1, <2>2, <2>3 DEF OfPrompt
<1>3. ASSUME OfMount PROVE OnlyRemovalAborts' /\ RemovedIsUnmounted'
  <2>1. CASE Mount
    BY <2>1 DEF Mount, Acquire, operation, server, RInv, Granted, MTypeOK
  <2>2. CASE NotBegun \/ AskingAborted \/ NotSaved \/ NotRegistered
    BY <2>2 DEF NotBegun, AskingAborted, NotSaved, NotRegistered, Settle, server, RInv
  <2>3. CASE Registers
    BY <2>3 DEF Registers, Settle, RInv
  <2>4. CASE Begins \/ Saved \/ RegistersTooLate
    BY <2>4 DEF Begins, Saved, RegistersTooLate, server, RInv
  <2>. QED BY <1>3, <2>1, <2>2, <2>3, <2>4 DEF OfMount
<1>4. ASSUME OfRemoval PROVE OnlyRemovalAborts' /\ RemovedIsUnmounted'
  <2>1. CASE Revoke
    BY <2>1 DEF Revoke, operation, RInv
  <2>2. CASE CancelAndUnregister
    BY <2>2 DEF CancelAndUnregister, RInv
  <2>3. CASE DropApproval \/ ApprovalDropped \/ ApprovalNotDropped
    BY <2>3 DEF DropApproval, ApprovalDropped, ApprovalNotDropped, operation, RInv
  <2>4. CASE DeleteConfiguration
    BY <2>4 DEF DeleteConfiguration, operation, RInv
  <2>5. CASE GrantAgain \/ AddAgain
    BY <2>5 DEF GrantAgain, AddAgain, operation, RInv
  <2>. QED BY <1>4, <2>1, <2>2, <2>3, <2>4, <2>5 DEF OfRemoval
<1>5. CASE UNCHANGED vars
  BY <1>5 DEF vars, operation, server, RInv
<1>. QED BY <1>1, <1>2, <1>3, <1>4, <1>5 DEF Next

LEMMA InitAborts == Init => RInv
BY InitTypes DEF Init, RInv, OnlyRemovalAborts, RemovedIsUnmounted

\* No start that gives up, in whatever order starts come and go, cuts the shared mount short.
THEOREM StartsCutNothingShort == Spec => []OnlyRemovalAborts
<1>1. RInv => OnlyRemovalAborts
  BY DEF RInv
<1>. QED BY <1>1, InitAborts, NextAborts, PTL DEF Spec

\* Wherever the mount was when its integration was removed, the server is not mounted afterwards,
\* unless somebody asked for it after the cancellation.
THEOREM RemovalDisconnects == Spec => []RemovedIsUnmounted
<1>1. RInv => RemovedIsUnmounted
  BY DEF RInv
<1>. QED BY <1>1, InitAborts, NextAborts, PTL DEF Spec
=============================================================================
