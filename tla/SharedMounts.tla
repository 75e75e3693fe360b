---------------------------- MODULE SharedMounts ----------------------------
(***************************************************************************)
(* The mount of one managed integration that several starting agents share *)
(* (src/src/mcp/SharedOperationLeases.ts, src/src/mcp/                     *)
(* ManagedIntegrationStart.ts, src/src/session/SharedPromptWaits.ts,       *)
(* src/src/mcp/MCPHub.ts and, in src/src/extension.ts, the mount, its      *)
(* approval, and the removal of the integration).                          *)
(*                                                                         *)
(* The server is one that asks for approval, in a trusted workspace.  What *)
(* runs between two waits for the outside is one step: an operation that   *)
(* settles wakes every start that waits for it.                            *)
(***************************************************************************)
EXTENDS Naturals, FiniteSets

CONSTANTS
  Sessions,    \* agents that are granted the integration
  Starts,      \* their starts
  SessionOf,   \* the session that a start starts
  MaxMounts    \* bound: mount operations

ASSUME MountAssumption == SessionOf \in [Starts -> Sessions] /\ MaxMounts \in Nat

VARIABLES
  op,          \* where the one mount operation is
  number,      \* the operations so far; an operation's prompt has its number
  aborted,     \* its signal
  leases,      \* the starts that hold a lease of it
  background,  \* whether a mount that nothing waits for holds one
  mounted,     \* registered at the hub
  approved,    \* the approval that mounts look up
  configured,  \* in the registry
  removal,     \* where the removal of the integration is; the grants are revoked by then
  start,       \* where a start is
  prompts,     \* the dialogs on the screen
  paused,      \* the turn clocks: the sessions paused, each for a prompt
  cancelled,   \* history: a removal cancelled this operation
  late,        \* history: a mount was asked for after a removal's cancellation
  confirmed    \* history: the user approved the integration or added it

operation == <<op, number, aborted, cancelled>>
held      == <<leases, background>>
clocks    == <<start, prompts, paused>>
server    == <<mounted, approved, configured, removal>>
vars      == <<operation, held, clocks, server, late, confirmed>>

Granted == removal = "none"

Waiting(s) == \E t \in Starts : SessionOf[t] = s /\ start[t] = "waiting"

-----------------------------------------------------------------------------
(* Turn clocks *)

\* A session that begins to wait is paused for every prompt that is open.
Join(t) ==
  /\ start' = [start EXCEPT ![t] = "waiting"]
  /\ paused' = paused \union (IF Waiting(SessionOf[t]) THEN {} ELSE {SessionOf[t]} \X prompts)

\* Mutant: only the newest prompt is released.
LeaveNewest(T) ==
  /\ start' = [t \in Starts |-> IF t \in T THEN "ahead" ELSE start[t]]
  /\ paused' = {w \in paused : w[2] = number =>
                  \E t \in Starts \ T : SessionOf[t] = w[1] /\ start[t] = "waiting"}

\* The starts of T wait no longer; a session without another wait is released from every prompt.
Leave(T) ==
  /\ start' = [t \in Starts |-> IF t \in T THEN "ahead" ELSE start[t]]
  /\ paused' = {w \in paused : \E t \in Starts \ T : SessionOf[t] = w[1] /\ start[t] = "waiting"}

\* Mutant: the sessions that wait when a prompt opens are not paused for it.
OpenForLater(p) == prompts' = prompts \union {p} /\ UNCHANGED paused

Open(p) ==
  /\ prompts' = prompts \union {p}
  /\ paused' = paused \union {<<s, p>> : s \in {s \in Sessions : Waiting(s)}}

Closed(p) == {w \in paused : w[2] # p \/ ~Waiting(w[1])}

-----------------------------------------------------------------------------
(* Leases *)

\* The operation is joined, an aborted one too, or begun.
Acquire ==
  /\ op = "none" => number < MaxMounts
  /\ IF op = "none"
       THEN /\ op' = "starting" /\ number' = number + 1
            /\ aborted' = FALSE /\ cancelled' = FALSE
       ELSE UNCHANGED operation

\* Mutant: the lease of a mount that nothing waits for outlives its operation.
SettleKeeping ==
  /\ op' = "none"
  /\ leases' = {} /\ UNCHANGED background
  /\ Leave({t \in Starts : start[t] = "waiting"})
  /\ UNCHANGED <<number, aborted, cancelled>>

\* The promise settles: the leases are void, and every start that waited goes ahead.
Settle ==
  /\ op' = "none"
  /\ leases' = {} /\ background' = FALSE
  /\ Leave({t \in Starts : start[t] = "waiting"})
  /\ UNCHANGED <<number, aborted, cancelled>>

-----------------------------------------------------------------------------
(* Starts *)

\* Mounted already, or its configuration is missing.
StartsAtOnce(t) ==
  /\ start[t] = "idle" /\ Granted /\ (mounted \/ ~configured)
  /\ start' = [start EXCEPT ![t] = "ahead"]
  /\ UNCHANGED <<operation, held, prompts, paused, server, late, confirmed>>

StartWaits(t) ==
  /\ start[t] = "idle" /\ Granted /\ configured /\ ~mounted
  /\ Acquire /\ Join(t)
  /\ leases' = leases \union {t}
  /\ UNCHANGED <<background, prompts, server, late, confirmed>>

\* Mutant: the start's lease ends before the mount has one of its own.
TimesOutReleasing(t) ==
  /\ start[t] = "waiting"
  /\ Leave({t})
  /\ leases' = leases \ {t}
  /\ aborted' = (aborted \/ (leases' = {} /\ ~background))
  /\ background' = TRUE
  /\ UNCHANGED <<op, number, cancelled, prompts, server, late, confirmed>>

\* The deadline: the mount goes on with a lease of its own before the start's ends.
TimesOut(t) ==
  /\ start[t] = "waiting"
  /\ Leave({t})
  /\ background' = TRUE
  /\ leases' = leases \ {t}
  /\ aborted' = (aborted \/ (leases' = {} /\ ~background'))
  /\ UNCHANGED <<op, number, cancelled, prompts, server, late, confirmed>>

\* A mount that no start waits for: of the host for the agents granted, or the Retry of a notice.
Mount ==
  /\ configured /\ ~mounted
  /\ Granted \/ \E t \in Starts : start[t] = "ahead"
  /\ Acquire
  /\ background' = TRUE
  /\ late' = (late \/ ~Granted)
  /\ UNCHANGED <<leases, clocks, server, confirmed>>

-----------------------------------------------------------------------------
(* The mount: performMcpMount *)

\* Cancelled before it began, or its program is not installed.
NotBegun ==
  /\ op = "starting"
  /\ Settle
  /\ UNCHANGED <<prompts, server, late, confirmed>>

Begins ==
  /\ op = "starting" /\ ~aborted
  /\ op' = IF approved THEN "registering" ELSE "asking"
  /\ IF approved THEN UNCHANGED <<prompts, paused>> ELSE Open(number)
  /\ UNCHANGED <<number, aborted, cancelled, held, start, server, late, confirmed>>

Asked(p) == op = "asking" /\ p = number /\ ~aborted

Approves(p) ==
  /\ p \in prompts /\ Asked(p)
  /\ op' = "saving" /\ approved' = TRUE /\ confirmed' = TRUE
  /\ prompts' = prompts \ {p} /\ paused' = Closed(p)
  /\ UNCHANGED <<number, aborted, cancelled, held, start, mounted, configured, removal, late>>

Declines(p) ==
  /\ p \in prompts /\ Asked(p)
  /\ prompts' = prompts \ {p}
  /\ Settle
  /\ UNCHANGED <<server, late, confirmed>>

\* An answer, of either kind, that nothing waits for any more.
AnswersLate(p) ==
  /\ p \in prompts /\ ~Asked(p)
  /\ prompts' = prompts \ {p} /\ paused' = Closed(p)
  /\ UNCHANGED <<operation, held, start, server, late, confirmed>>

\* The abort ends the wait for the answer; the dialog stays.
AskingAborted ==
  /\ op = "asking" /\ aborted
  /\ Settle
  /\ UNCHANGED <<prompts, server, late, confirmed>>

\* The approval is saved, or could not be.
Saved ==
  /\ op = "saving" /\ ~aborted
  /\ op' = "registering"
  /\ UNCHANGED <<number, aborted, cancelled, held, clocks, server, late, confirmed>>

NotSaved ==
  /\ op = "saving"
  /\ Settle
  /\ UNCHANGED <<prompts, server, late, confirmed>>

\* Mutant: the signal is not read after the connection.
RegistersAnyway ==
  /\ op = "registering"
  /\ mounted' = TRUE
  /\ Settle
  /\ UNCHANGED <<prompts, approved, configured, removal, late, confirmed>>

Registers ==
  /\ op = "registering" /\ ~aborted
  /\ mounted' = TRUE
  /\ Settle
  /\ UNCHANGED <<prompts, approved, configured, removal, late, confirmed>>

\* Connected too late: it is disconnected before the operation settles.
RegistersTooLate ==
  /\ op = "registering" /\ aborted
  /\ op' = "disconnecting"
  /\ UNCHANGED <<number, aborted, cancelled, held, clocks, server, late, confirmed>>

\* The connection failed, or was closed.
NotRegistered ==
  /\ op \in {"registering", "disconnecting"}
  /\ Settle
  /\ UNCHANGED <<prompts, server, late, confirmed>>

-----------------------------------------------------------------------------
(* The removal, and the integration's return *)

Revoke ==
  /\ removal = "none" /\ configured
  /\ removal' = "revoked"
  /\ UNCHANGED <<operation, held, clocks, mounted, approved, configured, late, confirmed>>

CancelAndUnregister ==
  /\ removal = "revoked"
  /\ removal' = "unregistered"
  /\ aborted' = (aborted \/ op # "none") /\ cancelled' = (cancelled \/ op # "none")
  /\ mounted' = FALSE /\ late' = FALSE
  /\ UNCHANGED <<op, number, held, clocks, approved, configured, confirmed>>

\* The approval is taken back, and the others are saved.
DropApproval ==
  /\ removal = "unregistered"
  /\ removal' = "dropping" /\ approved' = FALSE
  /\ UNCHANGED <<operation, held, clocks, mounted, configured, late, confirmed>>

ApprovalDropped ==
  /\ removal = "dropping"
  /\ removal' = "dropped"
  /\ UNCHANGED <<operation, held, clocks, mounted, approved, configured, late, confirmed>>

\* It is put back where that could not be saved, whether it was there before or not.
ApprovalNotDropped ==
  /\ removal = "dropping"
  /\ removal' = "failed" /\ approved' = TRUE
  /\ UNCHANGED <<operation, held, clocks, mounted, configured, late, confirmed>>

DeleteConfiguration ==
  /\ removal = "dropped"
  /\ \/ removal' = "removed" /\ configured' = FALSE
     \/ removal' = "failed" /\ UNCHANGED configured
  /\ UNCHANGED <<operation, held, clocks, mounted, approved, late, confirmed>>

\* An agent is granted an integration that stayed configured.
GrantAgain ==
  /\ removal = "failed"
  /\ removal' = "none"
  /\ UNCHANGED <<operation, held, clocks, mounted, approved, configured, late, confirmed>>

\* Adding it is its approval.
AddAgain ==
  /\ removal = "removed"
  /\ removal' = "none" /\ configured' = TRUE /\ approved' = TRUE /\ confirmed' = TRUE
  /\ UNCHANGED <<operation, held, clocks, mounted, late>>

-----------------------------------------------------------------------------
\* The integration came with a file: nobody approved it yet.
Init ==
  /\ op = "none" /\ number = 0 /\ aborted = FALSE
  /\ leases = {} /\ background = FALSE
  /\ mounted = FALSE /\ approved = FALSE /\ configured = TRUE /\ removal = "none"
  /\ start = [t \in Starts |-> "idle"] /\ prompts = {} /\ paused = {}
  /\ cancelled = FALSE /\ late = FALSE /\ confirmed = FALSE

OfStart(t) == StartsAtOnce(t) \/ StartWaits(t) \/ TimesOut(t)
OfPrompt(p) == Approves(p) \/ Declines(p) \/ AnswersLate(p)

OfMount ==
  \/ Mount \/ NotBegun \/ Begins \/ AskingAborted \/ Saved \/ NotSaved
  \/ Registers \/ RegistersTooLate \/ NotRegistered

OfRemoval ==
  \/ Revoke \/ CancelAndUnregister \/ DropApproval \/ ApprovalDropped \/ ApprovalNotDropped
  \/ DeleteConfiguration \/ GrantAgain \/ AddAgain

Next ==
  \/ \E t \in Starts : OfStart(t)
  \/ \E p \in prompts : OfPrompt(p)
  \/ OfMount \/ OfRemoval

Spec == Init /\ [][Next]_vars

\* Deadlines come; nobody need answer, and no server need connect.
FairSpec == Spec /\ \A t \in Starts : WF_vars(TimesOut(t))

-----------------------------------------------------------------------------
(* Properties *)

Stages == {"none", "starting", "asking", "saving", "registering", "disconnecting"}
Removals == {"none", "revoked", "unregistered", "dropping", "dropped", "removed", "failed"}

MTypeOK ==
  /\ op \in Stages /\ number \in Nat
  /\ {aborted, background, mounted, approved, configured, cancelled, late, confirmed} \subseteq BOOLEAN
  /\ leases = {t \in Starts : start[t] = "waiting"}
  /\ removal \in Removals
  /\ start \in [Starts -> {"idle", "waiting", "ahead"}]
  /\ prompts \subseteq 1..number
  /\ op = "none" => leases = {} /\ ~background
  /\ op # "none" => number > 0 /\ (leases # {} \/ background)
  /\ op = "asking" => number \in prompts \/ aborted

\* "A session that is waiting on a key is paused for every prompt open for the key, and a session that
\* is not waiting on it is paused for none" (SharedPromptWaits.ts:12-13), through starts that give up,
\* start again and share a session, and dialogs that outlive the mount that opened them.
PausedForTheWaiting == paused = {s \in Sessions : Waiting(s)} \X prompts

\* No clock stays paused for good where nobody answers.
ClockRunsAgain == \A s \in Sessions : (\E w \in paused : w[1] = s) ~> ~\E w \in paused : w[1] = s

\* However starts come and give up, only a removal cuts a mount short.
OnlyRemovalAborts == op # "none" /\ aborted => cancelled

\* A removal leaves the server disconnected and every mount of it cancelled, wherever the mount was,
\* unless somebody asked for one after the cancellation.
RemovedIsUnmounted ==
  removal \in {"unregistered", "dropping", "dropped", "removed", "failed"} /\ ~late =>
    ~mounted /\ (op # "none" => aborted)

\* A server that needs approval is mounted behind the user's "one-time confirmation"
\* (extension.ts:7308-7309), or because the user added it.
MountedIsConfirmed == mounted => confirmed
=============================================================================
