# Verification of UnodeAi

UnodeAi is a Visual Studio Code extension in which a team of AI agents works on one workspace. A coordinator
plans and delegates, teammates work on gateway or CLI routes, and the person sets limits, answers prompts and decides
about results. The code is TypeScript under `src/src/` and runs in one extension host, so the program is concurrent
without being parallel: every `await` is a point at which any other turn, callback, timer or prompt may run, and the
host may be reloaded or killed at any of them.

This directory holds TLA+ models of its core, the TLC runs that check them, and TLAPS proofs. `PROJECT.json` maps every
definition to the lines it models and lists runs, mutants, hazards and theorems.

* [1. The system](#1-the-system): components, state, interaction, what is hard
* [2. The modules](#2-the-modules): which module models what, action by function
* [3. The runs](#3-the-runs): what each one checks and shows, bounds, fairness
* [4. The proofs](#4-the-proofs)
* [5. Findings and observations](#5-findings-and-observations)
* [6. What is not modelled](#6-what-is-not-modelled)
* [7. Plan](#7-plan)

To repeat a run: `tlc -workers 2 -config ResultMailbox.cfg MCResultMailbox`; to repeat a proof:
`tlapm ResultMailboxProofs.tla`.

## 1. The system

### 1.1 Components

Paths are relative to `src/src/`. M marks what is modelled so far, P what the plan holds.

| Component | Code | State | Operations | Correct when |
|---|---|---|---|---|
| **Request ceiling** (M) | `host/RequestCeiling.ts` | per request: state, pinned limits, counted and reserved requests, tokens per unit, tranches, held boundaries, the open decision and its timer | begin, boundary, note/settle/release, the answer, withdrawal, expiry, dispose | no limit is overrun by callers that ask at once; nobody is left behind a prompt that is gone; a late answer buys nothing; stopped is final |
| **Turns under the ceiling** (M, in part) | `session/SessionManager.ts`, `host/RequestLimitBinding.ts`, `backend/requestBoundary.ts`, `compaction/SummaryRequest.ts`, `compaction/CompactionUsage.ts` | the request of each agent's turn, queued messages, correlations, background summary | turn start, model request, effect, dispatch, wake, stop | the limit holds through every turn, stop and hand-over; a stopped request runs nothing; no reservation outlives its turn |
| **Result delivery** (M, in part) | `host/orchestration/ResultDeliveryHost.ts`, `state/PersistenceManager.ts`, `backend/DelegationResultProjection.ts` | ledger row, mailbox, offered results, queue of saves; on disk: ledger, item, body, index, marker | dispatch, retain, prepare and hand over by two lanes, decide, rework, stop/resume/remove, archive, recover | a result is not lost, not repeated once anything of its hand-over is saved, and its text goes only when the saved ledger closes it |
| **Result mailbox** (M) | `state/DelegationResultMailbox.ts` | rows with a claim each, bytes, known tokens | restore, reserve, settle, tryClaim, ackDelivery, releaseClaim, forgetArchived, releaseAfterArchive | rows stay within slots and bytes; one text, one delivery per row; tokens die with their row |
| Limit meter and prompt (P) | `host/RequestLimitMeter.ts`, `host/RequestLimitPrompt.ts` | open usage units, the open prompt | note and settle backend events, ask | each unit is settled once, in its request |
| **Spend accounting** (M, in part) | `host/SpendCoordinator.ts`, `host/SpendHost.ts`, `state/SpendStore.ts`, `models/spend/SpendAggregate.ts` | per window: units under way, write queue, heartbeat; shared on disk: shards of events, control revisions, maintenance lock | note/settle/close a unit, drain with retries, dispose, recover, transact (claim, reset, repair) | a unit's start precedes its usage, what is recorded becomes durable, a window that is gone leaves no unit open; no window writes over newer control, a level is claimed once |
| Context compaction (P) | `compaction/ContextCompactionCoordinator.ts`, `SmartCompactionPolicy.ts` | background jobs with a timer, prepared results | start, finish, apply, cancel | a summary is applied only to the history it was made from |
| Shared files (P) | `backend/FileCoordinator.ts`, `backend/fileWritePolicy.ts`, `backend/WorkspaceTools.ts`, `backend/TaskClaimRegistry.ts` | versions read per agent, claims, serialised writes | read, check-and-write, claim, release | no write hides one its author has not seen |
| Team tools and ledger (P) | `backend/TeamTools.ts`, `backend/TaskContract.ts`, `observability/RunLedger.ts`, `observability/JobOutcome.ts` | delegations, revisions, decisions, runs | dispatch, collect, decide, rework, close | a run closes once and only when nothing is owed |
| Message bus (P) | `bus/MessageBus.ts` | ring buffer, waiters with expiry | publish, subscribe, request/reply | a reply meets its waiter once |
| **Shared prompts and operations** (M) | `session/SharedPromptWaits.ts`, `mcp/SharedOperationLeases.ts`, `mcp/ManagedIntegrationStart.ts` | waiters and open prompts per key; leases per operation | join, leave, prompt opens/closes; acquire, release, cancel; the wait of a start | a clock is paused exactly while its session waits on a prompt; no start that gives up cuts the others short |
| **MCP hub** (M, in part) | `mcp/MCPHub.ts` and clients; mount and removal in `extension.ts` | mounted servers, approvals, registry | mount, approve, remove; call, quarantine, remount | a removed integration is not mounted; one that needs approval is mounted only when it was approved |
| Workflow engine (P) | `workflow/WorkflowEngine.ts`, `GatedWorkflow.ts`, `TierController.ts` | phase, attempts, verdicts | start, verdict, retry, cancel | no phase is skipped, retries are bounded |
| Managed CLI generations (P) | `host/managedCli/*` | journal, control store, live generation | install, activate, roll back | a crash leaves a generation that can start |
| Checkpoints (P) | `backend/TaskCheckpoints.ts`, `CheckpointRestore.ts` | captured files | capture, restore | a partial restore is seen |
| Backends, CLI policies, worktrees, routes and prices, views, terminals, assets | see `PROJECT.json` | | | parsing, I/O, user interface or pure tables; not planned |

### 1.2 How they interact

* The session manager runs one turn per agent. It begins the request at the gate (`begin`), asks it at the start of the
  turn (`holdTurnStart`), and hands the backend a boundary that the backend asks before each model request and the tools
  before each effect (`RequestLimitBinding`). The meter turns the backend's events into `noteProviderRequest`,
  `noteUsage` and `settleUsage`. A decision's answer calls back into the session manager, which interrupts the turns
  of the request (`liveTurnsOf`).
* A background summary belongs to the compaction coordinator and outlives turns. It asks under the request of the turn
  that runs *when it asks*, and is counted for the request it was captured in.
* A finished delegation goes from the session manager to `ResultDeliveryHost.retain`, which puts it into the mailbox and
  enqueues its saves. Two lanes hand results over, the automatic wake and the coordinator's collecting tool; both await
  `prepare` and then claim, give and acknowledge in one synchronous step.
* The usage units of a turn are opened, noted and settled by the session manager; the spend coordinator queues an event
  for each and never makes the turn wait. Windows of one project share nothing but files: each appends to its own shard
  and reads all of them, and control (claims of reminders, resets) is published as numbered revisions under a lock.
* An agent's start waits, for a bounded time, for the mounts of the integrations it is granted. Agents share one mount
  per server through leases, and one prompt through `SharedPromptWaits`, which pauses their turn clocks.
* Every save of the delivery host is a job of one queue over `PersistenceManager`; the ledger also saves itself after
  each change. After a reload, `recoverStorage` runs beside activation and puts back what is still owed.

### 1.3 What is hard

The full list, each hazard at its line and with the properties that would catch it, is under `hazards` in
`PROJECT.json`. In groups:

* **Two askers at one count**: check and reservation must be one step, and a Continue that covers only some of those who
  wait must count what each one let through reserves.
* **Answers that come late**: prompts that were withdrawn, replaced or timed out still answer.
* **State read before an await**: `prepare` waits for a save while the coordinator may stop, leave or decide, or the
  other lane may hand over; a boundary reads the running turn at the moment it is asked.
* **Crashes between saves**: ledger, item, body, index and marker get to the disk one by one, and the next host has to
  tell *owed*, *delivered* and *perhaps delivered* apart from any prefix of them.
* **Storage that does not answer**: every save queues behind the one that hangs, and work must go on.
* **Windows that stall or end between two calls of the file system**: a lock that is taken from its holder, a name that
  pruning makes free again, a unit whose window will not close it.
* **Shared operations**: several starts hold one mount, give up and come back, while the user removes the integration.
* **Identity over time**: tokens, rows, revisions and attempts whose name is used again.
* **Limits**: 500 tracked requests, 1000 correlations, 256 mailbox slots and 8 MiB of bodies.

## 2. The modules

| Module | Models | Extends / instantiates |
|---|---|---|
| `RequestCeiling` | the gate | |
| `RequestCeilingProofs` | theorems about the gate | `RequestCeiling`, `TLAPS` |
| `LimitedTurns` | turns, summaries and queued messages over the gate | `RequestCeiling` |
| `LimitedTurnsProofs` | theorems about turns and gate together | `LimitedTurns`, `RequestCeilingProofs` |
| `ResultDelivery` | the delivery of one delegation across crashes | |
| `ResultDeliveryProofs` | theorems about it | `ResultDelivery`, `TLAPS` |
| `MailboxPromise` | abstract: what the mailbox promises its host | |
| `ResultMailbox` | the mailbox | `MailboxPromise` through a refinement mapping |
| `ResultMailboxProofs` | theorems about the mailbox, the refinement among them | `ResultMailbox`, `TLAPS` |
| `SpendRegister` | abstract: the control as one value that every change builds on | |
| `SpendControl` | lock, revisions and claims of the spend tracking | `SpendRegister` through a refinement mapping |
| `SpendControlProofs` | theorems about it, the refinement among them | `SpendControl`, `TLAPS` |
| `SpendQueue` | the events of usage units, from the turn to the disk and to the recovery | |
| `SpendQueueProofs` | theorems about it | `SpendQueue`, `TLAPS` |
| `SharedMounts` | the shared mount of an integration, its waits, prompts and removal | |
| `SharedMountsProofs` | theorems about it | `SharedMounts`, `TLAPS` |
| `MC...` | the small instances that TLC checks | |

Each action stands for a whole synchronous stretch of code, from its entry or the resumption after an `await` to the
next `await`. Some module sections carry, directly before a definition, a variant of it marked `Mutant`: a plausible
bug, used to see that a property notices it and never part of a specification.

### 2.1 `RequestCeiling`

| Code (`host/RequestCeiling.ts`) | Model |
|---|---|
| `begin`, `forgetUnreachable` | `Begin`, `Forgotten` |
| `boundary` | `Cross`, `RefuseStopped`, `RefuseAborted`, `Hold` |
| a caller's abort, `withdraw` | `Abort`, `Refused` |
| `openDecision`, `ask` | `OpenDecision` |
| `settle`, `admit` | `AnswerContinue` with `AdmittedUpTo` and `ContinueUpTo`, `AnswerStop`, `AnswerLate` |
| the decision's timer | `Expire` |
| `noteProviderRequest`, `release`, `noteUsage`, `settleUsage` | the actions of the same name |
| `dispose` | `Dispose` |

A member of `Calls` is one call of `boundary`. The code keeps the number of reservations per agent; the model keeps
the set of calls that made them, so that a property can say *whose* a reservation is, and the code's counter is the
cardinality. The code's insertion-ordered `Set` of held boundaries is a set with, per call, those `ahead` of it: this
keeps the order without a sequence, which the proofs profit from. `admit` lets the first held boundary cross and then
each next one while the new allowance is not reached; the model chooses the last one let through and states
that rule of it (`AdmittedUpTo`). `unreserved` is a history variable: requests counted that nobody had reserved.

### 2.2 `LimitedTurns`

| Code | Model |
|---|---|
| `SessionManager` turn start, `beginRequest` | `NewRequest`, `ContinueRequest`, `StartUnlimited` |
| `holdTurnStart`, `RequestLimitBinding.boundary`, `awaitRequestBoundary` | `Ask`, `Proceed` |
| the request leaves; a CLI turn is handed over; a compaction before it | `Send`, `CompactFirst` |
| dispatch of a task, an automatic wake, `correlationRequests` | `Dispatch`, `Wake`, `DropAwaited` |
| `finishRequestCloseout`, `releaseTurnReservation` | `EndTurn`, `ReservedAfter` |
| `interrupt`, `liveTurnsOf` | `Interrupt`, `UserStop`, `RefusalEndsTurn`, `StopByAnswer`, `StopByTimer` |
| `reachableRequestIds` | `ReachableIn` |
| `SummaryRequest`, `CompactionUsage` | `StartSummary`, `AskSummary`, `SummaryUnasked`, `SummaryProceeds`, `SendSummary`, `EndSummary` |

Every step of the gate is a step of `RequestCeiling` itself, never a copy of it. `Stop` of a decision ends the turns
of the request in the same step as the gate refuses the held boundaries, since the code does both before it
yields.

### 2.3 `ResultDelivery`

| Code (`host/orchestration/ResultDeliveryHost.ts`) | Model |
|---|---|
| `resultIdentity`, `current`, `canDeliver`, `closedByLedger` | `Identity`, `Current`, `CanDeliver`, `ClosedBy` |
| `reserve`, `retain` | `Reserved`, `Dispatch`, `Retain` |
| decision, `beginResultRework` | `Decide`, `Rework` |
| `scope` for stop, resume, removal | `Stop`, `Resume`, `Remove` |
| `prepare`, `delivered` | `Prepare`, `HandOver`, `Withdraw`, `Given` |
| `enqueue` and the jobs of the queue | `Steps`, `Running`, `Look` ... `GiveUp` |
| `archiveDecided`, `reclaimClosed`, `PersistenceManager.retireArchivedResult` | `Pick`, `Retire`, `Unindex`, `Reclaim`, `Forget` |
| `recoverStorage` | `OpenStore`, `ReclaimArchived`, `StartReading`, `PassOver`, `LeaveUnknown`, `Restore`, `Offer` |
| a kill, a reload | `Restart`, `Shutdown` |

One delegation is modelled, with a revision per rework and the attempt that makes each revision. A job is a sequence
of named steps with an await between each two. Choices that shape the model:

* The ledger is saved by the jobs and, besides, after every change (`SaveChangedLedger`). The save that `scope`
  enqueues changes nothing else in the queue and is represented by `SaveChangedLedger`.
* `Dispatch` happens in the first host only. A dispatch that is lost with its ledger gets a new handle, hence would be
  another delegation.
* Whether the mailbox has room is a choice at each reservation. The index has as many places as the mailbox has slots, so
  after a restart there is always room for what is indexed.
* The first host begins with recovery done, because it finds nothing.

### 2.4 `ResultMailbox` and `MailboxPromise`

The actions have the names of the methods of `state/DelegationResultMailbox.ts`; `reserve` and `ackDelivery` are split
by outcome (`Reserve`/`ReserveAgain`, `Acknowledge`/`RefuseAck`), and `releaseAfterArchive`, the only asynchronous
method, at its await (`StartRelease`, `Released`, `NotReleased`). Refusals that change nothing are not actions. The code
tells rows apart by object identity (`this.rows.get(key) !== row`); in the model each row made has a number. The
authority is the ledger's, external to this class, and may change its mind at every call (`Move`).

`MailboxPromise` says what a user of the mailbox may rely on without knowing of claims, tokens, archives or attempts: a
slot per result within a bound, filled once, delivered at most once, never delivered once two completions have
contradicted each other. A slot of the abstract specification is mapped to the row's state as the host sees it
(`SlotState`); claims and releases under way are stutters.

### 2.5 `SpendControl` and `SpendRegister`

| Code (`state/SpendStore.ts`) | Model |
|---|---|
| `acquireLock`, `lockStatus`, `quarantineLock` | `Make`, `Name`, `NotNamed`; `Check`; `MoveAside` |
| `renewLock`, the lease, `releaseLock` | `Renew`, `Expire`, `Release` |
| `transact`: the re-read and the change | `Read`, with `Fresh` and `With` for what `claim` and `resetCounter` do |
| `commitControl`, `pruneRevisions` | `Confirm`, `Publish`, `PublishFails`; `Prune` |
| `SpendCoordinator.claim`, its retries | `Retry` |

A change is a process: one transaction of one window, with its local variables, and an action for each stretch between
two calls of the file system. A window that crashes is one that takes no more steps, and nothing is fair, so every
theorem holds through crashes. The lock is a directory that `rename` takes away whosever it is by then; a revision is
a file that `link` makes only where no such name exists. Choices:

* An owner record, a `released-` file and a `beat-` file are fields of the lock; time is `Expire`, at any moment.
* `Level` 0 stands for the changes of the user: resets, decisions about the project's budget, repairs. Claims concern
  one counter.
* The number of revisions kept is a constant (10 in the code), because what holds depends on it.
* The file system has hard links, and nothing is unreadable or of a newer version.

`SpendRegister` is what windows may rely on without knowing of locks and files: one value that changes by one change
made to *it*. The mapping is `Current`, the newest revision; publishing late, under a number that pruning has made free,
is then no step of the abstract specification but a stutter.

### 2.6 `SpendQueue`

| Code | Model |
|---|---|
| `noteModelRequest`, `settleUsageUnit`, `closeUsageUnit`, `record` (`host/SpendCoordinator.ts`) | `NoteModelRequest`, `Settle`, `CloseUnit`, `Record` |
| `drain`, `retryDelay` | `WriteSucceeds`, `WriteFails`, `RetryDelayEnds` |
| `ensureDirectories`, `appendNow` (`state/SpendStore.ts`) | `EnsureDirectories`, `Landed` |
| `dispose` of the coordinator and of the store | `Dispose`, `LastAttempt`, `DisposeEnds` |
| `writeHeartbeat`, `readHeartbeats` | `Beats`, `BeatLapses` |
| `recoverAbandonedUnits`, `hostOfUnit` | `Abandoned`, `RecoverAbandonedUnits`, `GapSucceeds`, `GapFails` |
| `aggregateSpend`: the state of a unit | `State` |

`disk` is the set of events in all shards, since copies of one event are taken for one; an append that fails may have
landed all the same. `plan` is what a recovery has decided before its appends: by the time a gap is written its unit may
have its receipt. The drain clears its mark one microtask after its loop ends, and the model does both at once: what
could record an event in that microtask would have to be resumed by the very promise that ended the loop, and the only
such callback (`onDurable`) runs inside the loop. Overlapping recoveries of one window are taken one after the other.

### 2.7 `SharedMounts`

| Code | Model |
|---|---|
| `SharedPromptWaits.join`, `prompt`, `waitAs` | `Join`, `Leave`; `Open`, `Closed` |
| `SharedOperationLeases.acquire`, `release`, `cancel` | `Acquire`, `Settle`; in `TimesOut`; in `CancelAndUnregister` |
| `prepareManagedIntegrationsForStart` | `StartsAtOnce`, `StartWaits`, `TimesOut` |
| `mountMcpServer` of the host and of Retry (`extension.ts`) | `Mount` |
| `performMcpMount`, `requestMcpMountApproval` | `NotBegun` ... `RegistersTooLate`, `NotRegistered` |
| `removeManagedIntegration` | `Revoke`, `CancelAndUnregister`, `DropApproval`, `ApprovalDropped`, `ApprovalNotDropped`, `DeleteConfiguration` |
| adding it again, granting it again | `AddAgain`, `GrantAgain` |

One integration that needs approval, in a trusted workspace. `paused` holds the pairs of a session and a prompt that
its turn clock is paused for. An operation that settles wakes whoever waits for it in the same run of microtasks, hence
in the same step. A start that comes again is another member of `Starts`. Adding an integration takes two saves in the
code and one step here; reconfiguring or quarantining a mounted one is left out.

## 3. The runs

| Run | Instance | Distinct states | Expected |
|---|---|---|---|
| `request_ceiling` | one request, two agents, four calls, one usage unit | 319,270 | pass |
| `limited_turns` | two requests, a gateway agent with summaries, a CLI agent | 678,965 | pass |
| `summary_at_limit` | the same | | violation (finding 1) |
| `result_delivery` | one revision, two lanes, all events, two crashes; or two revisions, one lane, one crash | 2,886,726 | pass |
| `result_hand_over` | one revision, two lanes, one crash, decision and stop | 81,152 | pass |
| `result_repeated` | one revision, one lane, one crash | | violation (finding 2) |
| `result_mailbox` | three results, two completions, two texts, two slots | 283,936 | pass |
| `spend_control` | four changes: the user's, two claims of one level, one of a higher level | about 2.8 million | pass |
| `spend_queue` | two units of one window, one window that stays | 63,412 | pass |
| `directories_remembered` | one unit, one window | | violation (finding 3) |
| `shared_mounts` | two sessions, three starts, three mounts | 74,140 | pass |
| `mount_unconfirmed` | the same | | violation (finding 4) |

Deadlock is not checked in any of them: a gate with nothing to ask, a delegation that is decided and archived, a
mailbox whose bounds on rows made and tokens minted are used up, changes that are done, windows that are closed, and an
integration that nobody asks for any more are all allowed to stop.

### 3.1 What they check

**`request_ceiling`.** `AllowanceRespected`: counted and reserved requests never exceed the limit and the tranches that
were added, but for requests nobody had reserved. `HeldBehindDecision`: a call waits exactly while it stands in the
line of the one open decision of its request, and a decision is open exactly while somebody waits.
`TrancheAnswersItsDecision`: only the answer of the open decision adds a tranche. `CrossingPerAllowance`: asking again
at the same allowance does not count twice. `StoppedIsFinal`, `NoOvertaking`, and the liveness property
`HeldIsAnswered`. In this run the calls come in any order from any caller, which includes everything the session
manager may do and much that it does not.

**`limited_turns`.** The gate as its real callers use it. `OnlySummariesOverrun` sharpens `AllowanceRespected`: through
turn starts, compactions that use up a start, stops between crossing and sending, and hand-overs, the only requests
beyond the allowance are those of background summaries. `ReservationHasTurn`: a reservation belongs to a live turn in
that very request. `StoppedRunsNothing`: Stop reaches every live turn, and a turn that starts later is refused.
`ForgottenIsOver`: what the gate forgets at its bound on tracked requests nothing can name again.

**`result_delivery`.** `RepeatedOnlyUnsaved`: a result is handed over twice only when nothing at all
of the first time had been saved. `HandedWhileOwed`: what is handed over is still owed at that moment, whatever
happened during the wait. `BodyBehindIndex`: at every crash point an indexed result has its item and its text.
`ReclaimedIsClosed`: a saved text is gone only when the *saved* ledger closes that very attempt. `SavedIsKnown`: a
result that was saved, not attempted and still owed is back after any restart. The instance includes the rework, where a
crash may lose the new revision from the ledger and leave its item, so that two attempts at one revision meet.

**`result_hand_over`.** `StorageNeverBlocks`: an offered result that can be delivered is delivered or stops being
owed, with no assumption on the storage.

**`result_mailbox`.** `WithinBounds` on slots and bytes; `ClaimsHeld`, `AckedOnce`: no token outlives its row and no row
is acknowledged twice; `ClosingIsReleased` and `LeavesByItsRelease`: a release that resumes after its archive leaves
alone a row that took the place of its own; `PromiseKept`: the refinement.

**`spend_control`.** `RegisterKept`, the refinement: what windows read changes only by one change made to it, whatever
became of the lock. `LostOnlyFarBehind`: a change that was published is in what windows read, unless its window stalled
past every revision that pruning keeps; the head of the file says without this proviso that a second publish of a
revision fails, and the proviso is what 10 revisions and a lease of seconds make unlikely. `ClaimedOnce`: with the same
proviso, no level is won twice, so no reminder is shown by two windows. `STypeOK` also says that a change is published
only if it was fresh to what was read.

**`spend_queue`.** `NothingWithoutStart`: a receipt or a gap is never on the disk without its unit's start, which
is what the totals need to count it. `DurableUnlessNoDirectories`: in a window that stays open every recorded event becomes
durable, if its directories could be made. `GoneIsClosed`: a unit that was open when its window ended is closed
by a window that stays, whichever way the first one ended. `QTypeOK` also says that no open window has an event without
a drain at work on it.

**`shared_mounts`.** `PausedForTheWaiting`, the rule at the head of `SharedPromptWaits.ts`, as an equation between the
clocks and the waits. `ClockRunsAgain`: though nobody answers, no clock stays paused. `OnlyRemovalAborts`: in whatever
order starts join, give up and come again, none of them aborts the mount of the others. `RemovedIsUnmounted`: wherever
the mount was when its integration was removed, it ends up disconnected.

### 3.2 Bounds

* *Gate*: with a limit of one, two reserving calls of one agent, one of another and an effect that reserves nothing, a
  Continue lets some of those who wait through and holds the rest behind a second decision; two counted requests and
  one settled token make both limits reachable and let a tranche be used up. Requests share nothing in the gate
  but the bound on tracked ones; `limited_turns` has two of them with `MaxTracked = 1`, so that forgetting happens at
  once.
* *Turns*: one agent per route is enough for the two to ask at the same count, dispatch to each other and be stopped
  together. Tokens are left out (no unit): the token limit takes part in the gate's model and turns do not differ in
  how they meet it.
* *Delivery*: two crashes, because the second one may hit the recovery from the first; two lanes, because that is how
  many the code has in use. Once anything knows of a second revision the constraint `PlainRework` leaves one crash, one
  lane and no event of the session, because the interesting case there is the revision that is begun again. `Events` takes from an instance what its question does not need.
* *Mailbox*: `TotalBytes` 3 with `BodyBytes` 2 admits one long and one brief text and not two long ones, so slots and
  bytes refuse independently; three rows made and three keys let a key be taken again while a release of its
  former row waits; two tokens allow a claim, its release and another. Results and completions are symmetric: the
  specification treats them alike and only safety is checked there.
* *Control*: one revision kept, so that a window can be late enough for the proviso to matter; two tries at the lock let
  one be moved aside and taken; two claims of one level contest it, a higher one overtakes them, and it alone retries
  (`OneRetry`); the user's change has no level. The two claims are symmetric and only safety is checked.
* *Queue*: two units interleave in one queue; one window that stays suffices to recover, and it has no units of its
  own (`Witness`). One request per unit: a later one adds another start.
* *Mounts*: two starts of one session make its waits overlap, a start of another session shares the mount with them;
  three mounts let a second prompt open behind one that was left on the screen, and a third after a removal.

### 3.3 Fairness

* `HeldIsAnswered`: weak fairness of `Expire`. `openDecision` sets a timer for every decision (15 minutes) and a
  decision does not end without clearing it, so a decision that stays open expires. Nothing is assumed of the person,
  the callers or the host.
* `StorageNeverBlocks`: weak fairness of a lane's `Prepare` and strong fairness of its `HandOver`. The wait of `prepare`
  ends by `withinRecoveryBudget` (500 ms) whatever the save does; a coordinator that is busy, or that loses the race to
  the other lane, is offered the result again when it is idle, so that the hand-over is possible again and again.
  No step of the queue has fairness: the property is about storage that never answers.
* `DurableUnlessNoDirectories`, `GoneIsClosed`: calls of the file system return and the delay of a retry ends (weak
  fairness); a write that is tried again and again succeeds at last (strong fairness of `WriteSucceeds` and
  `GapSucceeds`), since the code gives up at nothing else; the recovery runs every two minutes (`SpendHost.ts:186`) and
  the heartbeat of a window that is gone lapses. Turns, beats and the end of a window are not fair. The violation of
  finding 3 is found under the same assumptions.
* `ClockRunsAgain`: weak fairness of `TimesOut`, the timer of `waitAs`. Nobody need answer and no server need connect.

## 4. The proofs

All theorems hold for every value of the constants, that is for any sets of requests, agents, calls, keys and texts and
any bounds, under the named assumptions of the modules (`CallsAssumption`, `BoundsAssumption`, `SizesAssumption`,
`ControlAssumption`, `QueueAssumption`, `MountAssumption`), which only type the constants and are evaluated by TLC in the runs.
Every invariant and every action property that a passing run checks is stated by a theorem; so are both refinements.
TLC also finds each inductive invariant true on the instance of its module (quantifiers over `Nat` bounded).

**`RequestCeilingProofs`.** The invariant is `Inv == TypeOK /\ Line /\ Counting /\ CrossingPerAllowance`, proved
inductive by one lemma per part with one step per action.

* `Line` is `HeldBehindDecision` with what keeps it: who is before a call's predecessor is before the call, and an
  open decision is numbered no higher than those asked. It is needed because `AnswerContinue` picks a prefix of the
  line, and only in a transitive order is the rest of it again a line, of which the next one let through is the first.
* `Counting` strengthens `AllowanceRespected` with the finiteness of what waits and reserves, without which a
  cardinality says nothing, and with the emptiness of a request that has not begun, so that `begin` pins a limit that
  nothing exceeds yet.

From it: `TypeCorrect`, `NobodyIsLost` (`HeldBehindDecision`), `AllowanceHolds`, `CrossingsCounted`, and the action
properties `StoppedForGood`, `ServedInOrder` (`NoOvertaking`) and `OwnAnswerOnly` (`TrancheAnswersItsDecision`).

**`LimitedTurnsProofs`.** `TurnInv` holds the gate's `Inv` and, of the turns, the checked invariants with what they need:

* `Waiting`: whoever stands in a line is the call of its agent's turn or summary. So an interrupt, which withdraws the
  calls of the agents it stops, leaves no orphan in the line, and a turn that begins can ask with a fresh call.
* `Borrowed`: a summary counted for a request takes a reservation of its agent if there is one, and that may be the one
  a turn of the same agent still needs. What is counted beyond the reservations, together with the turns whose
  reservation was lent in this way, is at most the number of summaries. `OnlySummariesOverrun` alone is not inductive:
  it does not say that the turn, when it sends at last, is already accounted for.
* `TurnsNamed` and `Begun`: calls and turns name the same requests, and nothing is pinned before a request begins.

The steps of the turns are steps of the gate or `GivesUp`, a step in which callers give up and reservations are given
back; `GateMoves` says so once, and the gate's invariant and action properties follow for the composed system
(`GateUnderTurns`, `GateRulesUnderTurns`). From `TurnInv`: `LimitedTypeCorrect`, `TurnsKeepTheLimit`
(`OnlySummariesOverrun`), `ReservationsHaveTurns`, `StopStopsTheTurns`, `ForgottenForGood`.

**`ResultDeliveryProofs`.** Ledger, disk and jobs are records, so the module first names what each action does to them
(`DispatchEffect`, ..., `RestoreEffect`) and shows once that every step has one of these effects or is a restart. The
invariants are layers, each proved on top of the one before:

* `Core`: the types; `Shape` of a ledger; the ledger of memory is `Ahead` of that on the disk; `JobsPlaced` (only the
  head of the queue is past its first step); and `Fresh`: the attempt a rework begins is that of no item, no hand-over
  and no other revision. `Fresh` is what makes a revision that is begun again after a crash another result.
  From it: `DeliveryTypeCorrect`, and `HandedOnlyWhileOwed` (`HandedWhileOwed`).
* `Reclaiming` for `ReclaimedIsClosed`: the archive job past its choice, and every archived item, stands on the ledger
  *of the disk*. The choice is made on the ledger of memory; the job saves it before it goes on.
* `HandedOnce` for `RepeatedOnlyUnsaved`: a result that was handed over more often than unsaved hand-overs explain is
  closed, handed over by this very host, or left alone because of a trace (`MemoryKnows`); and the disk alone
  says as much to the next host (`DiskKnows`). Neither part is inductive without the other: a crash turns the disk
  into memory.
* `Texts` for `BodyBehindIndex`: no archive job overtakes a save (`Ordered`), since then the save would index an item whose
  text the archive is about to delete; an archived item has no save to come (`Shelved`); and what the head of the queue has done so
  far (`HeadSaved`, `HeadUnindexed`).
* `Rowed` for `SavedIsKnown`: the property extended to the hosts that are still reading, and to results that recovery
  has read and that the crash or the shutdown has not reached (`SavedKnown`); what this host itself began and indexed has a row (`Valid`); and a
  result with a save to come has a row, unless another attempt's item is in the way of the save (`Seated`).

**`ResultMailboxProofs`.** `IInv` adds to the checked invariants three parts that are not interesting in themselves and
without which none of them is inductive:

* `RowsNumbered`: rows and waiting releases have numbers that were given out, and no two rows the same; so a new row is
  none that a waiting release or an old acknowledgement means.
* `ClaimsPending`: claims are on settled rows that are not delivered, with tokens that were given out; so an
  acknowledgement delivers for the first time.
* `AcksPast`: acknowledged rows were made and, where they still are, are delivered; their tokens are no longer known.

From it: `MTypeCorrect`, `TokensAreHeld` (`ClaimsHeld`), `DeliveredOnce` (`AckedOnce`), `ClosedWhileReleased`,
`OnlyByItsRelease` and `SlotsAreBounded`.

`RowsStayWithinBounds` (`WithinBounds`) is about a sum over the rows, which the model computes with a fold. Induction
over the fold is out of reach, so the proof goes round it. Let every row have as many `Cells` as it takes bytes. The
number of cells of a set of rows satisfies the equation that defines the fold (`CellsSum`). Two solutions of that
equation agree, since of the sets on which they differ one is smallest, and it cannot be (`SmallestSubset`,
`SumsUnique`; a subset without smaller ones exists because strict inclusion is well-founded on a finite set). Hence
`TotalIsCells`, and what a step does to the bytes is a matter of cardinalities (`LightensIs`, `NewRowWeighs`).

`Implements` is the refinement of `MailboxPromise`: each action of the mailbox
maps to a step of the promise or to a stutter (`PromiseStep`), and `SlotsAreBounded` supplies the promise's bound.

**`SpendControlProofs`.** `IInv` adds to the checked invariants what relates a change's memory to the directory:
`ReadInOrder` (what a change read was the control, and still is where no number has been added), `Gaps` (a number at or
below the newest is missing only if it lies `Kept` below it), `PrunesBelow` (who prunes is not above the newest), and
`EntriesPublished`. The central lemma is `PublishKeeps`: a link either makes the newest revision, and then what it is
made to is the control, with every published change in it; or its number had been removed, and then it was late by at
least `Kept`. From it: `STypeCorrect`, `LostOnlyWhenFarBehind`, `LevelsClaimedOnce`, and `NothingWrittenOver`, the
refinement of `SpendRegister`.

**`SpendQueueProofs`.** `NothingWithoutStart` says nothing of the queues, so `BInv` adds that the events of an open window
are in order (each receipt or gap behind its start, or its start durable), that a unit with a request has its start
queued or durable, that a queue holds events of its own window, and that what a recovery plans has its start. From it:
`QTypeCorrect`, `UsageHasStart`.

**`SharedMountsProofs`.** The type invariant carries the argument: an operation is under way exactly while somebody holds
a lease of it, and the leases of starts are those of the starts that wait, so that a start that gives up always leaves
the background's lease behind. From it: `MTypeCorrect`, `ClocksPausedRight`, `StartsCutNothingShort`,
`RemovalDisconnects`.

**Model-checked only.** Liveness (`HeldIsAnswered`, `StorageNeverBlocks`, `DurableUnlessNoDirectories`, `GoneIsClosed`,
`ClockRunsAgain`) is beyond the prover.

## 5. Findings and observations

Four statements of the repository that the code does not keep, each with a run:

1. **A background summary at a reached limit** (`summary_at_limit`). `extension.ts:4825` says that a summary request is
   held at a reached limit like the agent's own requests. The boundary it asks is that of the agent's running turn; when
   the turn it was captured in is over, it is asked of nobody, or of the next request, and is still counted for
   the first one, past its allowance.
2. **A crash in the gap of `prepare`** (`result_repeated`). The comment at `ResultDeliveryHost.ts:242` says that such a
   crash becomes delivery-unknown, not a duplicate. The save is awaited for 500 ms at most and its outcome is not
   looked at; with slower storage a crash repeats the result.
3. **Directories that could not be made** (`directories_remembered`). `SpendCoordinator.ts:529` says that a write that
   fails is retried until it is durable. `SpendStore.ensureDirectories` (line 180) keeps its promise also when it is
   rejected, so a window whose first `mkdir` fails never writes an event, however often it tries.
4. **A removal that could not be saved** (`mount_unconfirmed`). `extension.ts:7308` says that an integration that needs
   approval is mounted behind a one-time confirmation. `removeManagedIntegration` puts the approval back when its save
   fails (line 13459), also where there was none, and the next mount asks nothing.

Things met while modelling that contradict nothing the repository says, but that a maintainer may want to know:

* A coordinator that is stopped just as recovery reads its entry has the saved result passed over until the next
  reload (`skipped` in the model, excluded from `SavedIsKnown`).
* A result that never got onto the index cannot be retired; its mailbox slot stays taken until the next reload. The same
  holds for a disputed row, which `forgetArchived` refuses and nothing else frees.
* A crash that loses a rework leaves an item of the same revision under another attempt; it blocks the save of the new
  one, which is then offered from memory only.
* A hand-over that is prepared and then withdrawn leaves *delivery unknown* on the disk, and after a restart that result
  is not offered again.
* After a clean shutdown began, nothing is current any more, so the saves still queued fail.
* A background summary of one request that asks during a later turn reserves in the later turn's request and is counted
  for its own. A summary that was let through just as that turn ended can leave its reservation there, with no live
  turn to give it back (`ReservationHasTurn` excludes agents with summaries).
* Pruning makes numbers of old control revisions free again. A window that stalled between its reading and its link
  while 10 later revisions were published links under such a number, is told that it won, and its change is in no
  control that anybody reads (`LostOnlyFarBehind` states the proviso).
* At dispose, an event that fails is dropped and the next one is tried: a receipt can get to the disk without its start,
  and the unit is then unknown to the recovery and its usage excluded, not a coverage gap as the comment has it.
* A window that is disposed while an append is in flight, which then fails, waits out a whole retry delay: the delay is
  set up after `dispose` looked for one to cut short.
* Retry of an old notice during a removal mounts a server that is then taken off the registry; adding the server anew
  may join the mount that the removal cancelled, and gets its outcome (`late` in the model).

## 6. What is not modelled

* *Gate*: wording and layout of prompts; the display of totals.
* *Turns*: the work after a turn (recap, review continuations), which `liveTurnsOf` also names; approvals; the CLI
  processes; shutdown, which is checked with the gate alone; the one-slot map `pendingWakeRequest` (messages carry their
  request in the model); the microtasks between an answer and an abort in `awaitRequestBoundary`.
* *Delivery*: the ownership lease between windows, the migration of the older format, the closing of a run, decisions
  that need the person, truncated and conflicting results (the mailbox has the conflicts), the third delivery lane, which
  no tool specification offers, and more than one delegation at a time in the queue.
* *Mailbox*: the bound on a row's metadata, the cutting of long texts (a text is the size of what is kept), receipts of
  the wrong result (a failed archive).
* *Spend accounting*: progress and price adjustments, the arithmetic of totals, periods, the lapse of a claim and the claims a
  window remembers itself, the reading of shards (torn lines, shrinking files), control that is unreadable or of a newer
  version, file systems without hard links, and events that are refused as invalid.
* *Mounts*: calls of tools, quarantine and recovery of a connection, reconfiguration of a mounted server, several
  integrations (they share nothing but the prompt's queue), untrusted workspaces.
* The components marked not modelled in `PROJECT.json`, each with its reason.

## 7. Plan

In order; what is done is marked.

1. `RequestCeiling` (done), `LimitedTurns` over it (done), proofs about the gate (done).
2. `ResultDelivery` (done), `ResultMailbox` with its abstract specification and proofs (done).
3. `SharedFiles`: read versions, check-and-write over serialised paths, task claims. Properties: no write on a version its
   author has not seen; claims exclusive. Abstract specification: a versioned register per path.
4. `SharedMounts`, with its proofs (done).
5. `SpendControl` with its abstract specification, `SpendQueue`, with their proofs (done).
6. `CompactionJobs`: timer, late results, application to a history that has moved on; to be composed with the summaries of
   `LimitedTurns`.
7. `DelegationLife`: the run ledger's delegations, wake queue and `pendingWakeRequest`, composed with `ResultDelivery`.
8. `MessageBus`, `RequestLimitMeter`, `WorkflowRun`, `CliGenerations`, restore of checkpoints.

Theorems worth proving next: the gate implements an abstract budget (grants never exceed tranches bought); the delivery
implements an abstract one of a result that is owed, given and closed; and the invariants of the modules to come.
