# Formal verification of the dsh agent harness

This directory holds TLA+ models of the parts of dsh that decide *what happens
when several things happen at once*: the agent driver, the tool-call scheduler,
the durable write path, the preparation of stored sessions, crash recovery,
background tasks, workflows, continuable subagents and schedules. Every
definition is translated from the TypeScript source; `PROJECT.json` names, for each one,
the file and the lines it stands for. TLC checks small instances of all models.
TLAPS proves every safety property those runs check, and every action property,
for all values of the constants; liveness stays with TLC.

Paths below are relative to `src/packages/` unless they say otherwise.

## 1. The system

dsh is a plugin-based agent harness. It is single threaded: concurrency is the
interleaving of promises, timers, event listeners and callbacks of one event
loop, with a few worker threads and child processes behind asynchronous seams.
A *session* is an append-only log of events; an *agent* is a driver that opens
turns and steps in that log, asks a model, runs the tools the model calls, and
takes input from an inbox; a *persistence backend* follows the log on disk; and
everything else is a plugin that listens to events or wraps a waterfall.

### 1.1 Inventory

| Component | State it keeps | Operations | Hard parts | Correct when |
|---|---|---|---|---|
| Agent driver `core/agent-loop/src/agent.ts` | phase (idle, maintenance, running with abort, wake latch, turn, step) | send, followup, steer, inject, cancel, runMaintenance, whenIdle, kick, turn, step | sends, cancels and disposal at every await; exceptions through nested finally; wake lost or replayed twice | log well formed, idle means balanced, wakes honoured, abort stops work |
| Inbox `core/agent/src/inbox.ts` | two lists, folded from the log | splice, remove, clear, claim | two claimants of one message | each message pending, claimed or discarded once |
| Agent lifecycle `core/agent-loop/src/index.ts` | registry entries, owner fibers | prepare, publish, dispose | disposal racing creation, drivers and owners | nothing runs after detachment, disposal ends |
| Session log `core/session/src/index.ts` | log, derived folds, queue of observers | append, truncate, dispose | reentrant observers, vetoes, truncation under cached folds | contiguous numbers, folds agree with the log |
| Log invariant `core/session/src/invariant.ts` | open turn and step, pending calls | validate, apply | none of its own: it is the contract of the others | – |
| Tool scheduler `core/agent-loop/src/tool-calls.ts` | group, slots, in-flight map, abort and failure flags | executeToolCalls, runGroup | reclassified calls, out-of-order settlement, abort and failure mid-way | barriers hold, pool bounded, results in model order, nothing outlives the step |
| Tool registry `core/tools/src/index.ts` | definitions per scope, cancellation state per call | register, prepare, dispatch, finalize | late cancellation, wrappers that replace the signal | the outcome told is the outcome had |
| Write-behind `session/session-persistence/src/write-behind.ts` | queue, timer, active write, barrier, pause flags | enqueue, flush, cancelAutomaticWait, deadline | deadline, flush, failure and new events in any order | nothing lost, flush is a barrier, work is scheduled |
| Persistence coordinator `…/coordinator.ts` | cursor per id, chains, live controllers | create, append, prepare, truncate, flush, retire, teardown | late initialisation, retirement and teardown during writes, rewinds | storage is a prefix of the log |
| Backends `session-persistence-jsonl`, `-sqlite` | files, tables | appendBatch, deleteFrom, commitRepair, loadStored | torn lines, failed rollback | all or nothing per batch |
| Repair `core/session/src/repair.ts` | – (pure) | interruptedTurnClosers | every prefix a crash can leave | closed log valid, calls answered honestly |
| Checkpoint policy `session/session-checkpoint-policy/src/index.ts` | – | three waterfalls | flush before effect | no effect unknown to the durable log |
| Background tasks `tasks/tasks-local`, `tasks/tool-tasks` | records, waiters, listeners, cleanups | start, wait, read, kill, settle, dispose | notice versus waiter, teardown versus producers | an outcome is final and reaches its owner |
| Session preparations `…/preparations.ts` | one entry per id: loading, ready, committing, reserved; the coordinator's chain | prepare, load, inspect, commit, release, publish, invalidate, evict | every await may find the entry gone, reloaded or taken; another process writes | a reservation is exclusive and exact, nobody waits for an entry that is gone, no stale view is returned |
| Subagents `subagent/subagent/src/continuation.ts` | Activations, ownership, one lock per child, open creations | startContinuable, followup, reportFrom, interrupt, drain, drainDescendants | settlement against delivery, release order, drains against creations | one Activation inside its owner's, nothing accepted is dropped, drains are complete, waits end |
| Schedule `schedule/schedule` | changes in the session's log, their fold, timer, request flag, queue | create, list, delete, drive, dispatch, dispose | follow-up and dispatch are two appends; failures, crashes and clock changes between them | no reminder lost, doubled, early or made up; answered means durable |
| Workflow `workflow/workflow-workerthread` | host: outcome, children, ledger; worker: script, slots; two channels | start, agent(), cancel, dispose | result, cancel, timer and death of the thread cross on their way | one honest outcome, no late or abandoned child, exact slots, bounded stop |
| Domain storage `storage/storage-domain` | cached document, write chain | read, update | overlapping updates | updates serialised |
| Approvals `interaction/*` | pending questions | ask, answer, abort | answer racing abort | one decision |
| Retry, compaction, goals, guards, settings | small per-session state | waterfalls and folds | stale folds | – |
| Model adapters, tools, shells, sandboxes, web, TUI, gateways | connections, processes, views | input and output | – | outside these models |

### 1.2 How they interact

* Input enters through `send` into the **inbox**, which publishes a splice event
  to the **session log** and only then changes its lists. A waking send starts
  the **driver** or leaves it a latch.
* The driver appends boundaries and messages; each append runs listeners
  synchronously: the **invariant** may veto it, the **coordinator** queues it.
* An answer with tool calls hands the step to the **tool scheduler**, which
  appends calls and results and awaits the **tool registry**.
* The **checkpoint policy** holds a request, a step or a tool body back until
  the coordinator has made the log durable.
* After a crash the coordinator loads the durable prefix, **repairs** it and
  hands it to a new driver.
* **Tasks** outlive steps; they answer through `task_output` or by injecting a
  notice into the owner's inbox.
* A stored session is inspected and **prepared** before an agent is created for
  it: the reservation holds the repaired log until the session is published and
  the coordinator's write path takes over.
* A **continuable subagent** is an agent whose parent sends it messages and gets
  reports; its manager resumes it from its stored session when a message comes
  and disposes of it, children first, when it has settled.
* A **workflow** script runs in a worker thread and asks its host for children by
  messages; the host owns the outcome and every child.
* The **schedule** runtime of a root agent waits for the agent to be idle, queues
  a follow-up in a maintenance of it, and records the dispatch in its log.

`PROJECT.json` lists every component with its status, and the hazards of the
code, each at its line and with the properties that watch it.

## 2. The modules

| Module | Models | Lines of code it stands for |
|---|---|---|
| `SessionTrace` | the log invariant: what may be appended next | `core/session/src/invariant.ts` |
| `AgentLoop` | driver, inbox, stop half of the lifecycle | `agent.ts`, `inbox.ts`, `index.ts:459-485` |
| `DurableLog` | abstract: storage is a prefix of the log | contract of `session-persistence` |
| `WritePath` | write-behind controller and the coordinator around one live session | `write-behind.ts`, `coordinator.ts` |
| `ToolCalls` | the tool-call scheduler of one step | `tool-calls.ts` |
| `CrashRecovery` | one session across crashes, repair, resume | `repair.ts`, checkpoint policy, `coordinator.ts`, `agent.ts` |
| `Tasks` | background tasks and who learns of their outcome | `tasks-local`, `tool-tasks`, `core/tools` |
| `Preparations` | one stored session: inspections, loads, resumes, publication, retirement, and other writers | `preparations.ts`, `coordinator.ts` |
| `Workflow` | one run: script and slots, host, channels, children, death of the thread | `workflow-workerthread/src/host.ts`, `runtime.ts`, `session.ts` |
| `Continuation` | the manager of continuable subagents | `subagent/subagent/src/continuation.ts` |
| `Schedule` | the log of schedules, its runtime and its tools | `schedule/schedule/src/` |
| `<module>_proofs` | the theorems about `AgentLoop`, `ToolCalls`, `WritePath`, `Preparations`, `Continuation`, `Workflow`, `Schedule` | – |
| `Outcomes_proofs` | the theorems about `Tasks` and `CrashRecovery`: what is on record of a piece of work that ended or was interrupted | – |
| `MC*` | instances for TLC: symmetry only, no definition is replaced | – |

`AgentLoop`, `ToolCalls` and `CrashRecovery` share `SessionTrace`: the first two
as `Log`, against which their appends are checked, the third as the judge of
whole logs. `WritePath` implements `DurableLog`. `CrashRecovery` prefixes the
names of its specification (`RecoverySpec`, `RecoveryTypeOK`, …), because
`Outcomes_proofs` extends it together with `Tasks`.

### 2.1 Granularity

An action is one *job*: what runs between two awaits. Where an append publishes
to listeners that may call back, the job is split there, and the environment may
act at that point with the one restriction the code imposes (an append inside an
observer is refused as reentrant). So in `AgentLoop` the variable `at` is the
place where the driver is suspended; in `ToolCalls` it is the same for the
scheduler; in `WritePath` the suspended places are `active` (the write), `init`,
`barrier` and `flusher`; in `Preparations` `call[c].at`, in `Continuation`
`delivery[d].phase`, `residency`, `watcher` and `drainAt`, in `Schedule` `drive`
and `call[c].at`. In `Workflow` an action is one task of the host or of the
worker: the script runs while it is `awake`, and each channel keeps its order.

A definition under a comment `Fault:` is not part of the model. It states how a
plausible bug in the code would change the definition below it, and a property
that the fault does not violate would be worthless. `PROJECT.json` names one fault
for each property. A property that is a conjunction of named parts has further
faults in its module, which break the other parts.

### 2.2 Admitted schedules

Some schedules break a promise of the code: sections 5.1 and 5.2 list them.
So that the runs can still say that *nothing else* breaks it, each such schedule
has a name in the constant `Admitted`. A passing run that leaves a name out shows
the property for all other schedules; a run that admits it shows the violation.

| Name | Schedule |
|---|---|
| `settled-send` | waking input in the microtask between the last turn's return and the driver's idle phase, or from a listener of the failure that ends the driver |
| `empty-turn` | waking input, or a restored queue, behind a first step that is proposed empty |
| `observer-dispose` | disposal called by an append observer while input is pending |
| `late-send` | waking input after a cancel and a disposal, before the driver is idle |
| `veto` | a listener refuses `turn/start` or `step/start` (no finding: it checks the error path) |
| `veto-close` | a listener refuses `turn/end` or `step/end`, as `coverage-edges.spec.ts:340-361` and `394-419` do |
| `busy-rewind` | a rewind while a write is queued or active |
| `rewind-to-start` | a rewind that keeps no event |
| `rewind` | (CrashRecovery) a rewind of an idle session to a message |
| `scheduler-failure` | the tool scheduler throws before it answered every call |
| `open-append` | (Preparations) an append to a session that is not live leaves a turn open |

### 2.3 State and actions

**AgentLoop.** `kind`, `reason`, `wakeRequested`, `turn`, `step` are the fields
of `Phase`; `nextTurn` and `nextStep` the inbox; `target`, `decision`, `stepEnd`,
`turnEnds`, `threw` and `stops` are locals of `turn()`; `trace` is the log as the
invariant sees it. `claimed`, `discarded`, `owed`, `ordinary` are history: they
record what happened to each message. `Send`/`SendCancelled` are `send` (the
second with a cancel from the insertion's own observer), `Cancel`, `Dispose`
and `DisposeRefused` are `cancel` and `dispose`; `RefuseTurn … Retire` follow
`kick`, `turn` and `step` from top to bottom, one action per await or append,
with `Catch` and `CloseTurn` as the catch and the finally of `turn()`. Where an
append may be refused there is an action or a disjunct for it: `VetoTurn` and
`VetoStep` at an opening, `LeaveStepOpen` and `LeaveTurnOpen` at a closing. An answer
takes two steps: `CompleteAnswer` looks at the signal for the last time,
`RecordAnswer` appends the answer after the await of `rewriteToolCalls`
(`agent.ts:382`), which looks at nothing; in between the driver is at `answered`.

**WritePath.** `pending`, `timers`, `active`, `barrier`, `expired` and `paused`
are the fields of `SessionWriteBehind`; `state` is the coordinator's
`SessionState`; `init` its `live.init`. `AppendEvent` is `session/event`,
`Deadline` the timer, `BeginWrite`/`Store`/`Acknowledge`/`WriteFails` the life of
one write, `FlushCall`/`Join`/`OpenBarrier`/`FlushFails` a flush,
`Dispose`/`Retire` a retirement, `Teardown`/`Close` the unload of the backend,
`Rewind`/`Follow` `truncateStored` and `Session.truncate`. Initialisation covers
a new session, a session adopted after a hot reload, and a first event that
arrives before `session/created` was seen.

**ToolCalls.** `at` walks through `executeToolCalls` and `runGroup`; `base`,
`last`, `cursor`, `committed` are the group's bounds and cursors; `slot` and
`inFlight` the arrays of `runGroup`. A call's mode is chosen again each time the
code asks the registry.

**CrashRecovery.** `log` is in memory, its first `stored` events are durable.
The agent appends what `turn`, `step` and the scheduler append; `BeginStep`,
`Request` and `RunBody` wait for their checkpoints. `Crash` keeps the durable
prefix. `interruptedTurnClosers` is the pure function of `repair.ts`, `Repair(n)`
writes its first `n` closers (a crash may cut the write), `Resume` builds a new
driver from a log that needs no repair. `ran` remembers tool bodies that were
entered: the world does not forget them.

**Tasks.** `status`, `reported`, `store` are the registry's records, `work` is
the producer behind each, `read` the place of each `task_output` call, `phase`
and `awaited` the disposals. `told` is history: by whom each outcome was told.

**Preparations.** `entry` is the one entry of `SessionPreparations` for the
identity, `gen` its object identity; `state` is the coordinator's
`SessionState`; `chain` the serialised operations, the running one first; `live`
and `retiring` the session store's and the coordinator's maps. A *resumer* calls
`prepare` or `load`, an *inspector* `inspect`: `WaitForRetirement` reads the
retirement, after its await (`waited`) `AnswerFromLive` or `Enter` looks at the
live session only, so that a `Dispose` may fall between; then come `Reserve` the loop of `reserve` after each await, `CommitPrepared`
the commit on the chain, which looks at the owner again (`Unowned`), `Reserved`, `CommitRejected`, `ReadAgain` and
`AbortCommitted` what follows it, `QueueCheck`, `Check` and `AfterCheck` the
revision check of an inspection. `Publish`, `Release` and `SetupAppends` are the
holder's, `LiveAppends … Retire` the life of the published session,
`AppendCall … AppendEnd` a direct append, `ForeignWrite` another process.
`foreign` and `since` are history.

**Workflow.** Host: `cancelled`, `claimed`, `outcome`, `graceArmed`, `death`,
`child`, `ledger` are the fields of `WorkerRun`; `starts` and `ends` count the
events it forwarded. Worker: `script`, `told`, `queue` and `active` are the
script's progress, its cancel reason, `slotWaiters` and `activeSlots`; `call` is
each `agent()` call's place. `up` and `down` are the channels. `ScriptCalls`,
`ScriptParks`, `ScriptSettles` are the script, `WorkerReceives` and
`HostReceives` one message each, `StartFulfils … DisposalEnds` the provider's
promises, `ErrorSeen` and `ThreadExits` the thread's events, `HolderCancels`,
`HolderDisposes`, `DisposeWaits`, `DisposeEnds`, `GraceExpires` the rest of the
handle.

**Continuation.** `residency` is the map of Activations and how far the disposal
of each is, `owned` its `ownedChildren`, `lock` the `ChildLock` with its waiters,
`agent` the registry, by incarnation. `busy`, `accepted` and `parked` are all the
manager sees of an Agent: whether a turn runs, how many messages are accepted and
not yet taken by one, and whether they wait in an idle inbox, after a cancel or
behind a turn that failed, was blocked or was first proposed empty. `Asks … Unpublished` is one delivery from the call to
its acceptance or refusal; `WatcherWakes`, `WatcherLooks`, `WatcherIsPoked` the
loop of `watchSettlement`; `Releases`, `Unregisters`, `Forgotten` the three awaits
of `finishDisposal`; `DrainBegins`, `DrainDisposes`, `DrainEnds` both drains.

**Schedule.** `log` holds the changes and, for each queued follow-up, what it
reminds of; its first `durable` events are on disk. `tails` is the queue of
transactions, `drive` the place of `driveOnce` and of the loop around it, `goal`
what its flush answers for; `requested`, `timer`, `idleWait`, `stopping` and
`faulted` are the runtime's fields. `Start` is the start of a run, which may throw;
`DriveFails`, `DecisionFails`, `IdleWaitFails`, `MaintenanceRejects` and `RunRejects`
are the failures the code contains. `stalled` is history: something failed and no
drive began since. `CallBegins … CallConfirms` is one tool call
between its two barriers. `Tick` moves the wall clock and the timer together,
`ClockIsSet` the clock alone.

## 3. The runs

| Run | What it asks | Instance, states |
|---|---|---|
| `loop_all` | all safety of the driver that holds unless a closing is refused | 3 messages, 2 cancels, 1 maintenance, 2 steps, everything admitted but `veto-close`; 1.0 M |
| `loop_fair` | wakes, detachment and disposal without the schedules that break them; wakes and disposals end | 2 messages, one of them may be restored, 2 cancels, 1 maintenance, 2 steps, `veto` and `veto-close` admitted, fairness; 0.19 M |
| `loop_lost_wake` | expects the violation of section 5.1 | as `loop_all`, `settled-send` admitted |
| `write_all` | refinement of `DurableLog`, nothing lost, barrier, scheduling, end; flushes settle, events become durable | 4 events, 2 failures, 1 quiet rewind, 3 flushers, seeds of 0 and 2, fairness; 56 k |
| `preparations_all` | reservations, waiters, views | 2 resumers, 1 inspector, 2 writes, 1 failure, 1 eviction; 3.4 M |
| `tools_pool` | the scheduler, safety and end of the step | 4 calls, 2 places, fairness; 0.44 M |
| `recovery_safe` | validity, balance, answers, honesty, durability | 2 calls, 2 turns of 2 steps, 2 crashes; 0.19 M |
| `recovery_live` | recovery ends | 2 calls, 1 step, 2 crashes, both rare schedules, fairness; 2.8 k |
| `tasks_all` | outcomes, waits, teardown | 2 tasks, 2 reads, 1 owner, the service; 1.8 M |
| `workflow_all` | outcome, events, children, slots, bounded stop | 2 calls, 1 or 2 slots, fairness; 0.43 M |
| `continuation_all` | Activations, settlement, drains, ends | a child of a child, 3 deliveries, 1 report, 1 interrupt, fairness; 0.22 M |
| `schedule_all` | reminders, answers, wakes, service | 4 instants, longest timer 1, a one-shot and a fixed rate, 2 calls, 1 disturbance, fairness; 0.19 M |

Several properties are conjunctions of named parts, each stated at its own
definition: `TurnsAreHonest` and `WaitsEnd` (AgentLoop), `QueueIsSound`,
`PromisesHold`, `WritesSettle` (WritePath), `BodiesAreContained`, `StepIsOrderly`
(ToolCalls), `RecordIsHonest`, `ResumedLogIsClosed` (CrashRecovery), `NobodyIsLeft` (Tasks),
`ReservationsAreExact` (Preparations), `ReportIsHonest`, `ChildrenAreKept`,
`RunsEnd` (Workflow), `ActivationsNest` (Continuation), `RemindersAreExact`
(Schedule). The type invariant of a module is a part of the first of them.

**Why the bounds are enough.** The driver's decisions look at whether lists are
empty and at one phase: three messages allow one claimed, one pending in each
list, or a pair competing for one turn; two cancels allow a second cause and a
disposal after both. The write path needs a batch in flight, a queue behind it
and one event more, hence four events, and two failures for a retry that fails
again. The pool of two with four calls has a full pool, a call that waits, and
one after a barrier. Two crashes put a second crash into the repair of the
first. Two tasks with two reads allow two waits on one task and a wait on each.
Two resumers make one wait for the other's reservation while the inspector looks
at the same entry; two writes make a source stale once before and once after it
was checked; the failure may hit a read, a commit or a retirement. Two workflow
calls share one slot, so that one waits, or hold one each. Of two nested
subagents the inner one is owned by the outer one's Activation; three deliveries
start both and leave one that races the settlement or the drain. With a longest
timer of one tick a target two ticks away takes two segments; a fixed rate due
since two ticks has a missed occurrence; one disturbance is a failure, a clock
change or a crash, at any place; starts that throw and runs that reject are not
counted.

**Deadlock** is checked for the driver, whose model rests only when idle. The
other models end: sessions are disposed of, a step returns, a run is over, bounds
run out.

**Fairness.** Only steps the code or its runtime takes by itself are fair:
promise reactions, timers, the driver, a woken scheduler. What is *assumed* of
the environment is named with the specification: hooks, model calls and tool
bodies settle (`AgentLoop`, `ToolCalls`: a body that ignores its signal for ever
does block a step, by design), the backend answers with success or failure
(`WritePath`), and somebody resumes a crashed session (`CrashRecovery`).
`Tasks` states the progress of a disposal as an invariant (`DisposalIsServed`, a
part of `NobodyIsLeft`: whatever it waits for was told to stop), which needs no
fairness of producers; `WaitersAreServed` of `Preparations` does the same for
the waits of a reservation. `Workflow` asks of the host its timers and its
event loop and of the provider that it settles the starts and disposals it was
given, and nothing of the script: a stop is bounded whatever the worker does. In
`Continuation` and `Schedule` one weak fairness covers everything that goes on
without being asked for (`Internal`): some promise, timer or turn goes on as long
as one can. That is weaker than fairness of each, and enough. Users, senders,
callers, disposals, rewinds, aborts, clock changes and crashes are never fair.
Weak fairness suffices: none of these steps is disabled and enabled again for
ever by another.

## 4. The theorems

Each theorem holds for every value of the constants that the named assumptions
of its module allow (bounds are naturals; there is at least one step, one slot
or one place in the pool; callers are of disjoint kinds and finitely many, like
the calls of a workflow; a child's chain of parents does not loop; a fixed rate
repeats after the delay it starts with). What a
theorem excludes beyond that is a schedule of section 2.2, by name.

| Module | Theorem | Property | Unless admitted |
|---|---|---|---|
| `AgentLoop` | `TypeCorrect` | `TypeOK` | – |
| | `LogIsWellFormed` | `LogWellFormed`: the driver implements `SessionTrace` | `veto-close` |
| | `IdleIsBalanced` | `IdleLogIsBalanced` | `veto-close` |
| | `LatchStaysFresh` | `LatchIsFresh` | – |
| | `InboxStaysExact` | `InboxIsExact` | – |
| | `AbortStops` | `AbortStopsWork` | – |
| | `DetachedStaysQuiescent` | `DetachedIsQuiescent` | `observer-dispose` |
| | `TurnsStayHonest` | `TurnsAreHonest` | `observer-dispose`, `late-send` |
| | `WakesAreHonoured` | `WakeHonoured` | `settled-send`, `empty-turn` |
| `ToolCalls` | `BodiesStayContained` | `BodiesAreContained` | – |
| | `StepStaysOrderly` | `StepIsOrderly` | – |
| `WritePath` | `QueueStaysSound` | `QueueIsSound` | `busy-rewind` |
| | `PromisesAreKept` | `PromisesHold` | `busy-rewind`, `rewind-to-start` |
| | `WritePathIsDurable` | `StorageFollowsLog`: it implements `DurableLog` | `busy-rewind` |
| | `WorkSurvivesRewinds` | `TypeOK`, `TimerIsSound`, and two parts of the module's own: `ClosedIsQuiet`, `ReleasedIsIdle` | – |
| `CrashRecovery` | `LogStaysValid` | `LogIsValid` | `rewind` |
| | `RecordStaysHonest` | `RecordIsHonest` | `rewind` |
| | `ResumedLogStaysClosed` | `ResumedLogIsClosed` | `rewind`, `scheduler-failure` |
| | `CheckpointsSurviveRewinds` | `RecoveryTypeOK`, `AnsweredRequestsAreDurable` and `RunningIsRecorded`: a body runs behind its durable record | – |
| `Tasks` | `NobodyIsLeftBehind` | `NobodyIsLeft` | – |
| | `OutcomeIsReported` | `OutcomeReachesOwner` | – |
| | `FirstOutcomeWins` | `OutcomeIsFinal` | – |
| `Preparations` | `ReservationsStayExact` | `ReservationsAreExact` | – |
| | `WaitersStayServed` | `WaitersAreServed` | – |
| | `ViewsStayFresh` | `ViewsAreFresh` | – |
| `Workflow` | `ReportsAreHonest` | `ReportIsHonest` | – |
| | `NothingIsLost` | `ChildrenAreKept` | – |
| | `ChildrenComeInTime` | `NoLateChild` | – |
| `Continuation` | `ActivationsStayNested` | `ActivationsNest` | – |
| | `DrainStaysComplete` | `DrainIsComplete` | – |
| | `SettlementNeverDrops` | `SettlementDropsNothing` | – |
| `Schedule` | `AnswersStayDurable` | `AnswersAreDurable` | – |
| | `RemindersStayExact` | `RemindersAreExact` | – |
| | `WakesStayArmed` | `WakeIsArmed` | – |
| | `RemindersStayDue` | `RemindersAreDue` | – |

None of these exclusions can be dropped: with any one of the names admitted alone
TLC finds the property violated on the instance of section 3. The two theorems
about rewinds say how much of the excluded properties is left where a rewind is
not excluded; they name no property of a run, because a run's property is a
conjunction of which only these parts survive.

### 4.1 The arguments

Each proof module opens with its inductive invariant, conjunct by conjunct with
a comment. None of the properties is inductive as it stands. What they lack is in
most modules the same: *what is true follows from where somebody is suspended*.

**AgentLoop.** `TypeOK` is inductive by itself. That an append is legal depends
on what is open, and what is open is implied by the place of the driver:
`Aligned` states that place by place (open turn and step, next numbers, no pending
call). With it each append is a step of `SessionTrace`. A refused closing breaks it,
so the two theorems about the log exclude `veto-close`; all that the others need of
the place is `Placed`: there is one exactly while a driver runs. `LatchInv` adds that the
abort reason is empty while idle and that a disposed activity holds no latch.
`InboxInv` is the conservation of messages, with no ordinary message claimed yet
where a turn starts. `ClosingInv` says that once disposal began the driver is
aborted with nothing to replay, and that what its tools still stage cannot open a
turn; `WakeInv` says, place by place, who still owes a wake.

**ToolCalls.** The log follows from the cursors (`LogIsAligned`), the pool from the
slots and the cursors (`PoolIsAligned`), exclusive calls from the group's bounds
(`ModesAreAligned`). The pool's bound is about cardinalities and needs one lemma
for a call that joins and one for a call that settles.

**WritePath.** `ContentInv`: the disk, the batch and the queue are consecutive
parts of one log, and the cursor tells where they meet; until initialisation the
seed takes the cursor's place. `ControlInv`: who will write, and who is told.
`FileIsKnown`, needed only for the writes that are never refused, is what a rewind
to the start breaks: the coordinator knows whether there is a file. The
refinement maps each step to an accept, a persist, a cut or a stutter of
`DurableLog`.

A rewind in the middle of a write breaks `ContentInv`: disk, batch and queue are
then no parts of one log any more. `WorkInv`, which `WorkSurvivesRewinds` rests on,
speaks of the controller's own work alone – that something is being written
exactly if there is a batch, that a queue no failed write holds back has an armed
timer or a drain that will take it, who asked for a flush and was told – and the rewind, which only takes
events out of the queue, preserves it. What does not survive (TLC has a
counterexample for each) is `NothingLost`, `FlushIsBarrier`, `AppendResumes`, and
that the log of a released session is the stored one.

**CrashRecovery.** The invariant speaks of every *prefix* of the log (`LogInv`),
because a crash may keep any of them: each is one whose bookkeeping by the
invariant companion (`Traces`) and by the repair (`Cursors`) agree, and in which
each call is new, open, answered or dropped with its step (`CallStands`).
`AgentMatchesLog` ties the running agent to it. Each closer of
`interruptedTurnClosers` is shown to fit the log before it, so that a repair that
is cut short leaves a log of the same kind. Both folds of the log are recursive
functions; what the proofs need of them (`TracesRun`, `CursorsRun`) is proved by a
least counterexample, with the lemmas `Least` and `UpTo`, in place of the
induction rule that the prover cannot instantiate.

After a rewind the log need not be one the companion accepts, so `LogInv` is gone,
and with it `EffectsAreRecorded`, `OutcomesAreHonest`, `IdleLogIsBalanced` and
`CallsAreAnswered` (TLC has a counterexample for each). `CutInv`, which
`CheckpointsSurviveRewinds` rests on, asks of the log only that its events are of
the session, and of each call of the open step that its barrier is the place of
its record: steps are opened behind the rewind, so their records cannot be cut.

**Tasks.** A call of `task_output` is about a task that exists, a settled task has
no producer that may still report, and only a kill marks an unsettled task as
reported; a disposal waits for tasks of its own.

**Preparations.** `SettlersAreExact`: at most one resume has the entry, in the
phase that fits its place, and whoever waits does so for that one. An entry may be
made while a disposed session still owns the state; that it is never *held* then
(`HeldIsCold`) follows from the commit's look at the owner, and from nobody
becoming one between a commit and the end of the reservation. What makes it
inductive is the order of the chain: a commit whose entry was dropped is queued
ahead of the read of the next entry (`StaleCommitsAreAhead`), so it can never take
that one.

**Workflow.** `InStep` says for each call what the two sides know of each other:
a request is on its way, being served or answered, and never two of these;
`SentOnce` that no message is in a channel twice. Slots are counted through
cardinalities, hence the finiteness of `Agents`.

**Continuation.** Activations, registered agents and creations keep step
(`AgentsAreResident`); whoever is owned was reached when its owner's disposal
opened (`OwnersAreThere`). The delicate part is the time between the publication
of a child and its first message, in which it is not owned for certain
(`PublishedAreFresh`). `DrainReaches` says that every Activation is one the drain
waits for, lies below one, or is given up by a creation. That owners end is an
argument along `Parent`, which has a least element in every set of children
(`ParentAssumption`).

**Schedule.** The fold of the log is a recursive function, treated as in
`CrashRecovery`. `Durably` says that each prefix folds strictly with reminders
first, `Serial` and `Goals` that whoever is between its two flushes holds the
queue, `WakeInv` that the runtime is woken or knows of a request from its last
decision on, unless it is `stalled`, and `RepeatInv` that an occurrence that was reminded of lies behind
the next one due.

### 4.2 What is only model-checked

* *Liveness*, which the prover cannot reach under fairness: `WaitsEnd`,
  `WritesSettle`, `StepEnds`, `RecoveryEnds`, `ResidencyEnds`, `RunsEnd`,
  `RemindersAreServed`. `NobodyIsLeft` and `WaitersAreServed` state the progress of
  waits as invariants instead, and are proved.
* *The excluded schedules*: what holds of a module when they are admitted is what
  the runs that admit them show (`loop_all`, `recovery_live`).
* That the bounds of a run cover the interesting cases is argued in section 3; the
  theorems do not depend on it.

## 5. Findings

### 5.1 The finding with a run

`loop_lost_wake`: a wake in the last microtask of a driver is lost, because
`turn` has already read that nothing is pending (`agent.ts:325`). TLC finds the
run violated; `PROJECT.json` quotes the comments that say otherwise.

### 5.2 Further divergences

They are in the models, but no run of their own shows them. To see one, add the
name to `Admitted` in the configuration and check the property; without a name,
replace the run's properties by the one named.

* Disposal from an append observer while input is pending: the cancel clears the
  inbox, whose append is refused as reentrant and throws before the abort, so the
  wait is skipped and the agent is detached while its driver runs
  (`agent-loop/src/index.ts:476`; the comment at 459 says "every racing owner
  awaits one quiescence"): `observer-dispose`, `DetachedIsQuiescent`.
* A refused closing leaves an idle agent over an open turn, or a `turn/end` over an
  open step: the refusal is reported and ends the driver (`agent.ts:292-294`,
  `317-324`), and nothing makes up for the missing event. The next `turn/start` or
  `turn/end` is then one that `invariant.ts` refuses: `veto-close`,
  `IdleLogIsBalanced` and `LogWellFormed`.
* The last look at the abort signal comes before the await of `rewriteToolCalls`
  (`agent.ts:353`, `442`, `382`), and the append at 391 looks at nothing: an abort in
  between still records the answer. `AbortStopsWork` therefore allows the one answer
  that was complete when the abort came.
* A resume reads the retirement, awaits it and then asks only whether the session is
  live (`coordinator.ts:698-702`, `734-740`). A session that is disposed of in that
  microtask still owns the state while it retires: the resume makes an entry, and is
  refused by its commit (908) instead of waiting. `ReservationsAreExact` speaks of
  reservations that are held, for which the commit has seen that there is no owner.
* A turn that fails, is blocked or is first proposed empty ends the driver
  (`agent.ts:211-224`, `268-278`, `303-316`). Accepted messages stay in the idle inbox;
  the watcher of a continuable child then rests, as something is accepted
  (`continuation.ts:1135`), and the Activation stays with its owners until another
  waking send or a drain. `ResidencyEnds` therefore excuses an Activation at or above
  a parked message.
* The schedule runtime contains some failures without a wake: a flush that fails, a
  start that throws, a clock it cannot decide by, an idle wait that rejects
  (`runtime.ts:111-116`, `196-201`, `220-248`). Due reminders wait for the next trigger.
  `WakeIsArmed` and `RemindersAreServed` excuse a runtime that is `stalled` or, after a
  rejected run (120-126), `faulted`.
* A rewind does not wait for the write path: rewound events return, or appends
  fail for good (`coordinator.ts:678`; the comment at 542 says "All per-id
  operations are serialized", and `coordinator-contract.ts:245` tests that
  rewound events stay away after a reload): `busy-rewind`, `RewoundStaysGone`.
* A rewind to a message cuts inside a turn that neither the agent nor the
  invariant forgets, and the next `turn/start` is refused
  (`core/session/src/index.ts:586`; 580 says "Invariants preserved"): `rewind`,
  `LogIsValid`.
* A caller that is cancelled after its wait was resolved gets "tool call aborted"
  instead of the outcome whose notice was suppressed for it
  (`core/tools/src/index.ts:1489`; `tasks-local/src/index.ts:194` says "Settlement
  suppressed the notice for this waiter; deliver it."):
  `SuppressedNoticeIsDelivered` of `Tasks`, no name needed.
* An append to a session that is not live adopts its log, repairs an open tail
  and goes on with a cursor that does not count the repair
  (`coordinator.ts:902-917`; 624 says "Honors the append-only and contiguous-seq
  contracts"): `open-append`, `AppendsContinue` of `Preparations`.
* A script may return while a call it did not await has a narrated start; the
  host then emits `workflow/end` before that call's `workflow/agent-end`, which
  the trace checker refuses (`workflow/src/invariant.ts:52`,
  `workflow-workerthread/src/host.ts:458`): `EndClosesEveryPair` of `Workflow`, no
  name needed.
* A turn whose first step is proposed empty ends the driver without looking at
  the inbox, so a wake that came in meanwhile is lost (`agent.ts:275-277`):
  `empty-turn`, `WakeHonoured`.
* After a user's cancel a waking send is latched even though disposal has begun,
  because an abort signal keeps its first reason; teardown then runs one more
  turn. The comment at `agent.ts:177` says "disposal never latches, so teardown
  waits on no model turn": `late-send`, `TurnsAreHonest`.
* After a rewind to the very start the next append takes the path that publishes
  a new file, finds the old one and is refused, now and on every retry
  (`coordinator.ts:683`): `rewind-to-start`, `PromisesHold`.
* Between the failure of a flush barrier's write and the end of the barrier the
  automatic path is paused, and an event that arrives there does not restart it
  (`write-behind.ts:48`), although the README of session-persistence promises
  that "a new event starts a fresh window". `WorkIsScheduled` therefore excuses
  a paused queue.
* A crash between the `step/end` of a failed scheduler and its `turn/end` leaves
  a tail in which the repair no longer sees the unanswered calls
  (`repair.ts:67-69`): `scheduler-failure`, `ResumedLogIsClosed`.

## 6. What is abstracted

* Contents of messages, tool arguments and results, prompts and chunks; a
  message is its identity, a result its code.
* `request/*`, `assistant/chunk` and plugin events of the log: they only need an
  open turn, which `SessionTrace` tracks.
* A model request with its retries is one awaited step that succeeds or throws.
* A backend append is all or nothing, as its contract says; torn lines are left
  to a model of the backend itself.
* `CrashRecovery` takes its closings not to be refused; what a refused one leaves open
  is a tail like that of a crash, but under an agent that goes on.
* In `CrashRecovery` at most the bounds' number of calls exists in a session,
  and writes reach the disk event by event rather than in batches.
* One identity per model: collisions of ids, listings and deletions are left out.
* `Preparations` shows a revision as the length of the log, and lets a repair of a
  tail that another process wrote count as that process's writing. A retirement
  whose flush fails strands the state, as in the code; the properties say so. An
  inspection awaits a retirement only if there is one; the model lets it take the
  microtask that a resume always takes.
* `Workflow` leaves out prompts, results, phases and logs, the realm the script
  runs in, and a child's result behind the worker's death, which goes nowhere.
* `Continuation` has a tree of two levels below a host-owned root. Descriptors,
  providers, quiet reports and observers are left out, and nobody asks for a
  parent in the few promise ticks between its own publication and its first
  message.
* `Schedule` takes an agent to be live until its runtime is stopped, the two
  readings of the clock in one drive to be equal, and a maintenance that rejects to
  have queued nothing. A corrupt log, which makes the
  runtime fault, is left out because `LogIsStrict` shows that the fold never
  throws; so are the seed of a forked session, the user's cancel of a
  maintenance, and calendar arithmetic.

### Not modelled

Model adapters, tool bodies, shells, sandboxes, terminals, the web client and
host, gateways, the plugin API catalogue and its generators are input and output,
rendering or generated tables, which is most of the repository's text: their
state is a projection of the session log, or lives outside the process. The
plugin framework is vendored. Settings, guards, goals, retry, compaction,
approvals and domain storage have small state machines of their own and are the
next candidates.

## 7. Plan

Done, in this order: `SessionTrace` and `AgentLoop` with proofs, `DurableLog` and
`WritePath`, `ToolCalls`, `CrashRecovery`, `Tasks`, `Preparations`, `Workflow`,
`Continuation`, `Schedule`.

Next theorems: the safety of the modules below, as they are written.

Next modules: `AgentLifecycle` – creation, publication, owner unload and disposal
of an agent (`agent-loop/src/index.ts:424-560`), composing `AgentLoop`'s stop
half; `DomainStorage` – overlapping updates; `Approvals`, `Retry`, `Goal`,
`Compaction`; a file backend with torn lines below `WritePath`.

## 8. Running

```
tlc -workers 2 -config AgentLoop_all.cfg MCAgentLoop
tlapm AgentLoop_proofs.tla
```
`tlapm` takes `AgentLoop_proofs`, `ToolCalls_proofs`, `WritePath_proofs`,
`Outcomes_proofs`, `Preparations_proofs`, `Workflow_proofs`, `Continuation_proofs`
and `Schedule_proofs`, and needs a few minutes for each.
Each run of `PROJECT.json` names its module and its configuration; none takes
more than a minute or two on two cores.
