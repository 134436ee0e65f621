----------------------------- MODULE AgentLoop -----------------------------
(***************************************************************************)
(* The default agent driver and its inbox: ReactLoopAgent                  *)
(* (core/agent-loop/src/agent.ts), Inbox (core/agent/src/inbox.ts) and the *)
(* stop half of the agent lifecycle (core/agent-loop/src/index.ts).        *)
(*                                                                         *)
(* The program is single threaded.  A driver step runs to its next "await" *)
(* or to the next session append, whose observers run synchronously and    *)
(* may call back into the agent.  "at" is the place where the driver is    *)
(* suspended.  The environment (the user, plugins, tools, the owner of the *)
(* agent) acts at any of these places, with one restriction: an observer   *)
(* of an append cannot append, so it can neither send nor clear.           *)
(***************************************************************************)
EXTENDS Naturals, Sequences, SequencesExt

CONSTANTS
    Message,         \* identities of the messages anyone may ever send
    Causes,          \* causes of a cancel other than disposal
    MaxSteps,        \* steps of a turn after which the model stops asking for tools
    MaxCancels,      \* number of cancel calls
    MaxMaintenance,  \* number of maintenance tasks
    ClosedTurns,     \* numbers of turns a restored log may already hold
    Restored,        \* messages a restored log may still hold as pending
    Admitted         \* schedules admitted beyond the ordinary ones, see below

\* "settled-send":     waking input in the microtask between the settling of
\*                     a turn and the continuation of the driver
\* "empty-turn":       a first step proposed empty while other work is pending
\* "observer-dispose": disposal from an append observer while work is pending
\* "late-send":        waking input in the abort-to-idle window of a disposal
\* "veto":             a dispatch listener refuses a turn/start or a step/start
\* "veto-close":       a dispatch listener refuses a turn/end or a step/end
Schedules == {"settled-send", "empty-turn", "observer-dispose", "late-send",
              "veto", "veto-close"}

ASSUME BoundsAssumption ==
    /\ MaxSteps \in Nat \ {0}
    /\ MaxCancels \in Nat
    /\ MaxMaintenance \in Nat
    /\ ClosedTurns \subseteq Nat

ASSUME SetsAssumption ==
    /\ "disposed" \notin Causes
    /\ "none" \notin Causes
    /\ Restored \subseteq Message
    /\ Admitted \subseteq Schedules

VARIABLES
    kind,           \* phase.kind
    reason,         \* phase.abort.signal.reason, "none" while not aborted
    wakeRequested,  \* phase.wakeRequested
    turn,           \* phase.turn, phase.lastTurn when idle or in maintenance
    step,           \* phase.step
    nextTurn,       \* inbox.nextTurn
    nextStep,       \* inbox.nextStep
    at,             \* where the driver is suspended
    target,         \* which inbox lists the next proposal claims
    decision,       \* outcome of the last pre-step
    stepEnd,        \* outcome of the last step, "none" when it asks for another
    turnEnds,       \* outcome of the open turn, "none" while undecided
    threw,          \* an exception is propagating through the open turn
    stops,          \* the open turn returned false without looking at the inbox
    trace,          \* the session log, as its invariant companion sees it
    life,           \* the lifecycle owner's progress
    cancels,        \* cancel calls so far
    tasks           \* maintenance tasks so far

\* What happened to the messages: not part of the program.
VARIABLES
    claimed,        \* messages a step boundary consumed
    discarded,      \* messages removed by a cancel or a removal
    owed,           \* pending messages whose waking is still to be honoured
    ordinary        \* next-turn messages the open turn has consumed

driver == <<kind, reason, wakeRequested, turn, step>>
inbox == <<nextTurn, nextStep>>
local == <<at, target, decision, stepEnd, turnEnds, threw, stops>>
progress == <<target, decision, stepEnd, turnEnds, threw, stops>>
counts == <<cancels, tasks>>
history == <<claimed, discarded, owed, ordinary>>
vars == <<driver, inbox, local, trace, life, counts, history>>

Log == INSTANCE SessionTrace WITH Calls <- {}, trace <- trace

Aborted == reason # "none"
Pending == ToSet(nextTurn) \cup ToSet(nextStep)
HasPending == nextTurn # <<>> \/ nextStep # <<>>
Unsent == Message \ (Pending \cup claimed \cup discarded)

\* Places where an append is being published to its observers.
Publishing == {"turn-start", "step-start", "step-end", "turn-end"}
Awaiting == {"kick", "pre-step", "decided", "request", "answered", "tools",
             "step-done", "stopping", "failed", "settled"}
Places == {"off"} \cup Publishing \cup Awaiting

Endings == {"none", "completed", "max-tokens", "blocked", "error", "aborted"}

-----------------------------------------------------------------------------
(* The agent is created over a log whose turns are closed; the inbox is    *)
(* replayed from that log.                                                 *)

RestoredLists == {<<>>} \cup {<<m>> : m \in Restored}

Init ==
    /\ kind = "idle" /\ reason = "none" /\ wakeRequested = FALSE
    /\ turn \in ClosedTurns /\ step = 0
    /\ nextTurn \in RestoredLists /\ nextStep \in RestoredLists
    /\ ToSet(nextTurn) \cap ToSet(nextStep) = {}
    /\ at = "off" /\ target = "next-turn" /\ decision = "none" /\ stepEnd = "none"
    /\ turnEnds = "none" /\ threw = FALSE /\ stops = FALSE
    /\ trace = Log!FreshTrace(turn)
    /\ life = "live"
    /\ cancels = 0 /\ tasks = 0
    /\ claimed = {} /\ discarded = {} /\ owed = {} /\ ordinary = {}

-----------------------------------------------------------------------------
(* wakeDriver: start a driver from idle; behind maintenance or an aborted  *)
(* activity only remember the wake.                                        *)

StartDriver(lastTurn) ==
    /\ kind' = "running" /\ reason' = "none" /\ wakeRequested' = FALSE
    /\ turn' = lastTurn /\ step' = 0
    /\ at' = "kick"

\* Fault: only maintenance remembers a wake.
LatchesOnlyMaintenance(k, r, afterAbort) == r # "disposed" /\ k = "maintenance"

Latches(k, r, afterAbort) == r # "disposed" /\ (k = "maintenance" \/ afterAbort)

WakeDriver(r, latch, afterAbort) ==
    IF kind = "idle"
    THEN StartDriver(turn)
    ELSE /\ wakeRequested' = (latch \/ Latches(kind, r, afterAbort))
         /\ reason' = r
         /\ UNCHANGED <<kind, turn, step, at>>

\* Waking input cannot join an aborted activity.
WakesAfterAbort(wakeup) == wakeup /\ kind # "idle" /\ Aborted

Insert(m, list) ==
    IF list = "next-turn"
    THEN nextTurn' = Append(nextTurn, m) /\ UNCHANGED nextStep
    ELSE nextStep' = Append(nextStep, m) /\ UNCHANGED nextTurn

MaySend(wakeup) ==
    /\ at \notin Publishing
    /\ \/ life = "live"
       \/ "late-send" \in Admitted /\ life = "disposing" /\ kind = "running" /\ Aborted
    /\ at = "settled" /\ ~Aborted /\ wakeup => "settled-send" \in Admitted
    /\ at = "decided" /\ decision = "empty" /\ step = 0 /\ wakeup
           => "empty-turn" \in Admitted

\* send(message, target, wakeup).  The waking of a message is owed unless the
\* agent is being disposed of.
Send(m, list, wakeup) ==
    LET afterAbort == WakesAfterAbort(wakeup)
    IN  /\ MaySend(wakeup)
        /\ Insert(m, IF afterAbort THEN "next-turn" ELSE list)
        /\ IF wakeup
           THEN WakeDriver(reason, wakeRequested, afterAbort)
           ELSE UNCHANGED <<driver, at>>
        /\ owed' = IF wakeup /\ life = "live" THEN owed \cup {m} ELSE owed
        /\ UNCHANGED <<progress, trace, life, counts, claimed, discarded, ordinary>>

LatchAfterCancel(keep) == wakeRequested /\ keep

FirstCause(r, c) == IF r = "none" THEN c ELSE r

\* The same call when an observer of the insertion cancels the agent: the
\* message is pending, the driver is not awake yet.
SendCancelled(m, list, wakeup, cause, keep) ==
    LET afterAbort == WakesAfterAbort(wakeup)
        abortedBy == IF kind = "idle" THEN reason ELSE FirstCause(reason, cause)
    IN  /\ MaySend(wakeup)
        /\ life = "live"
        /\ cancels < MaxCancels
        /\ cancels' = cancels + 1
        /\ IF keep
           THEN /\ Insert(m, IF afterAbort THEN "next-turn" ELSE list)
                /\ UNCHANGED discarded
           ELSE /\ nextTurn' = <<>> /\ nextStep' = <<>>
                /\ discarded' = discarded \cup Pending \cup {m}
        /\ IF wakeup
           THEN WakeDriver(abortedBy, LatchAfterCancel(keep), afterAbort)
           ELSE /\ reason' = abortedBy
                /\ wakeRequested' = LatchAfterCancel(keep)
                /\ UNCHANGED <<kind, turn, step, at>>
        /\ owed' = CASE ~keep -> {}
                     [] keep /\ kind = "running" /\ ~Aborted -> {}
                     [] OTHER -> IF wakeup THEN owed \cup {m} ELSE owed
        /\ UNCHANGED <<progress, trace, life, tasks, claimed, ordinary>>

-----------------------------------------------------------------------------
(* cancel(cause, { keepInbox }).  Clearing a non-empty inbox appends, which *)
(* throws inside an append observer before anything is cancelled.          *)

MayClear == at \notin Publishing \/ ~HasPending

Abort(cause, keep) ==
    /\ keep \/ MayClear
    /\ reason' = IF kind = "idle" THEN reason ELSE FirstCause(reason, cause)
    /\ wakeRequested' = LatchAfterCancel(keep)
    /\ IF keep
       THEN UNCHANGED <<inbox, discarded>>
       ELSE /\ nextTurn' = <<>> /\ nextStep' = <<>>
            /\ discarded' = discarded \cup Pending
    \* Input queued before the cancel of a live driver stays parked.
    /\ owed' = IF keep /\ (kind # "running" \/ Aborted) THEN owed ELSE {}

Cancel(cause, keep) ==
    /\ life = "live"
    /\ cancels < MaxCancels
    /\ cancels' = cancels + 1
    /\ Abort(cause, keep)
    /\ UNCHANGED <<kind, turn, step, local, trace, life, tasks, claimed, ordinary>>

\* inbox.remove(messageId): locate the message, splice it out.
RemovePending(m) ==
    /\ at \notin Publishing
    /\ \/ \E i \in DOMAIN nextTurn :
            /\ nextTurn[i] = m
            /\ nextTurn' = RemoveAt(nextTurn, i) /\ UNCHANGED nextStep
       \/ \E i \in DOMAIN nextStep :
            /\ nextStep[i] = m
            /\ nextStep' = RemoveAt(nextStep, i) /\ UNCHANGED nextTurn
    /\ discarded' = discarded \cup {m}
    /\ owed' = owed \ {m}
    /\ UNCHANGED <<driver, local, trace, life, counts, claimed, ordinary>>

-----------------------------------------------------------------------------
(* runMaintenance(task)                                                    *)

StartMaintenance ==
    /\ kind = "idle" /\ life = "live"
    /\ tasks < MaxMaintenance
    /\ tasks' = tasks + 1
    /\ kind' = "maintenance" /\ reason' = "none" /\ wakeRequested' = FALSE
    /\ UNCHANGED <<turn, step, inbox, local, trace, life, cancels, history>>

\* Fault: the activity ends without replaying a remembered wake.
NeverReplays == FALSE

Replays == wakeRequested /\ HasPending

\* The activity gives the agent back; a remembered wake is replayed if its
\* message is still there.
Settle ==
    IF Replays
    THEN StartDriver(turn)
    ELSE /\ kind' = "idle" /\ reason' = "none" /\ wakeRequested' = FALSE
         /\ step' = 0 /\ at' = "off"
         /\ UNCHANGED turn

EndMaintenance ==
    /\ kind = "maintenance"
    /\ Settle
    /\ UNCHANGED <<inbox, progress, trace, life, counts, history>>

-----------------------------------------------------------------------------
(* dispose(): a cancel with cause "disposed", then quiescence, then the    *)
(* agent and its session leave the registries.                             *)

Dispose ==
    /\ life = "live"
    /\ life' = "disposing"
    /\ Abort("disposed", FALSE)
    /\ UNCHANGED <<kind, turn, step, local, trace, counts, claimed, ordinary>>

\* The cancel throws in an append observer: its "finally" still detaches.
DisposeRefused ==
    /\ "observer-dispose" \in Admitted
    /\ life = "live" /\ ~MayClear
    /\ life' = "detached"
    /\ UNCHANGED <<driver, inbox, local, trace, counts, history>>

\* Fault: the driver is not awaited.
NotAwaited == TRUE

\* Fault: disposal waits for an empty inbox.
Drained == kind = "idle" /\ ~HasPending

\* whenIdle() has resolved.
Quiescent == kind = "idle"

Detach ==
    /\ life = "disposing" /\ Quiescent
    /\ life' = "detached"
    /\ UNCHANGED <<driver, inbox, local, trace, counts, history>>

-----------------------------------------------------------------------------
(* The turn.                                                               *)

\* Append turn/end.  A rejected or failed turn parks what is still pending.
RecordEnd(ending, throws) ==
    /\ at' = "turn-end" /\ threw' = throws
    /\ trace' = Log!AfterTurnEnd(trace, turn)
    /\ owed' = IF ending \in {"blocked", "error"} THEN {} ELSE owed

\* A dispatch listener refuses the turn/end: the failure is reported and ends
\* the driver, the turn stays open in the log and pending input is parked.
LeaveTurnOpen ==
    /\ "veto-close" \in Admitted
    /\ at' = "settled" /\ threw' = TRUE
    /\ owed' = IF Aborted THEN owed ELSE {}
    /\ UNCHANGED trace

CloseTurn(ending, throws, stop) ==
    /\ turnEnds' = ending /\ stops' = stop
    /\ RecordEnd(ending, throws) \/ LeaveTurnOpen

\* An exception reaches the catch of turn(): cancellation closes the turn at
\* once, any other failure is first reported to the agent/error listeners.
Catch ==
    IF Aborted
    THEN CloseTurn("aborted", TRUE, FALSE)
    ELSE /\ at' = "failed" /\ turnEnds' = "error" /\ threw' = TRUE
         /\ UNCHANGED <<stops, trace, owed>>

\* The signal is aborted before the turn opens.
RefuseTurn ==
    /\ at = "kick" /\ Aborted
    /\ at' = "settled"
    /\ UNCHANGED <<driver, inbox, progress, trace, life, counts, history>>

\* Fault: the turn opens whatever the signal says.
BeginsAnyway == TRUE

MayBegin == ~Aborted

BeginTurn ==
    /\ at = "kick" /\ MayBegin
    /\ at' = "turn-start"
    /\ turn' = turn + 1
    /\ trace' = Log!AfterTurnStart(trace, turn + 1)
    /\ turnEnds' = "none" /\ threw' = FALSE /\ stops' = FALSE
    /\ target' = "next-turn" /\ decision' = "none" /\ stepEnd' = "none"
    /\ ordinary' = {}
    /\ UNCHANGED <<kind, reason, wakeRequested, step, inbox, life, counts,
                   claimed, discarded, owed>>

\* A dispatch listener vetoes the turn/start append: the driver gives up.
VetoTurn ==
    /\ "veto" \in Admitted
    /\ at = "kick" /\ ~Aborted
    /\ at' = "settled"
    /\ owed' = {}
    /\ UNCHANGED <<driver, inbox, progress, trace, life, counts, claimed,
                   discarded, ordinary>>

\* inbox.claim(target): all next-step input and, at a turn boundary, one
\* queued prompt.
Batch(list) ==
    ToSet(nextStep) \cup
    (IF list = "next-turn" /\ nextTurn # <<>> THEN {Head(nextTurn)} ELSE {})

\* Fault: the claimed prompt stays queued.
StillQueued(list) == nextTurn

LeftQueued(list) ==
    IF list = "next-turn" /\ nextTurn # <<>> THEN Tail(nextTurn) ELSE nextTurn

Claim(list) ==
    /\ nextStep' = <<>>
    /\ nextTurn' = LeftQueued(list)
    /\ claimed' = claimed \cup Batch(list)
    /\ owed' = owed \ Batch(list)
    /\ ordinary' = ordinary \cup (Batch(list) \cap ToSet(nextTurn))

Propose(list) ==
    /\ at' = "pre-step"
    /\ target' = list
    /\ Claim(list)
    /\ UNCHANGED <<turnEnds, threw, stops, trace>>

OpenTurn ==
    /\ at = "turn-start"
    /\ IF Aborted
       THEN Catch /\ UNCHANGED <<inbox, target, claimed, ordinary>>
       ELSE Propose(target)
    /\ UNCHANGED <<driver, decision, stepEnd, life, counts, discarded>>

\* preStep(): assembling the prompt or a listener fails, or the signal is
\* aborted when they are done.
PreStepFails ==
    /\ at = "pre-step"
    /\ Catch
    /\ UNCHANGED <<driver, inbox, target, decision, stepEnd, life, counts,
                   claimed, discarded, ordinary>>

\* The listeners reject the step, or return the messages that enter it.
PreStepDecides(d) ==
    /\ at = "pre-step" /\ ~Aborted
    /\ d = "empty" /\ step = 0 /\ HasPending => "empty-turn" \in Admitted
    /\ decision' = d
    /\ at' = "decided"
    /\ UNCHANGED <<driver, inbox, target, stepEnd, turnEnds, threw, stops,
                   trace, life, counts, history>>

\* A turn that already has its outcome, or that has run no step, opens none
\* for an empty batch.
Skips == decision = "empty" /\ (turnEnds # "none" \/ step = 0)

RejectStep ==
    /\ at = "decided" /\ decision = "reject"
    /\ CloseTurn("blocked", FALSE, TRUE)
    /\ UNCHANGED <<driver, inbox, target, decision, stepEnd, life, counts,
                   claimed, discarded, ordinary>>

SkipStep ==
    /\ at = "decided" /\ Skips
    /\ IF turnEnds # "none"
       THEN CloseTurn(turnEnds, FALSE, FALSE)
       ELSE CloseTurn("completed", FALSE, TRUE)
    /\ UNCHANGED <<driver, inbox, target, decision, stepEnd, life, counts,
                   claimed, discarded, ordinary>>

\* Fault: the signal is not checked again after the listeners decided.
OpensUnchecked == TRUE

MayOpen == ~Aborted

EnterStep ==
    /\ at = "decided" /\ decision # "reject" /\ ~Skips
    /\ IF ~MayOpen
       THEN Catch /\ UNCHANGED step
       ELSE /\ at' = "step-start"
            /\ step' = step + 1
            /\ trace' = Log!AfterStepStart(trace, turn, step + 1)
            /\ UNCHANGED <<turnEnds, threw, stops, owed>>
    /\ UNCHANGED <<kind, reason, wakeRequested, turn, inbox, target, decision,
                   stepEnd, life, counts, claimed, discarded, ordinary>>

\* A dispatch listener refuses the step/start append.
VetoStep ==
    /\ "veto" \in Admitted
    /\ at = "decided" /\ decision # "reject" /\ ~Skips /\ MayOpen
    /\ Catch
    /\ UNCHANGED <<driver, inbox, target, decision, stepEnd, life, counts,
                   claimed, discarded, ordinary>>

-----------------------------------------------------------------------------
(* The step.                                                               *)

\* The body of the step throws: the request, the rewriting of its calls, the
\* append of the answer or a tool.  The "finally" of the step is still to run.
StepThrows ==
    /\ \/ at = "step-start" /\ Aborted
       \/ at \in {"request", "answered", "tools"}
    /\ at' = "step-done" /\ threw' = TRUE
    /\ UNCHANGED <<driver, inbox, target, decision, stepEnd, turnEnds, stops,
                   trace, life, counts, history>>

\* The entered messages are appended and the request is built and sent.
Request ==
    /\ at = "step-start" /\ ~Aborted
    /\ at' = "request"
    /\ UNCHANGED <<driver, inbox, progress, trace, life, counts, history>>

\* The answer is complete and the signal is checked for the last time: after
\* the stream, or after the listeners that rewrite its calls.  An answer cut
\* off by the token ceiling has no calls to rewrite and is appended at once.
CompleteAnswer(finish) ==
    /\ at = "request" /\ ~Aborted
    /\ IF finish = "max-tokens"
       THEN at' = "step-done" /\ trace' = Log!AfterMessage(trace, turn, step)
       ELSE at' = "answered" /\ UNCHANGED trace
    /\ stepEnd' = IF finish = "calls" THEN "none" ELSE finish
    /\ UNCHANGED <<driver, inbox, target, decision, turnEnds, threw, stops,
                   life, counts, history>>

\* The rewriting was awaited: the answer is appended whatever the signal says
\* by now.
RecordAnswer ==
    /\ at = "answered"
    /\ trace' = Log!AfterMessage(trace, turn, step)
    /\ at' = IF stepEnd = "none" THEN "tools" ELSE "step-done"
    /\ UNCHANGED <<driver, inbox, target, decision, stepEnd, turnEnds, threw, stops,
                   life, counts, history>>

\* A committed tool result stages its context for the next step.
AcceptContext(m) ==
    /\ at = "tools"
    /\ Insert(m, "next-step")
    /\ UNCHANGED <<driver, local, trace, life, counts, history>>

\* Every call has its result.  An abort is noticed only after the step.
ToolsDone(concluded) ==
    /\ at = "tools"
    /\ concluded \/ step < MaxSteps
    /\ at' = "step-done"
    /\ stepEnd' = IF concluded THEN "completed" ELSE "none"
    /\ UNCHANGED <<driver, inbox, target, decision, turnEnds, threw, stops,
                   trace, life, counts, history>>

\* Fault: a later completed step replaces the outcome.
LatestOutcome == stepEnd

\* Fault: the pre-step decision is taken for the outcome.
DecisionAsOutcome == IF turnEnds = "max-tokens" THEN turnEnds ELSE decision

\* max-tokens is sticky.
Outcome == IF turnEnds = "max-tokens" THEN turnEnds ELSE stepEnd

\* Fault: an exception leaves the step open.
StepLeftOpen == IF threw THEN trace ELSE Log!AfterStepEnd(trace, turn, step)

StepClosed == Log!AfterStepEnd(trace, turn, step)

CloseStep ==
    /\ at = "step-done"
    /\ at' = "step-end"
    /\ turnEnds' = IF threw THEN turnEnds ELSE Outcome
    /\ stepEnd' = "none"
    /\ trace' = StepClosed
    /\ UNCHANGED <<driver, inbox, target, decision, threw, stops, life, counts,
                   history>>

\* A dispatch listener refuses the step/end: it throws into the catch of the
\* turn, and the step stays open in the log.
LeaveStepOpen ==
    /\ "veto-close" \in Admitted
    /\ at = "step-done"
    /\ Catch
    /\ stepEnd' = "none"
    /\ UNCHANGED <<driver, inbox, target, decision, life, counts, claimed,
                   discarded, ordinary>>

Decided == turnEnds # "none" /\ nextStep = <<>>

LaterList == "next-step"

AfterStep ==
    /\ at = "step-end"
    /\ IF threw \/ Aborted
       THEN Catch /\ UNCHANGED <<inbox, target, claimed, ordinary>>
       ELSE IF Decided
       THEN /\ at' = "stopping"
            /\ UNCHANGED <<inbox, target, turnEnds, threw, stops, trace,
                           claimed, owed, ordinary>>
       ELSE Propose(LaterList)
    /\ UNCHANGED <<driver, decision, stepEnd, life, counts, discarded>>

\* An agent/turn-stopping listener fails, or the signal was aborted meanwhile.
StoppingFails ==
    /\ at = "stopping"
    /\ Catch
    /\ UNCHANGED <<driver, inbox, target, decision, stepEnd, life, counts,
                   claimed, discarded, ordinary>>

Stop ==
    /\ at = "stopping" /\ ~Aborted
    /\ IF Decided
       THEN /\ CloseTurn(turnEnds, FALSE, FALSE)
            /\ UNCHANGED <<inbox, target, claimed, ordinary>>
       ELSE Propose(LaterList)
    /\ UNCHANGED <<driver, decision, stepEnd, life, counts, discarded>>

\* The agent/error listeners have run.
CloseFailedTurn ==
    /\ at = "failed"
    /\ CloseTurn("error", TRUE, FALSE)
    /\ UNCHANGED <<driver, inbox, target, decision, stepEnd, life, counts,
                   claimed, discarded, ordinary>>

-----------------------------------------------------------------------------
(* The end of turn() and the driver boundary, kick().                      *)

\* Fault: the latch of the closed turn survives the fresh controller.
StaleLatch == wakeRequested

FreshLatch == FALSE

NextTurn ==
    /\ at = "turn-end" /\ ~threw /\ ~stops /\ HasPending
    /\ at' = "kick"
    /\ reason' = "none" /\ wakeRequested' = FreshLatch /\ step' = 0
    /\ UNCHANGED <<kind, turn, inbox, progress, trace, life, counts, history>>

LastTurn ==
    /\ at = "turn-end" /\ (threw \/ stops \/ ~HasPending)
    /\ at' = "settled"
    /\ UNCHANGED <<driver, inbox, progress, trace, life, counts, history>>

\* The status listeners that see the agent idle act before or after this.
Retire ==
    /\ at = "settled"
    /\ Settle
    /\ target' = "next-turn" /\ decision' = "none" /\ stepEnd' = "none"
    /\ turnEnds' = "none" /\ threw' = FALSE /\ stops' = FALSE
    /\ UNCHANGED <<inbox, trace, life, counts, history>>

-----------------------------------------------------------------------------

Driver ==
    \/ RefuseTurn \/ BeginTurn \/ VetoTurn \/ OpenTurn
    \/ PreStepFails \/ \E d \in {"reject", "empty", "enter"} : PreStepDecides(d)
    \/ RejectStep \/ SkipStep \/ EnterStep \/ VetoStep
    \/ StepThrows \/ Request \/ RecordAnswer \/ CloseStep \/ LeaveStepOpen
    \/ AfterStep
    \/ \E f \in {"completed", "max-tokens", "calls"} : CompleteAnswer(f)
    \/ \E concluded \in BOOLEAN : ToolsDone(concluded)
    \/ StoppingFails \/ Stop \/ CloseFailedTurn
    \/ NextTurn \/ LastTurn \/ Retire

Environment ==
    \/ \E m \in Unsent :
         \/ \E list \in {"next-turn", "next-step"}, wakeup \in BOOLEAN :
              \/ Send(m, list, wakeup)
              \/ \E c \in Causes, keep \in BOOLEAN :
                   SendCancelled(m, list, wakeup, c, keep)
         \/ AcceptContext(m)
    \/ \E m \in Pending : RemovePending(m)
    \/ \E c \in Causes, keep \in BOOLEAN : Cancel(c, keep)
    \/ StartMaintenance
    \/ Dispose \/ DisposeRefused

\* An idle agent waits for input.
Rest == kind = "idle" /\ UNCHANGED vars

Next == Driver \/ Environment \/ EndMaintenance \/ Detach \/ Rest

Spec == Init /\ [][Next]_vars

\* Every await of the driver settles: hooks, model calls and tools return or
\* honour the abort signal.  So do maintenance tasks.
FairSpec ==
    /\ Spec
    /\ WF_vars(Driver) /\ WF_vars(EndMaintenance) /\ WF_vars(Detach)

-----------------------------------------------------------------------------
(* Properties.                                                             *)

\* Every variable has its type: the phase, the inbox lists, the driver's local
\* state between two awaits, and the bookkeeping of the log.
TypeOK ==
    /\ kind \in {"idle", "maintenance", "running"}
    /\ reason \in {"none", "disposed"} \cup Causes
    /\ wakeRequested \in BOOLEAN
    /\ turn \in Nat /\ step \in Nat
    /\ nextTurn \in Seq(Message) /\ nextStep \in Seq(Message)
    /\ at \in Places
    /\ target \in {"next-turn", "next-step"}
    /\ decision \in {"none", "reject", "empty", "enter"}
    /\ stepEnd \in {"none", "completed", "max-tokens"}
    /\ turnEnds \in Endings
    /\ threw \in BOOLEAN /\ stops \in BOOLEAN
    /\ trace \in Log!Trace
    /\ life \in {"live", "disposing", "detached"}
    /\ cancels \in Nat /\ tasks \in Nat
    /\ claimed \subseteq Message /\ discarded \subseteq Message
    /\ owed \subseteq Message /\ ordinary \subseteq Message

\* Whatever the interleaving of sends, cancels, failures and disposal, the
\* driver appends only events the log's invariant companion accepts, as long as
\* no closing event is refused (without "veto-close"): the driver does not look
\* back, so its next turn/end or turn/start lies over what stayed open.
LogWellFormed == Log!Spec

\* The agent has a driver exactly while it is running.
Placed == at = "off" <=> kind # "running"

\* Where the driver is suspended decides what is open in the log.  With the
\* type invariant this is inductive unless a closing event may be refused;
\* IdleLogIsBalanced and LogWellFormed follow from it.
InStep == {"step-start", "request", "answered", "tools", "step-done"}
InTurn == InStep \cup {"turn-start", "pre-step", "decided", "step-end",
                      "stopping", "failed"}

Aligned ==
    /\ Placed
    /\ trace.openTurn = IF at \in InTurn THEN turn ELSE 0
    /\ trace.openStep = IF at \in InStep THEN step ELSE 0
    /\ trace.nextTurn = IF at \in InTurn THEN turn ELSE turn + 1
    /\ at \in InTurn =>
         /\ turn # 0
         /\ trace.nextStep = IF at \in InStep THEN step ELSE step + 1
    /\ at \in InStep => step # 0
    /\ at = "kick" => step = 0
    /\ trace.pending = {}

\* A message is pending, claimed or discarded exactly once: nothing is lost or
\* handled twice by the two lists, the clears and the claims.
MessagesConserved ==
    /\ IsInjective(nextTurn) /\ IsInjective(nextStep)
    /\ ToSet(nextTurn) \cap ToSet(nextStep) = {}
    /\ Pending \cap claimed = {} /\ Pending \cap discarded = {}
    /\ claimed \cap discarded = {}

\* A wake is remembered only behind maintenance or an aborted activity, and
\* never behind one that disposal aborted (wakeDriver, turn).
LatchIsFresh ==
    wakeRequested => kind = "maintenance" \/ (Aborted /\ reason # "disposed")

\* Turns are closed whenever no driver owns the agent (whenIdle, dispose), as
\* long as no closing event is refused (without "veto-close").
IdleLogIsBalanced ==
    kind # "running" => trace.openTurn = 0 /\ trace.openStep = 0

\* A followup is the sole ordinary message of its turn.
OneOrdinaryPerTurn == \A m, n \in ordinary : m = n

\* Two claimants, two lists and the clears never disagree about a message, and
\* a turn that steering or injected context joins still takes one prompt.
InboxIsExact == MessagesConserved /\ OneOrdinaryPerTurn

\* An idle agent holds no message whose waking was promised: it was claimed,
\* discarded, or parked by a rejection, a failure or a cancel that keeps it.
WakeHonoured == kind = "idle" => owed = {}

\* Once its activity is aborted the driver opens neither a turn nor a step,
\* sends no request and completes no answer.  All it may still append, besides
\* the closing of what is open, is the one answer that was complete when the
\* abort arrived while the rewriting of its calls was being awaited.
AbortStopsWork ==
    [][Aborted =>
         /\ at' \in {"turn-start", "step-start", "request", "answered"} => at' = at
         /\ \/ UNCHANGED trace
            \/ trace'.last.type \in {"turn/end", "step/end"}
            \/ trace'.last.type = "assistant/message" /\ at = "answered"]_vars

\* A step that hit the token ceiling is never reported as a completed turn.
MaxTokensSticky ==
    [][turnEnds = "max-tokens" /\ at # "kick" => turnEnds' # "completed"]_vars

\* The registries drop an agent only when no driver runs it.
DetachedIsQuiescent == life = "detached" => kind # "running"

\* Once disposal begins no further turn opens.
DisposalOpensNoTurn == [][life # "live" => trace'.openTurn \in {0, trace.openTurn}]_vars

\* A promised waking is eventually honoured or withdrawn.
WakeLeadsOn == \A m \in Message : m \in owed ~> m \notin owed

\* Disposal completes.
DisposalCompletes == life = "disposing" ~> life = "detached"

\* What a turn was and that disposal began are never forgotten: a turn that hit
\* the token ceiling is not reported as completed, and disposal opens no turn.
TurnsAreHonest == MaxTokensSticky /\ DisposalOpensNoTurn

\* Nobody waits for the driver for ever: neither the sender of a waking message
\* nor whoever disposes of the agent.
WaitsEnd == WakeLeadsOn /\ DisposalCompletes
=============================================================================
