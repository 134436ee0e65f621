---------------------------- MODULE CrashRecovery ----------------------------
(***************************************************************************)
(* One persisted session across crashes: the events the agent loop appends *)
(* (core/agent-loop), the checkpoints that hold back a model request or a  *)
(* tool body until the log behind it is durable (session-checkpoint-       *)
(* policy), the crash that loses the rest, and the repair that closes an   *)
(* interrupted log before it is resumed (core/session/src/repair.ts).      *)
(*                                                                         *)
(* "log" is the log in memory, whose first "stored" events are durable;    *)
(* while the program is down the two are the same.  "ran" records the tool *)
(* bodies that were entered: their effects on the world survive a crash.   *)
(* How the write path stores events and how the scheduler overlaps calls   *)
(* are the subjects of WritePath and ToolCalls.                            *)
(***************************************************************************)
EXTENDS Naturals, Sequences, FiniteSets, SequencesExt

CONSTANTS
    MaxCalls,      \* bound: tool calls of the session
    MaxTurns,      \* bound: turns of the session
    MaxSteps,      \* bound: steps of a turn
    MaxCrashes,    \* bound: crashes
    Admitted       \* schedules beyond the ordinary ones: "scheduler-failure", "rewind"

ASSUME BoundsAreNaturals ==
    {MaxCalls, MaxTurns, MaxSteps, MaxCrashes} \subseteq Nat

Calls == 1 .. MaxCalls

VARIABLES
    log,       \* the session's events
    stored,    \* how many of them are durable
    agent,     \* where the agent is: at, turn, step, aborted
    call,      \* the state of each call of the open step
    barrier,   \* the log length each call's checkpoint waits for
    ran,       \* calls whose tool body was entered
    crashes

recoveryVars == <<log, stored, agent, call, barrier, ran, crashes>>

-----------------------------------------------------------------------------
(* Events, and what the invariant companion makes of them.                 *)

None == 0

Event(type, turn, step, calls, code) ==
    [type |-> type, turn |-> turn, step |-> step, calls |-> calls, code |-> code]

Boundary(type, turn, step) == Event(type, turn, step, {}, "none")

Companion(trace) == INSTANCE SessionTrace

\* The one call of a tool/call or tool/result event.
Named(e) == CHOOSE c \in e.calls : TRUE

\* invariant.ts: what a committed event does to the bookkeeping ...
Seen(tr, e) ==
    CASE e.type = "turn/start" -> Companion(tr)!AfterTurnStart(tr, e.turn)
      [] e.type = "turn/end" -> Companion(tr)!AfterTurnEnd(tr, e.turn)
      [] e.type = "step/start" -> Companion(tr)!AfterStepStart(tr, e.turn, e.step)
      [] e.type = "step/end" -> Companion(tr)!AfterStepEnd(tr, e.turn, e.step)
      [] e.type = "tool/call" ->
             Companion(tr)!AfterToolCall(tr, e.turn, e.step, Named(e))
      [] e.type = "tool/result" ->
             Companion(tr)!AfterToolResult(tr, e.turn, e.step, Named(e))
      [] OTHER -> tr

\* ... and the conditions it checks before the event commits.
InOpenStep(tr, e) == tr.openTurn = e.turn /\ tr.openStep = e.step

Legal(tr, e) ==
    CASE e.type = "turn/start" -> tr.openTurn = None /\ e.turn = tr.nextTurn
      [] e.type = "turn/end" -> tr.openTurn = e.turn /\ tr.openStep = None
      [] e.type = "step/start" ->
             tr.openTurn = e.turn /\ tr.openStep = None /\ e.step = tr.nextStep
      [] e.type \in {"step/end", "assistant/message", "tool/call"} ->
             InOpenStep(tr, e)
      [] e.type = "tool/result" ->
             /\ InOpenStep(tr, e)
             /\ Named(e) \in tr.pending \/ e.code = "not-started"
      [] OTHER -> TRUE

\* What the bookkeeping is after each event of a log (seedSession).
Traces(events) ==
    LET trace[n \in 0 .. Len(events)] ==
            IF n = 0 THEN Companion(None)!FreshTrace(0) ELSE Seen(trace[n - 1], events[n])
    IN trace

-----------------------------------------------------------------------------
(* repair.ts: the events that close an interrupted log.                    *)

NothingOpen == [turn |-> None, step |-> None, pending |-> {}, called |-> {}]

\* Fault: one result settles every call of the step.
FollowSettlingAll(open, e) ==
    CASE e.type = "turn/start" -> [NothingOpen EXCEPT !.turn = e.turn]
      [] e.type = "turn/end" -> NothingOpen
      [] e.type = "step/start" -> [open EXCEPT !.step = e.step]
      [] e.type = "step/end" -> [open EXCEPT !.step = None, !.pending = {}, !.called = {}]
      [] e.type = "assistant/message" -> [open EXCEPT !.pending = @ \cup e.calls]
      [] e.type = "tool/call" -> [open EXCEPT !.called = @ \cup e.calls]
      [] e.type = "tool/result" -> [open EXCEPT !.pending = {}]
      [] OTHER -> open

Follow(open, e) ==
    CASE e.type = "turn/start" -> [NothingOpen EXCEPT !.turn = e.turn]
      [] e.type = "turn/end" -> NothingOpen
      [] e.type = "step/start" -> [open EXCEPT !.step = e.step]
      [] e.type = "step/end" -> [open EXCEPT !.step = None, !.pending = {}, !.called = {}]
      [] e.type = "assistant/message" -> [open EXCEPT !.pending = @ \cup e.calls]
      [] e.type = "tool/call" -> [open EXCEPT !.called = @ \cup (e.calls \cap open.pending)]
      [] e.type = "tool/result" -> [open EXCEPT !.pending = @ \ e.calls]
      [] OTHER -> open

\* What the cursor holds after each event of a log.
Cursors(events) ==
    LET open[n \in 0 .. Len(events)] ==
            IF n = 0 THEN NothingOpen ELSE Follow(open[n - 1], events[n])
    IN open

OpenTail(events) == Cursors(events)[Len(events)]

\* Fault: a recorded call is offered for a retry.
OutcomeRetriable(open, c) == "not-started"

Outcome(open, c) == IF c \in open.called THEN "unknown" ELSE "not-started"

\* A Map keeps the calls in the order of the answer.
InOrder(calls) ==
    CHOOSE order \in [1 .. Cardinality(calls) -> calls] :
        \A i, j \in 1 .. Cardinality(calls) : i < j => order[i] < order[j]

Results(open) ==
    [i \in 1 .. Cardinality(open.pending) |->
        LET c == InOrder(open.pending)[i]
        IN Event("tool/result", open.turn, open.step, {c}, Outcome(open, c))]

\* Fault: the turn is closed over its open step.
StepCloserMissing(open) == <<>>

StepCloser(open) ==
    IF open.step = None THEN <<>> ELSE <<Boundary("step/end", open.turn, open.step)>>

interruptedTurnClosers(events) ==
    LET open == OpenTail(events)
    IN IF open.turn = None THEN <<>>
       ELSE Results(open) \o StepCloser(open) \o <<Event("turn/end", open.turn, None, {}, "interrupted")>>

-----------------------------------------------------------------------------
(* The program while it runs.                                              *)

LastTurn(events) ==
    LET starts == {i \in DOMAIN events : events[i].type = "turn/start"}
    IN IF starts = {} THEN 0
       ELSE events[CHOOSE i \in starts : \A j \in starts : j <= i].turn

Off == [at |-> "off", turn |-> None, step |-> None, aborted |-> FALSE]
Ready(n) == [at |-> "idle", turn |-> n, step |-> None, aborted |-> FALSE]

NoCalls == [c \in Calls |-> "none"]
NoBarriers == [c \in Calls |-> 0]

RecoveryInit ==
    /\ log = <<>> /\ stored = 0
    /\ agent = Ready(0)
    /\ call = NoCalls /\ barrier = NoBarriers
    /\ ran = {}
    /\ crashes = 0

In(state) == {c \in Calls : call[c] = state}
Requested == UNION {log[i].calls : i \in {j \in DOMAIN log : log[j].type = "assistant/message"}}

Appended(type, calls, code) ==
    Append(log, Event(type, agent.turn, agent.step, calls, code))

BeginTurn ==
    /\ agent.at = "idle" /\ agent.turn < MaxTurns
    /\ agent' = [Ready(agent.turn + 1) EXCEPT !.at = "turn"]
    /\ log' = Append(log, Boundary("turn/start", agent.turn + 1, None))
    /\ UNCHANGED <<stored, call, barrier, ran, crashes>>

\* The checkpoint before a step and before a request: flush, then go on.
PrefixIsDurable == stored = Len(log)

\* agent/pre-step, then the boundary and the messages the step claimed.
BeginStep ==
    /\ agent.at = "turn" /\ ~agent.aborted /\ agent.step < MaxSteps
    /\ PrefixIsDurable
    /\ agent' = [agent EXCEPT !.at = "step", !.step = @ + 1]
    /\ log' = log \o <<Boundary("step/start", agent.turn, agent.step + 1),
                       Boundary("user/message", None, None)>>
    /\ UNCHANGED <<stored, call, barrier, ran, crashes>>

\* llm/stream reaches the adapter.
Request ==
    /\ agent.at = "step" /\ ~agent.aborted
    /\ PrefixIsDurable
    /\ agent' = [agent EXCEPT !.at = "streaming"]
    /\ UNCHANGED <<log, stored, call, barrier, ran, crashes>>

\* The answer asks for the next k calls.
Message(k) ==
    LET first == Cardinality(Requested) + 1
        asked == first .. first + k - 1
    IN /\ agent.at = "streaming" /\ ~agent.aborted
       /\ asked \subseteq Calls
       /\ agent' = [agent EXCEPT !.at = "calls"]
       /\ call' = [c \in Calls |-> IF c \in asked THEN "asked" ELSE "none"]
       /\ log' = Appended("assistant/message", asked, "none")
       /\ UNCHANGED <<stored, barrier, ran, crashes>>

FirstOf(calls) == CHOOSE c \in calls : \A d \in calls : c <= d

\* The call is recorded, and its checkpoint asked for.
StartCall ==
    /\ agent.at = "calls" /\ ~agent.aborted
    /\ In("asked") # {}
    /\ LET c == FirstOf(In("asked"))
       IN /\ log' = Appended("tool/call", {c}, "none")
          /\ call' = [call EXCEPT ![c] = "recorded"]
          /\ barrier' = [barrier EXCEPT ![c] = Len(log) + 1]
    /\ UNCHANGED <<stored, agent, ran, crashes>>

\* Fault: the body does not wait for the checkpoint.
CheckpointSkipped(c) == TRUE

Checkpointed(c) == stored >= barrier[c]

RunBody(c) ==
    /\ call[c] = "recorded" /\ ~agent.aborted
    /\ Checkpointed(c)
    /\ call' = [call EXCEPT ![c] = "running"]
    /\ ran' = ran \cup {c}
    /\ UNCHANGED <<log, stored, agent, barrier, crashes>>

\* A policy denies the call, its checkpoint is rejected, or an abort comes
\* first: it has a result, and its body is never entered.
Withhold(c) ==
    /\ call[c] = "recorded"
    /\ call' = [call EXCEPT ![c] = "settled"]
    /\ UNCHANGED <<log, stored, agent, barrier, ran, crashes>>

SettleCall(c) ==
    /\ call[c] = "running"
    /\ call' = [call EXCEPT ![c] = "settled"]
    /\ UNCHANGED <<log, stored, agent, barrier, ran, crashes>>

Started == In("recorded") \cup In("running") \cup In("settled")

\* Results are recorded in model order.
Commit ==
    /\ Started # {}
    /\ LET c == FirstOf(Started)
       IN /\ call[c] = "settled"
          /\ log' = Appended("tool/result", {c}, "ok")
          /\ call' = [call EXCEPT ![c] = "answered"]
    /\ UNCHANGED <<stored, agent, barrier, ran, crashes>>

\* After an abort, once the started calls are answered, the others are skipped.
Skip ==
    /\ agent.at = "calls" /\ agent.aborted
    /\ Started = {} /\ In("asked") # {}
    /\ LET c == FirstOf(In("asked"))
       IN /\ log' = Appended("tool/call", {c}, "none")
                    \o <<Event("tool/result", agent.turn, agent.step, {c}, "ok")>>
          /\ call' = [call EXCEPT ![c] = "answered"]
    /\ UNCHANGED <<stored, agent, barrier, ran, crashes>>

Abort ==
    /\ agent.at \notin {"off", "idle"} /\ ~agent.aborted
    /\ agent' = [agent EXCEPT !.aborted = TRUE]
    /\ UNCHANGED <<log, stored, call, barrier, ran, crashes>>

\* A request may fail; a batch of calls is answered, unless its scheduler failed.
StepMayEnd ==
    \/ agent.at \in {"step", "streaming"}
    \/ agent.at = "calls" /\ Started \cup In("asked") = {}
    \/ /\ "scheduler-failure" \in Admitted
       /\ agent.at = "calls" /\ In("running") = {}

EndStep ==
    /\ StepMayEnd
    /\ agent' = [agent EXCEPT !.at = "turn"]
    /\ log' = Appended("step/end", {}, "none")
    /\ call' = NoCalls /\ barrier' = NoBarriers
    /\ UNCHANGED <<stored, ran, crashes>>

EndTurn ==
    /\ agent.at = "turn"
    /\ agent' = Ready(agent.turn)
    /\ log' = Append(log, Boundary("turn/end", agent.turn, None))
    /\ UNCHANGED <<stored, call, barrier, ran, crashes>>

\* The write path stores the next events.
Store ==
    /\ agent.at # "off"
    /\ stored' \in stored + 1 .. Len(log)
    /\ UNCHANGED <<log, agent, call, barrier, ran, crashes>>

-----------------------------------------------------------------------------
(* Crash, repair, resume, rewind.                                          *)

Crash ==
    /\ agent.at # "off" /\ crashes < MaxCrashes
    /\ crashes' = crashes + 1
    /\ log' = SubSeq(log, 1, stored)
    /\ agent' = Off
    /\ call' = NoCalls /\ barrier' = NoBarriers
    /\ UNCHANGED <<stored, ran>>

\* Fault: a repaired log is repaired again.
NeedsRepairAgain(events) ==
    \/ interruptedTurnClosers(events) # <<>>
    \/ events # <<>> /\ Last(events).code = "interrupted"

NeedsRepair(events) == interruptedTurnClosers(events) # <<>>

\* Fault: the cursor covers closers a crash kept from being written.
WrittenInFull(n) == Len(log) + Len(interruptedTurnClosers(log))

Written(n) == Len(log) + n

\* The closers are appended; a crash in between keeps the first n of them.
Repair(n) ==
    /\ agent.at = "off" /\ NeedsRepair(log)
    /\ n \in 1 .. Len(interruptedTurnClosers(log))
    /\ log' = log \o SubSeq(interruptedTurnClosers(log), 1, n)
    /\ stored' = Written(n)
    /\ UNCHANGED <<agent, call, barrier, ran, crashes>>

Resume ==
    /\ agent.at = "off" /\ ~NeedsRepair(log)
    /\ agent' = Ready(LastTurn(log))
    /\ UNCHANGED <<log, stored, call, barrier, ran, crashes>>

\* The terminal UI cuts an idle session's log after a message; nothing tells
\* the agent.
Rewind(n) ==
    /\ "rewind" \in Admitted
    /\ agent.at = "idle" /\ PrefixIsDurable
    /\ log[n].type \in {"user/message", "assistant/message"}
    /\ log' = SubSeq(log, 1, n)
    /\ stored' = n
    /\ UNCHANGED <<agent, call, barrier, ran, crashes>>

RecoveryNext ==
    \/ BeginTurn \/ BeginStep \/ Request \/ StartCall \/ Commit \/ Skip
    \/ Abort \/ EndStep \/ EndTurn \/ Store \/ Crash \/ Resume
    \/ \E k \in 0 .. MaxCalls : Message(k)
    \/ \E c \in Calls : RunBody(c) \/ Withhold(c) \/ SettleCall(c)
    \/ \E n \in 1 .. MaxCalls + 2 : Repair(n)
    \/ \E n \in DOMAIN log : Rewind(n)

RecoverySpec == RecoveryInit /\ [][RecoveryNext]_recoveryVars

\* Somebody resumes the session, and resuming retries an unfinished repair.
LiveRecovery ==
    /\ RecoverySpec
    /\ WF_recoveryVars(Resume)
    /\ WF_recoveryVars(\E n \in 1 .. MaxCalls + 2 : Repair(n))

-----------------------------------------------------------------------------
(* Properties.                                                             *)

EventTypes == {"turn/start", "turn/end", "step/start", "step/end", "user/message",
               "assistant/message", "tool/call", "tool/result"}

\* Every variable has its type, and the durable events are a prefix of the log.
RecoveryTypeOK ==
    /\ log \in Seq([type : EventTypes, turn : 0 .. MaxTurns, step : 0 .. MaxSteps,
                     calls : SUBSET Calls,
                     code : {"none", "ok", "unknown", "not-started", "interrupted"}])
    /\ stored \in 0 .. Len(log)
    /\ agent \in [at : {"off", "idle", "turn", "step", "streaming", "calls"},
                   turn : 0 .. MaxTurns, step : 0 .. MaxSteps, aborted : BOOLEAN]
    /\ call \in [Calls -> {"none", "asked", "recorded", "running", "settled", "answered"}]
    /\ barrier \in [Calls -> 0 .. Len(log)]
    /\ ran \subseteq Calls
    /\ crashes \in 0 .. MaxCrashes

\* The log is one the invariant companion accepts event by event, and so is
\* what a crash leaves, a partly written repair, and what follows a resume.
LogIsValid == \A n \in DOMAIN log : Legal(Traces(log)[n - 1], log[n])

\* An idle agent's log has no open turn or step: the repair closed them.
IdleLogIsBalanced ==
    agent.at = "idle" =>
        LET trace == Traces(log)[Len(log)]
        IN trace.openTurn = None /\ trace.openStep = None /\ trace.pending = {}

\* The positions of the results of c.
ResultsOf(c) == {i \in DOMAIN log : log[i].type = "tool/result" /\ log[i].calls = {c}}

\* A closed log has exactly one result for each call the model asked for, in
\* the step that asked: the transcript a provider is sent has no dangling call.
CallsAreAnswered ==
    agent.at = "idle" =>
        \A i \in DOMAIN log : log[i].type = "assistant/message" =>
            \A c \in log[i].calls :
                \E j \in ResultsOf(c) :
                    /\ ResultsOf(c) = {j} /\ j > i
                    /\ \A k \in i .. j : log[k].type # "step/end"

\* Whatever prefix crashes and partial repairs left, a resumed session has nothing
\* open and nothing unanswered.
ResumedLogIsClosed == IdleLogIsBalanced /\ CallsAreAnswered

\* The effect of a tool body is never unknown to the durable log: whatever a
\* crash takes away, the call that was entered is still recorded.
EffectsAreRecorded ==
    \A c \in ran : \E i \in 1 .. stored : log[i].type = "tool/call" /\ log[i].calls = {c}

\* The repair never tells the model that a call was not started, and may be
\* retried, when its body was entered; nor that the outcome of a call is
\* unknown when the log does not even show that it was recorded.
OutcomesAreHonest ==
    \A c \in Calls : \A i \in ResultsOf(c) :
        /\ log[i].code = "not-started" => c \notin ran
        /\ log[i].code = "unknown" =>
              \E j \in 1 .. i : log[j].type = "tool/call" /\ log[j].calls = {c}

\* The log a model's answer was computed from can no longer be lost.
AnsweredRequestsAreDurable ==
    \A i \in DOMAIN log : log[i].type = "assistant/message" => stored >= i - 1

\* The checkpoint policy keeps its promise for tool bodies and model requests.
CheckpointsHold == EffectsAreRecorded /\ AnsweredRequestsAreDurable

\* A crashed session becomes usable again, however often its repair is cut short.
RecoveryEnds == (agent.at = "off") ~> (agent.at = "idle")

\* The record is honest across crashes: effects are known to it before they
\* happen, and what it says of a call is what happened to it.
RecordIsHonest == RecoveryTypeOK /\ CheckpointsHold /\ OutcomesAreHonest
=============================================================================
