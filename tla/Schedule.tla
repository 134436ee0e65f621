------------------------------ MODULE Schedule ------------------------------
(***************************************************************************)
(* Reminders of one root agent: the strict schedule log and its fold, the  *)
(* live runtime that turns due records into follow-ups, the tools that     *)
(* create, list and delete, the queue that serializes them, and the        *)
(* durability barriers around both (packages/schedule/schedule/src).       *)
(*                                                                         *)
(* A step is a span without await.  Time is counted in ticks; a one-shot   *)
(* has interval 0.  Prompts, calendars, framing and the decoding of        *)
(* payloads are left out.  The log is the part of the session's log that   *)
(* counts here: schedule/change events and queued reminders.               *)
(***************************************************************************)
EXTENDS Naturals, FiniteSets, Sequences, SequencesExt

CONSTANTS Horizon,      \* MAX_FOUR_DIGIT_YEAR: the last representable instant
          MaxDelay,     \* MAX_TIMER_DELAY_MS: the longest timer
          Rules,        \* the rules callers ask for: [after, every]
          Ops,          \* the tools they call
          MaxCalls,     \* bound: tool calls
          MaxTurns,     \* bound: turns that are not opened by a reminder
          MaxDisturbances  \* bound: failed flushes, appends, follow-ups, decisions
                           \* and idle waits, changes of the wall clock and crashes,
                           \* together; a start that fails needs no bound

ASSUME HorizonAssumption == Horizon \in Nat \ {0} /\ MaxDelay \in Nat \ {0}
ASSUME BoundsAssumption  == MaxCalls \in Nat /\ MaxTurns \in Nat /\ MaxDisturbances \in Nat
ASSUME RulesAssumption == \A r \in Rules : r.after \in Nat \ {0} /\ r.every \in {0, r.after}

Calls   == 1..MaxCalls   \* numbered as they are made; ids are no more than calls
Runtime == 0             \* the place of the runtime in the queue

VARIABLES
    log,        \* the events
    durable,    \* how many of them have been flushed to disk
    now,        \* the wall clock
    agent,      \* idle, turn or maintenance
    tails,      \* runScheduleTransaction(): who runs and who waits, in order
    drive,      \* the run of the runtime: none, or where it is
    goal,       \* the events its flush answers for
    accepted,   \* what the maintenance body returned
    requested, timer, idleWait, stopping, faulted,  \* the runtime's fields
    stalled,    \* ghost: a failure since the last drive began
    call,       \* the tool calls
    turns, failures, jumps, crashes

budget  == <<turns, failures, jumps, crashes>>
runtime == <<drive, goal, accepted, requested, timer, idleWait, stopping, faulted, stalled>>
vars    == <<log, durable, now, agent, tails, runtime, call, budget>>

-----------------------------------------------------------------------------
(* The fold of the log.                                                    *)

Later(a, b) == IF a > b THEN a ELSE b
Sooner(a, b) == IF a < b THEN a ELSE b
\* Fault: missed occurrences are made up for one by one.
Earliest(r, at) == r.due

\* resolveEveryOccurrence(): the last occurrence that is due at the decision.
Latest(r, at) == IF r.every = 0 THEN r.due ELSE r.due + ((at - r.due) \div r.every) * r.every

FirstOf(set) == CHOOSE t \in set : \A u \in set : t <= u

Change(op, id, due, every, at) == [op |-> op, id |-> id, due |-> due, every |-> every, at |-> at, items |-> {}]
Reminder(items) == [op |-> "remind", id |-> 0, due |-> 0, every |-> 0, at |-> 0, items |-> items]

\* The record that a dispatch leaves: none of a one-shot, the first occurrence
\* after the decision of a fixed rate, as long as it can be represented.
Dispatched(r, at) ==
    IF r.every = 0 \/ Latest(r, at) + r.every > Horizon THEN {}
    ELSE {[r EXCEPT !.due = Latest(r, at) + r.every]}

\* One event; a reused id, a delete or dispatch of an inactive one and a
\* dispatch ahead of its target are what the fold throws for.
Folds(s, e) ==
    LET mine == {r \in s.active : r.id = e.id} IN
    CASE e.op = "remind" -> s
      [] e.op = "create" ->
           [active |-> s.active \cup {[id |-> e.id, due |-> e.due, every |-> e.every]},
            seen |-> s.seen \cup {e.id}, legal |-> s.legal /\ e.id \notin s.seen]
      [] e.op = "delete" ->
           [s EXCEPT !.active = @ \ mine, !.legal = @ /\ mine # {}]
      [] e.op = "dispatch" ->
           [s EXCEPT !.active = (@ \ mine) \cup UNION {Dispatched(r, e.at) : r \in mine},
                     !.legal = @ /\ mine # {} /\ \A r \in mine : r.due <= e.at]

Unfolded == [active |-> {}, seen |-> {}, legal |-> TRUE]

Fold(events) ==
    LET folded[n \in 0..Len(events)] ==
            IF n = 0 THEN Unfolded ELSE Folds(folded[n - 1], events[n])
    IN  folded[Len(events)]

Folded == Fold(log)
Active == Folded.active

-----------------------------------------------------------------------------
(* The queue, the barriers and the requests.                               *)

Holds(who) == tails # <<>> /\ Head(tails) = who

\* ctx.sessions.flush(): everything that was there when it was asked for.
FlushTo(events) == durable' = Later(durable, events)
Disturbable == failures + jumps + crashes < MaxDisturbances

Fails == Disturbable /\ failures' = failures + 1

\* A run joins the queue, unless the boundary it starts in is closing: then it
\* throws, and the request stays noted with nobody to serve it.
Start(queue) ==
    /\ timer' = 0
    /\ \/ /\ drive' = "queued" /\ tails' = Append(queue, Runtime) /\ requested' = FALSE
          /\ UNCHANGED stalled
       \/ drive' = "none" /\ tails' = queue /\ requested' = TRUE /\ stalled' = TRUE

\* requestDrive(), with the queue as this step leaves it: a run that is under
\* way takes the request, otherwise a new one starts.
RequestDrive(queue) ==
    IF stopping \/ faulted
    THEN tails' = queue /\ UNCHANGED <<requested, timer, drive, stalled>>
    ELSE IF drive = "none" THEN Start(queue)
    ELSE timer' = 0 /\ requested' = TRUE /\ tails' = queue /\ UNCHANGED <<drive, stalled>>

NoRule  == [after |-> 0, every |-> 0]
Idle    == [at |-> "none", op |-> "list", rule |-> NoRule, id |-> 0, goal |-> 0,
            cancelled |-> FALSE, answer |-> "none", seen |-> 0]

\* start(), when the agent is created.
Init ==
    /\ log = <<>> /\ durable = 0 /\ now = 1 /\ agent = "idle" /\ goal = 0 /\ timer = 0
    /\ \/ drive = "queued" /\ tails = <<Runtime>> /\ requested = FALSE /\ stalled = FALSE
       \/ drive = "none" /\ tails = <<>> /\ requested = TRUE /\ stalled = TRUE
    /\ accepted = FALSE /\ idleWait = FALSE /\ stopping = FALSE /\ faulted = FALSE
    /\ call = [c \in Calls |-> Idle]
    /\ turns = 0 /\ failures = 0 /\ jumps = 0 /\ crashes = 0

-----------------------------------------------------------------------------
(* The runtime: driveOnce() in its transaction, the loop around it.        *)

\* The transaction ends; the loop looks for a request next.
EndsDrive == drive' = "loop" /\ tails' = Tail(tails) /\ goal' = 0 /\ accepted' = FALSE

DriveBegins ==
    /\ drive = "queued" /\ Holds(Runtime)
    /\ timer' = 0 /\ stalled' = FALSE
    /\ IF stopping THEN EndsDrive
       ELSE drive' = "preflight" /\ goal' = Len(log) /\ UNCHANGED <<tails, accepted>>
    /\ UNCHANGED <<log, durable, now, agent, requested, idleWait, stopping,
                   faulted, call, budget>>

Due == {r \in Active : r.due <= now}

\* By target, then by creation.
Earlier(a, b) == a.due < b.due \/ (a.due = b.due /\ a.id < b.id)

InOrder(set) ==
    CHOOSE order \in [1..Cardinality(set) -> set] :
        \A i, j \in 1..Cardinality(set) : i < j => Earlier(order[i], order[j])

\* dueDecision(): the earliest one-shot alone, or every fixed rate that is due.
Selected ==
    LET oneShots == {r \in Due : r.every = 0}
    IN  IF oneShots = {} THEN Due
        ELSE {Head(InOrder(oneShots))}

\* Fault: no timer for a target beyond the longest one.
ArmedIfShort ==
    LET targets == {r.due : r \in Active} IN
    IF targets = {} \/ FirstOf(targets) - now > MaxDelay THEN 0 ELSE FirstOf(targets) - now + 1

\* arm() for the next target, cut to the longest timer; NoTimer is 0, and a
\* timer at 1 has run out.
Armed ==
    IF Active = {} THEN 0
    ELSE Sooner(FirstOf({r.due : r \in Active}) - now, MaxDelay) + 1

DriveFails ==
    /\ Fails /\ stalled' = TRUE /\ EndsDrive
    /\ UNCHANGED <<log, durable, now, agent, requested, timer, idleWait, stopping, faulted,
                   call, turns, jumps, crashes>>

\* The clock reads what no date stands for: a one-shot does not mind, the
\* occurrence of a fixed rate cannot be told (decide).
DecisionFails ==
    /\ Fails /\ stalled' = TRUE /\ FlushTo(goal) /\ EndsDrive
    /\ ~stopping /\ Active # {} /\ \A r \in Active : r.every # 0
    /\ UNCHANGED <<log, now, agent, requested, timer, idleWait, stopping, faulted,
                   call, turns, jumps, crashes>>

\* The preflight returns: stop, arm, or wait for the agent to be idle ...
DriveDecides ==
    /\ drive = "preflight"
    /\ \/ DriveFails \/ DecisionFails
       \/ /\ stopping \/ Due = {} \/ agent # "idle"
          /\ FlushTo(goal) /\ EndsDrive
          /\ timer' = IF ~stopping /\ Due = {} THEN Armed ELSE timer
          /\ idleWait' = (idleWait \/ (~stopping /\ Due # {}))
          /\ UNCHANGED <<log, now, agent, requested, stopping, faulted, stalled, call, budget>>

Occurrences(set) == {<<r.id, Latest(r, now)>> : r \in set}

Dispatches(set) ==
    [i \in 1..Cardinality(set) |-> Change("dispatch", InOrder(set)[i].id, 0, 0, now)]

\* Fault: the dispatches are appended before the follow-up is queued.
DispatchesFirst(written) ==
    log' = log \o SubSeq(Dispatches(Selected), 1, written) \o <<Reminder(Occurrences(Selected))>>

\* ... or claim it, refold, queue the follow-up and append the dispatches,
\* all in one span.  What was appended before a failure stays.
Reminds(written) ==
    log' = log \o <<Reminder(Occurrences(Selected))>> \o SubSeq(Dispatches(Selected), 1, written)

DriveReminds ==
    /\ drive = "preflight" /\ ~stopping /\ Due # {} /\ agent = "idle"
    /\ FlushTo(goal) /\ goal' = 0 /\ agent' = "maintenance" /\ drive' = "maintenance"
    /\ \/ /\ Reminds(Cardinality(Selected)) /\ accepted' = TRUE
          /\ UNCHANGED <<faulted, failures, stalled>>
       \/ /\ Fails /\ accepted' = FALSE /\ faulted' = TRUE /\ UNCHANGED stalled
          /\ \E n \in 0..(Cardinality(Selected) - 1) : Reminds(n)
       \/ Fails /\ accepted' = FALSE /\ stalled' = TRUE /\ UNCHANGED <<log, faulted>>
    /\ UNCHANGED <<now, tails, requested, timer, idleWait, stopping, call,
                   turns, jumps, crashes>>

\* The maintenance ends: a queued follow-up opens a turn, and what was
\* dispatched is made durable.
MaintenanceEnds ==
    /\ drive = "maintenance"
    /\ agent' = IF accepted \/ faulted THEN "turn" ELSE "idle"
    /\ IF accepted THEN drive' = "barrier" /\ goal' = Len(log) /\ UNCHANGED <<tails, accepted>>
       ELSE EndsDrive
    /\ UNCHANGED <<log, durable, now, requested, timer, idleWait, stopping,
                   faulted, stalled, call, budget>>

\* The maintenance rejects instead, having queued nothing, and with it the run:
\* once that is heard the runtime is faulted.
MaintenanceRejects ==
    /\ drive = "maintenance" /\ ~accepted /\ ~faulted
    /\ agent' = "idle" /\ drive' = "rejected" /\ tails' = Tail(tails)
    /\ UNCHANGED <<log, durable, now, goal, accepted, requested, timer, idleWait, stopping,
                   faulted, stalled, call, budget>>

RunRejects ==
    /\ drive = "rejected" /\ drive' = "none" /\ faulted' = TRUE
    /\ UNCHANGED <<log, durable, now, agent, tails, goal, accepted, requested, timer, idleWait,
                   stopping, stalled, call, budget>>

DriveConfirms ==
    /\ drive = "barrier"
    /\ \/ DriveFails
       \/ /\ FlushTo(goal) /\ EndsDrive
          /\ requested' = (requested \/ ~stopping) /\ timer' = IF stopping THEN timer ELSE 0
          /\ UNCHANGED <<log, now, agent, idleWait, stopping, faulted, stalled, call, budget>>

\* Fault: retire() does not look at what came in last.
AgainUnlessOver == requested /\ ~stopping /\ ~faulted /\ drive = "loop"

Again == requested /\ ~stopping /\ ~faulted

\* runRequested() goes round, or its promise settles and retire() looks once
\* more at what came in the meantime.
DriveLoops ==
    /\ \/ /\ drive = "loop" /\ UNCHANGED <<timer, stalled>>
          /\ IF Again
             THEN drive' = "queued" /\ requested' = FALSE /\ tails' = Append(tails, Runtime)
             ELSE drive' = "over" /\ UNCHANGED <<requested, tails>>
       \/ /\ drive = "over"
          /\ IF Again THEN Start(tails)
             ELSE drive' = "none" /\ UNCHANGED <<requested, tails, timer, stalled>>
    /\ UNCHANGED <<log, durable, now, agent, goal, accepted, idleWait, stopping, faulted,
                   call, budget>>

TimerFires ==
    /\ timer = 1 /\ RequestDrive(tails)
    /\ UNCHANGED <<log, durable, now, agent, goal, accepted, idleWait, stopping, faulted,
                   call, budget>>

\* waitForIdle(): whenIdle() or the stop.
IdleWaitEnds ==
    /\ idleWait /\ (agent = "idle" \/ stopping)
    /\ idleWait' = FALSE /\ RequestDrive(tails)
    /\ UNCHANGED <<log, durable, now, agent, goal, accepted, stopping, faulted, call, budget>>

\* whenIdle() rejects and nobody asks for another drive; one that has yet to
\* decide waits anew.
IdleWaitFails ==
    /\ idleWait /\ idleWait' = FALSE /\ Fails
    /\ stalled' = (stalled \/ drive \in {"loop", "over", "none"})
    /\ UNCHANGED <<log, durable, now, agent, tails, drive, goal, accepted, requested, timer,
                   stopping, faulted, call, turns, jumps, crashes>>

\* dispose(), which then waits for the run and the idle wait.
Dispose ==
    /\ ~stopping /\ stopping' = TRUE /\ requested' = FALSE /\ timer' = 0
    /\ UNCHANGED <<log, durable, now, agent, tails, drive, goal, accepted, idleWait,
                   faulted, stalled, call, budget>>

-----------------------------------------------------------------------------
(* The tools, in a turn of the agent.                                      *)

InProgress(c) == call[c].at \notin {"none", "done"}

Asks(c, op, rule, id) ==
    /\ agent = "turn" /\ ~stopping
    /\ call[c] = Idle /\ \A d \in 1..(c - 1) : call[d] # Idle
    /\ call' = [call EXCEPT ![c] = [Idle EXCEPT !.at = "queued", !.op = op, !.rule = rule, !.id = id]]
    /\ tails' = Append(tails, c)
    /\ UNCHANGED <<log, durable, now, agent, runtime, budget>>

CallerAsks(c) ==
    \/ "create" \in Ops /\ \E r \in Rules : Asks(c, "create", r, 0)
    \/ "delete" \in Ops /\ \E id \in Folded.seen : Asks(c, "delete", NoRule, id)
    \/ "list" \in Ops /\ Asks(c, "list", NoRule, 0)

\* The turn's signal aborts.
TurnAborts ==
    /\ \E c \in Calls : InProgress(c) /\ ~call[c].cancelled
    /\ call' = [c \in Calls |-> [call[c] EXCEPT !.cancelled = @ \/ InProgress(c)]]
    /\ UNCHANGED <<log, durable, now, agent, tails, runtime, budget>>

Answers(c, answer, seen) ==
    call' = [call EXCEPT ![c] = [Idle EXCEPT !.at = "done", !.answer = answer, !.seen = seen]]

CallBegins(c) ==
    /\ call[c].at = "queued" /\ Holds(c)
    /\ IF call[c].cancelled
       THEN Answers(c, "cancelled", 0) /\ tails' = Tail(tails)
       ELSE call' = [call EXCEPT ![c].at = "preflight", ![c].goal = Len(log)] /\ UNCHANGED tails
    /\ UNCHANGED <<log, durable, now, agent, runtime, budget>>

\* A barrier of c fails: nobody knows what is on disk.
CallFails(c) ==
    /\ call[c].at \in {"preflight", "barrier"} /\ Fails
    /\ Answers(c, "uncertain", 0) /\ tails' = Tail(tails)
    /\ stalled' = (stalled \/ call[c].at = "barrier")
    /\ UNCHANGED <<log, durable, now, agent, drive, goal, accepted, requested, timer,
                   idleWait, stopping, faulted, turns, jumps, crashes>>

\* The event that c appends, if it gets so far: allocateScheduleId(), or an
\* active id.
NextId == Cardinality(Folded.seen) + 1

Appends(c) ==
    CASE call[c].op = "create" /\ now + call[c].rule.after <= Horizon ->
           {Change("create", NextId, now + call[c].rule.after, call[c].rule.every, 0)}
      [] call[c].op = "delete" /\ (\E r \in Active : r.id = call[c].id) ->
           {Change("delete", call[c].id, 0, 0, 0)}
      [] OTHER -> {}

\* The preflight has succeeded: notify the runtime, fold, and answer from it ...
CallReads(c) ==
    /\ call[c].at = "preflight" /\ FlushTo(call[c].goal)
    /\ Appends(c) = {} \/ call[c].cancelled
    /\ RequestDrive(Tail(tails))
    /\ IF call[c].op = "create" \/ Appends(c) # {}
       THEN Answers(c, "refused", 0) ELSE Answers(c, "ok", Len(log))
    /\ UNCHANGED <<log, now, agent, goal, accepted, idleWait, stopping, faulted, budget>>

\* ... or append, unless the log refuses, and ask for the second barrier.
CallWrites(c) ==
    /\ call[c].at = "preflight" /\ ~call[c].cancelled /\ FlushTo(call[c].goal)
    /\ \E e \in Appends(c) :
          \/ /\ log' = Append(log, e) /\ RequestDrive(tails)
             /\ call' = [call EXCEPT ![c].at = "barrier", ![c].goal = Len(log) + 1]
             /\ UNCHANGED failures
          \/ Fails /\ Answers(c, "refused", 0) /\ RequestDrive(Tail(tails)) /\ UNCHANGED log
    /\ UNCHANGED <<now, agent, goal, accepted, idleWait, stopping, faulted,
                   turns, jumps, crashes>>

\* Fault: c does not wait for the second barrier.
CallConfirmsEarly(c) ==
    /\ call[c].at = "barrier" /\ RequestDrive(Tail(tails)) /\ Answers(c, "ok", call[c].goal)
    /\ UNCHANGED <<log, durable, now, agent, goal, accepted, idleWait, stopping, faulted, budget>>

CallConfirms(c) ==
    /\ call[c].at = "barrier" /\ FlushTo(call[c].goal)
    /\ RequestDrive(Tail(tails)) /\ Answers(c, "ok", call[c].goal)
    /\ UNCHANGED <<log, now, agent, goal, accepted, idleWait, stopping, faulted, budget>>

-----------------------------------------------------------------------------
(* The agent, the clock and the disk.                                      *)

TurnBegins ==
    /\ agent = "idle" /\ turns < MaxTurns /\ turns' = turns + 1 /\ agent' = "turn"
    /\ UNCHANGED <<log, durable, now, tails, runtime, call, failures, jumps, crashes>>

\* agent/status is heard only once the log holds a change.
TurnEnds ==
    /\ agent = "turn" /\ (\A c \in Calls : ~InProgress(c)) /\ agent' = "idle"
    /\ IF Folded.seen = {} THEN UNCHANGED <<tails, requested, timer, drive, stalled>>
       ELSE RequestDrive(tails)
    /\ UNCHANGED <<log, durable, now, goal, accepted, idleWait, stopping, faulted, call, budget>>

\* The wall clock and a running timer advance together.
Tick ==
    /\ now < Horizon \/ timer > 1
    /\ now' = Sooner(now + 1, Horizon) /\ timer' = IF timer > 1 THEN timer - 1 ELSE timer
    /\ UNCHANGED <<log, durable, agent, tails, drive, goal, accepted, requested, idleWait,
                   stopping, faulted, stalled, call, budget>>

\* The wall clock is set, timers run on.
ClockIsSet ==
    /\ Disturbable /\ jumps' = jumps + 1 /\ now' \in (1..Horizon) \ {now}
    /\ UNCHANGED <<log, durable, agent, tails, runtime, call, turns, failures, crashes>>

\* The process dies and the session is resumed from what is on disk: what was
\* flushed, and what the write-behind had got to beyond it.
Crash ==
    /\ Disturbable /\ crashes' = crashes + 1
    /\ durable' \in durable..Len(log)
    /\ log' = SubSeq(log, 1, durable') /\ agent' = "idle" /\ Start(<<>>) /\ goal' = 0
    /\ accepted' = FALSE /\ idleWait' = FALSE /\ stopping' = FALSE /\ faulted' = FALSE
    /\ call' = [c \in Calls |->
          IF InProgress(c) THEN [Idle EXCEPT !.at = "done", !.answer = "lost"] ELSE call[c]]
    /\ UNCHANGED <<now, turns, failures, jumps>>

-----------------------------------------------------------------------------
Internal ==
    \/ DriveBegins \/ DriveDecides \/ DriveReminds \/ MaintenanceEnds \/ MaintenanceRejects
    \/ RunRejects \/ DriveConfirms \/ DriveLoops \/ TimerFires \/ IdleWaitEnds \/ IdleWaitFails
    \/ TurnEnds \/ Tick
    \/ \E c \in Calls :
          CallBegins(c) \/ CallFails(c) \/ CallReads(c) \/ CallWrites(c) \/ CallConfirms(c)

Next ==
    \/ Internal
    \/ \E c \in Calls : CallerAsks(c)
    \/ TurnAborts \/ TurnBegins \/ ClockIsSet \/ Dispose \/ Crash

\* The event loop turns, timers fire, flushes settle and turns end; whether a
\* flush or an append succeeds is left open.
Spec     == Init /\ [][Next]_vars
FairSpec == Spec /\ WF_vars(Internal)

-----------------------------------------------------------------------------
(* Properties                                                              *)

Event ==
    [op : {"create", "delete", "dispatch", "remind"}, id : Nat, due : Nat, every : Nat,
     at : Nat, items : SUBSET (Nat \X Int)]

Call ==
    [at : {"none", "queued", "preflight", "barrier", "done"}, op : {"create", "delete", "list"},
     rule : Rules \cup {NoRule}, id : Nat, goal : Nat, cancelled : BOOLEAN,
     answer : {"none", "ok", "refused", "cancelled", "uncertain", "lost"}, seen : Nat]

\* Every variable has its type.
TypeOK ==
    /\ log \in Seq(Event) /\ tails \in Seq(Calls \cup {Runtime}) /\ call \in [Calls -> Call]
    /\ durable \in 0..Len(log) /\ goal \in 0..Len(log)
    /\ now \in 1..Horizon /\ timer \in 0..(MaxDelay + 1)
    /\ agent \in {"idle", "turn", "maintenance"}
    /\ drive \in {"none", "queued", "preflight", "maintenance", "barrier", "loop", "over",
                  "rejected"}
    /\ {requested, idleWait, stopping, faulted, stalled, accepted} \subseteq BOOLEAN
    /\ {turns, failures, jumps, crashes} \subseteq Nat

\* The stream is one the strict fold accepts, also after a crash.
LogIsStrict == Folded.legal

\* A record is advanced only after the follow-up for exactly that occurrence
\* was queued: in every prefix of the log, so whatever a crash leaves.
RemindersComeFirst ==
    \A i \in DOMAIN log : log[i].op = "dispatch" =>
        \A r \in Fold(SubSeq(log, 1, i - 1)).active : r.id = log[i].id =>
            \E j \in 1..(i - 1) : <<r.id, Latest(r, log[i].at)>> \in log[j].items

\* An occurrence is reminded of once, and again at most after a crash or by
\* the owner that replaces a faulted one.
NoRepeats ==
    \A i, j \in DOMAIN log :
        i < j /\ log[i].items \cap log[j].items # {} => crashes > 0

\* No reminder is lost, doubled or made up between the follow-up, the
\* dispatch, the failures of either and a crash (domain.ts foldScheduleEvents,
\* runtime.ts driveOnce).
RemindersAreExact == LogIsStrict /\ RemindersComeFirst /\ NoRepeats

\* What a tool has answered is on disk, and what it has told survives every
\* crash: created ids, deletions, lists and not-found answers (the barriers,
\* and the queue that keeps the runtime's unconfirmed dispatches out).
AnswersAreDurable == \A c \in Calls : call[c].answer = "ok" => call[c].seen <= durable

AtRest ==
    /\ drive = "none" /\ ~stopping /\ ~faulted /\ ~stalled
    /\ \A c \in Calls : call[c].at # "barrier"

\* No record is forgotten: a runtime at rest waits for the agent, or has a
\* timer that wakes it no later than the first target unless the clock was
\* set; and a runtime that is disposed of has none (requestDrive, retire, arm).
WakeIsArmed ==
    /\ TypeOK
    /\ AtRest /\ Active # {} =>
          \/ idleWait
          \/ /\ timer > 0
             /\ jumps = 0 => \A r \in Active : timer - 1 <= Later(r.due, now) - now
    /\ stopping \/ faulted => timer = 0

\* Reminders are due by the clock of the moment they are queued, and each is
\* the latest occurrence of its rule (dueDecision, resolveEveryOccurrence).
RemindersAreDue ==
    [][Len(log') > Len(log) /\ log'[Len(log) + 1].op = "remind" =>
          \A o \in log'[Len(log) + 1].items : \E r \in Active :
             /\ r.id = o[1] /\ r.due <= o[2] /\ o[2] <= now
             /\ r.every > 0 => now < o[2] + r.every]_vars

\* In the end the runtime rests, disposed of or not, and every record has been
\* served, unless a failure came after the last trigger, the owner faulted, or
\* it is disposed of.
RemindersAreServed ==
    <>[](/\ drive = "none" /\ ~idleWait
         /\ Active = {} \/ stalled \/ faulted \/ stopping)
=============================================================================
