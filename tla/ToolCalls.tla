----------------------------- MODULE ToolCalls -----------------------------
(***************************************************************************)
(* The tool-call scheduler of one step: executeToolCalls and runGroup      *)
(* (core/agent-loop/src/tool-calls.ts).                                    *)
(*                                                                         *)
(* The scheduler is one asynchronous procedure; "at" is where it waits or  *)
(* the loop it is about to enter.  Tool bodies settle, and the abort       *)
(* signal fires, between any two of its steps.  The concurrency mode of a  *)
(* call is read anew each time the code reads it, since the tool registry  *)
(* may change.  The calls of the step are 1 .. N in model order.           *)
(***************************************************************************)
EXTENDS Naturals, FiniteSets

CONSTANTS
    N,             \* tool calls of the assistant message
    MaxParallel    \* maxParallelToolCalls

ASSUME ConstantsAreValid == N \in Nat /\ MaxParallel \in Nat \ {0}

Calls == 1 .. N

VARIABLES
    at,         \* where the scheduler is
    base, last, \* the first and the last call of the current group
    cursor,     \* nextToStart
    committed,  \* the next call whose result is due
    stopping,   \* runGroup's "aborted"
    mode,       \* how each call was classified when it was started
    body,       \* each call's dispatch: none, running or settled
    slot,       \* each call's settled outcome: none, post or final
    inFlight,   \* dispatches the pool still counts
    signal,     \* the step's signal is aborted
    failed,     \* schedulerFailure
    logged,     \* calls that have a tool/call event
    trace       \* the bookkeeping of the session log

group == <<base, last, cursor, committed, stopping>>
pool == <<mode, body, slot, inFlight>>
log == <<logged, trace>>
vars == <<at, group, pool, signal, failed, log>>

Log == INSTANCE SessionTrace

Init ==
    /\ at = "group"
    /\ base = 1 /\ last = 0 /\ cursor = 1 /\ committed = 1
    /\ stopping = FALSE
    /\ mode = [c \in Calls |-> "none"]
    /\ body = [c \in Calls |-> "none"]
    /\ slot = [c \in Calls |-> "none"]
    /\ inFlight = {}
    /\ signal = FALSE
    /\ failed = FALSE
    /\ logged = {}
    \* the assistant message of the first step of the first turn
    /\ trace = Log!AfterMessage(Log!AfterStepStart(
                   Log!AfterTurnStart(Log!FreshTrace(0), 1), 1, 1), 1, 1)

Running == {c \in Calls : body[c] = "running"}

\* Fault: a call is recorded under the next one's place.
AppendCallOffByOne(c) ==
    /\ logged' = logged \cup {c + 1}
    /\ trace' = Log!AfterToolCall(trace, trace.openTurn, trace.openStep, c)

\* Fault: the call itself is not recorded.
AppendNoCall(c) == UNCHANGED log

AppendCall(c) ==
    /\ logged' = logged \cup {c}
    /\ trace' = Log!AfterToolCall(trace, trace.openTurn, trace.openStep, c)

\* Fault: results are recorded as the bodies settle.
AppendLatestResult(c) ==
    /\ LET settled == {d \in trace.pending : slot[d] # "none"}
           latest == CHOOSE d \in settled \cup {c} : \A e \in settled : e <= d
       IN trace' = Log!AfterToolResult(trace, trace.openTurn, trace.openStep, latest)
    /\ UNCHANGED logged

AppendResult(c) ==
    /\ trace' = Log!AfterToolResult(trace, trace.openTurn, trace.openStep, c)
    /\ UNCHANGED logged

-----------------------------------------------------------------------------
(* The environment.  It acts while the scheduler waits, and an observer of *)
(* an append may abort; between a check of the signal and the start of the *)
(* next call nothing else runs.                                            *)

Waits == at # "fill"

Abort ==
    /\ ~signal
    /\ Waits
    /\ at \notin {"done", "thrown"}
    /\ signal' = TRUE
    /\ UNCHANGED <<at, group, pool, failed, log>>

\* A body settles with an outcome that post-execute hooks see, or not.
Settle(c) ==
    /\ Waits
    /\ body[c] = "running"
    /\ body' = [body EXCEPT ![c] = "settled"]
    /\ \E kind \in {"post", "final"} : slot' = [slot EXCEPT ![c] = kind]
    /\ UNCHANGED <<at, group, mode, inFlight, signal, failed, log>>

\* A dispatch rejects, which no tool error does: the scheduler itself failed.
DispatchFails(c) ==
    /\ Waits
    /\ body[c] = "running"
    /\ body' = [body EXCEPT ![c] = "settled"]
    /\ failed' = TRUE
    /\ UNCHANGED <<at, group, mode, slot, inFlight, signal, log>>

-----------------------------------------------------------------------------
(* executeToolCalls: the next group is one exclusive call, or all that     *)
(* are left.                                                               *)

NextGroup ==
    /\ at = "group"
    /\ cursor \in Calls
    /\ \E m \in {"parallel", "exclusive"} :
           /\ mode' = [mode EXCEPT ![cursor] = m]
           /\ last' = IF m = "parallel" THEN N ELSE cursor
    /\ base' = cursor
    /\ committed' = cursor
    /\ stopping' = signal
    /\ at' = "fill"
    /\ UNCHANGED <<cursor, body, slot, inFlight, signal, failed, log>>

Finish ==
    /\ at = "group"
    /\ cursor = N + 1
    /\ at' = "done"
    /\ UNCHANGED <<group, pool, signal, failed, log>>

-----------------------------------------------------------------------------
(* fillPool and startCall.                                                 *)

HasRoom == Cardinality(inFlight) < MaxParallel

MayStart == ~stopping /\ cursor <= last /\ HasRoom

\* Later calls of a pool are classified again.
Reads(m) == IF cursor = base THEN m = mode[base] ELSE m \in {"parallel", "exclusive"}

\* Fault: a pool keeps the classification it started with.
AlwaysJoins(m) == TRUE

Joins(m) == cursor = base \/ m = "parallel"

Start ==
    /\ at = "fill"
    /\ MayStart
    /\ \E m \in {"parallel", "exclusive"} :
           /\ Reads(m) /\ Joins(m)
           /\ mode' = [mode EXCEPT ![cursor] = m]
    /\ AppendCall(cursor)
    /\ at' = "prepare"
    /\ UNCHANGED <<group, body, slot, inFlight, signal, failed>>

\* Fault: the pool is awaited although it is empty.
AlwaysRaces == "race"

Rest == IF inFlight = {} THEN "leave" ELSE "race"

\* A call now exclusive waits for the pool to drain, and so does a full pool.
Full ==
    /\ at = "fill"
    /\ \/ ~MayStart
       \/ \E m \in {"parallel", "exclusive"} : Reads(m) /\ ~Joins(m)
    /\ at' = Rest
    /\ UNCHANGED <<group, pool, signal, failed, log>>

\* The policy hooks decide: dispatch the body, or settle the call without it.
Dispatches == body' = [body EXCEPT ![cursor] = "running"]
              /\ inFlight' = inFlight \cup {cursor}
              /\ UNCHANGED slot

Decides == /\ \E kind \in {"post", "final"} : slot' = [slot EXCEPT ![cursor] = kind]
           /\ UNCHANGED <<body, inFlight>>

\* Fault: the failure is not looked at after the hooks.
DispatchesAnyway == TRUE

MayDispatch == ~failed

Prepared ==
    /\ at = "prepare"
    /\ MayDispatch
    /\ Dispatches \/ Decides
    /\ cursor' = cursor + 1
    /\ at' = "commit"
    /\ UNCHANGED <<base, last, committed, stopping, mode, signal, failed, log>>

\* The hooks throw, or a dispatch failed while they ran.
PrepareThrows ==
    /\ at = "prepare"
    /\ failed' = TRUE
    /\ at' = "drain"
    /\ UNCHANGED <<group, pool, signal, log>>

-----------------------------------------------------------------------------
(* commitReady: results in model order, as far as they are ready.          *)

Ready == committed <= last /\ slot[committed] # "none"

\* A result that post-execute hooks see waits for them.
Finalize ==
    /\ at = "commit"
    /\ Ready
    /\ slot[committed] = "post"
    /\ at' = "finalize"
    /\ UNCHANGED <<group, pool, signal, failed, log>>

Commit ==
    /\ \/ at = "commit" /\ Ready /\ slot[committed] = "final"
       \/ at = "finalize"
    /\ AppendResult(committed)
    /\ committed' = committed + 1
    /\ at' = "commit"
    /\ UNCHANGED <<base, last, cursor, stopping, pool, signal, failed>>

FinalizeThrows ==
    /\ at = "finalize"
    /\ failed' = TRUE
    /\ at' = "drain"
    /\ UNCHANGED <<group, pool, signal, log>>

Stops == stopping \/ signal

Committed ==
    /\ at = "commit"
    /\ ~Ready
    /\ IF failed
       THEN at' = "drain" /\ UNCHANGED stopping
       ELSE at' = "fill" /\ stopping' = Stops
    /\ UNCHANGED <<base, last, cursor, committed, pool, signal, failed, log>>

-----------------------------------------------------------------------------
(* The rest of runGroup.                                                   *)

Race ==
    /\ at = "race"
    /\ \E c \in inFlight :
           /\ body[c] = "settled"
           /\ inFlight' = inFlight \ {c}
    /\ at' = IF failed THEN "drain" ELSE "commit"
    /\ UNCHANGED <<group, mode, body, slot, signal, failed, log>>

\* Fault: the failure is thrown at once.
NotDrained == TRUE

\* The first failure is thrown once every started body has settled.
Drained == \A c \in inFlight : body[c] = "settled"

Throw ==
    /\ at = "drain"
    /\ Drained
    /\ at' = "thrown"
    /\ UNCHANGED <<group, pool, signal, failed, log>>

Leave ==
    /\ at = "leave"
    /\ at' = IF stopping THEN "skip" ELSE "group"
    /\ UNCHANGED <<group, pool, signal, failed, log>>

\* After an abort every call that was not started gets a call and a result.
SkipCall ==
    /\ at = "skip"
    /\ cursor \in Calls
    /\ AppendCall(cursor)
    /\ at' = "skipped"
    /\ UNCHANGED <<group, pool, signal, failed>>

SkipResult ==
    /\ at = "skipped"
    /\ AppendResult(cursor)
    /\ cursor' = cursor + 1
    /\ at' = "skip"
    /\ UNCHANGED <<base, last, committed, stopping, pool, signal, failed>>

SkippedAll ==
    /\ at = "skip"
    /\ cursor = N + 1
    /\ at' = "done"
    /\ UNCHANGED <<group, pool, signal, failed, log>>

-----------------------------------------------------------------------------
Scheduler ==
    \/ NextGroup \/ Finish \/ Start \/ Full \/ Prepared \/ PrepareThrows
    \/ Finalize \/ Commit \/ FinalizeThrows \/ Committed
    \/ Race \/ Throw \/ Leave \/ SkipCall \/ SkipResult \/ SkippedAll

Bodies == \E c \in Calls : Settle(c) \/ DispatchFails(c)

Next == Abort \/ Bodies \/ Scheduler

Spec == Init /\ [][Next]_vars

\* Hooks and bodies settle, and the scheduler runs on: a body that ignores the
\* signal for ever would block the step.
LiveSpec == Spec /\ WF_vars(Scheduler) /\ \A c \in Calls : WF_vars(Settle(c) \/ DispatchFails(c))

-----------------------------------------------------------------------------
(* Properties.                                                             *)

\* Every variable has its type: the scheduler's cursors stay within the group,
\* and the log's bookkeeping within the calls of the step.
TypeOK ==
    /\ at \in {"group", "fill", "prepare", "commit", "finalize", "race", "drain",
               "leave", "skip", "skipped", "done", "thrown"}
    /\ base \in 1 .. N + 1 /\ last \in 0 .. N
    /\ cursor \in 1 .. N + 1 /\ committed \in 1 .. N + 1
    /\ stopping \in BOOLEAN
    /\ mode \in [Calls -> {"none", "parallel", "exclusive"}]
    /\ body \in [Calls -> {"none", "running", "settled"}]
    /\ slot \in [Calls -> {"none", "post", "final"}]
    /\ inFlight \in SUBSET Calls
    /\ signal \in BOOLEAN /\ failed \in BOOLEAN
    /\ logged \in SUBSET Calls
    /\ trace \in Log!Trace

\* A call that was exclusive when it started never overlaps another body
\* (README of agent-loop, "exclusive calls form barriers").
ExclusiveRunsAlone ==
    \A c \in Running : mode[c] = "exclusive" => Running = {c}

\* The pool never holds more than maxParallelToolCalls bodies.
PoolIsBounded == Cardinality(Running) <= MaxParallel

\* However calls are reclassified while the pool is refilled, exclusive calls are
\* barriers and the pool keeps its limit.
BodiesKeepApart == ExclusiveRunsAlone /\ PoolIsBounded

\* The scheduler returns only with a call and a result for every call the model
\* asked for, aborted or not; it throws only when it failed; and either way no
\* body outlives it.
NothingOutlivesTheStep ==
    /\ at = "done" => logged = Calls /\ trace.pending = {} /\ ~failed
    /\ at = "thrown" => failed
    /\ at \in {"done", "thrown"} => Running = {}

\* Each event the scheduler appends is one the log allows: a call in the open
\* step, or the result of a call that is recorded there.
LogAllows == [][\E c \in Calls : Log!ToolCall(c) \/ Log!ToolResult(c)]_trace

\* Results are recorded in model order, whatever order the bodies settle in: the
\* call answered is the oldest of those recorded and not answered.
ResultsInModelOrder ==
    [][\A c \in trace.pending \ trace'.pending : \A d \in trace.pending : c <= d]_trace

\* Once the scheduler failed no body starts any more, also when the failure
\* came while the policy hooks of the next call ran.
FailureStartsNothing ==
    [][failed => \A c \in Calls : body'[c] = "running" => body[c] = "running"]_vars

\* Once the signal is aborted no further call is started: the only calls still
\* recorded are those that get their synthetic result next.
AbortStartsNothing == [][signal /\ logged' # logged => at' = "skipped"]_vars

\* A step that failed or was aborted, at whatever await, starts nothing more.
StopStartsNothing == FailureStartsNothing /\ AbortStartsNothing

\* The step ends.
StepEnds == <>(at \in {"done", "thrown"})

\* Bodies stay within the pool, the barriers and the step.
BodiesAreContained == TypeOK /\ BodiesKeepApart /\ NothingOutlivesTheStep

\* Whatever order bodies settle, stop or fail in, what is recorded is in order
\* and nothing is started that should not be.
StepIsOrderly == LogAllows /\ ResultsInModelOrder /\ StopStartsNothing
=============================================================================
