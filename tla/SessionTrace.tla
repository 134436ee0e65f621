---------------------------- MODULE SessionTrace ----------------------------
(***************************************************************************)
(* What a session log promises every reader: the relational rules that the *)
(* session invariant companion checks before an event commits              *)
(* (core/session/src/invariant.ts, validateEvent).  The components that    *)
(* append to a log are shown to implement this specification.              *)
(*                                                                         *)
(* The events themselves are not kept.  "trace" is the companion's own     *)
(* bookkeeping (SessionTrace), plus the coordinates of the last event.     *)
(***************************************************************************)
EXTENDS Naturals

CONSTANT Calls          \* the tool-call identities of a session

VARIABLE trace

\* No turn or step is open: turns and steps are numbered from one.
None == 0

NoEvent == [type |-> "none", turn |-> None, step |-> None]

Types == {"none", "turn/start", "turn/end", "step/start", "step/end",
          "assistant/message", "tool/call", "tool/result"}

Trace == [openTurn : Nat, openStep : Nat, nextTurn : Nat, nextStep : Nat,
          pending : SUBSET Calls,
          last : [type : Types, turn : Nat, step : Nat]]

\* The bookkeeping of a log whose first n turns are closed.
FreshTrace(n) ==
    [openTurn |-> None, openStep |-> None, nextTurn |-> n + 1, nextStep |-> 1,
     pending |-> {}, last |-> NoEvent]

-----------------------------------------------------------------------------
(* The fold: what each event does to the bookkeeping, valid or not.        *)

Event(type, n, s) == [type |-> type, turn |-> n, step |-> s]

AfterTurnStart(tr, n) ==
    [tr EXCEPT !.openTurn = n, !.nextStep = 1, !.last = Event("turn/start", n, None)]

AfterTurnEnd(tr, n) ==
    [tr EXCEPT !.openTurn = None, !.nextTurn = @ + 1, !.last = Event("turn/end", n, None)]

AfterStepStart(tr, n, s) ==
    [tr EXCEPT !.openStep = s, !.last = Event("step/start", n, s)]

AfterStepEnd(tr, n, s) ==
    [tr EXCEPT !.openStep = None, !.nextStep = @ + 1, !.pending = {},
               !.last = Event("step/end", n, s)]

AfterMessage(tr, n, s) ==
    [tr EXCEPT !.last = Event("assistant/message", n, s)]

AfterToolCall(tr, n, s, c) ==
    [tr EXCEPT !.pending = @ \cup {c}, !.last = Event("tool/call", n, s)]

AfterToolResult(tr, n, s, c) ==
    [tr EXCEPT !.pending = @ \ {c}, !.last = Event("tool/result", n, s)]

-----------------------------------------------------------------------------
(* The steps of a well-formed log.                                         *)

TurnStart ==
    /\ trace.openTurn = None
    /\ trace' = AfterTurnStart(trace, trace.nextTurn)

TurnEnd ==
    /\ trace.openTurn # None
    /\ trace.openStep = None
    /\ trace' = AfterTurnEnd(trace, trace.openTurn)

StepStart ==
    /\ trace.openTurn # None
    /\ trace.openStep = None
    /\ trace' = AfterStepStart(trace, trace.openTurn, trace.nextStep)

StepEnd ==
    /\ trace.openStep # None
    /\ trace' = AfterStepEnd(trace, trace.openTurn, trace.openStep)

AssistantMessage ==
    /\ trace.openStep # None
    /\ trace' = AfterMessage(trace, trace.openTurn, trace.openStep)

ToolCall(c) ==
    /\ trace.openStep # None
    /\ trace' = AfterToolCall(trace, trace.openTurn, trace.openStep, c)

\* A result answers a call recorded in the open step ...
ToolResult(c) ==
    /\ trace.openStep # None
    /\ c \in trace.pending
    /\ trace' = AfterToolResult(trace, trace.openTurn, trace.openStep, c)

\* ... or says that the call was never started (TOOL_NOT_STARTED).
NotStarted(c) ==
    /\ trace.openStep # None
    /\ trace' = AfterToolResult(trace, trace.openTurn, trace.openStep, c)

Next ==
    \/ TurnStart \/ TurnEnd \/ StepStart \/ StepEnd \/ AssistantMessage
    \/ \E c \in Calls : ToolCall(c) \/ ToolResult(c) \/ NotStarted(c)

\* Every turn of the log a session starts from is closed.
Init ==
    /\ trace.nextTurn \in Nat \ {0}
    /\ trace = FreshTrace(trace.nextTurn - 1)

Spec == Init /\ [][Next]_trace
=============================================================================
