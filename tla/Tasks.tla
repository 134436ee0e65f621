------------------------------- MODULE Tasks -------------------------------
(***************************************************************************)
(* The background-task registry (tasks/tasks-local/src/index.ts) and the   *)
(* task_output tool that reads it (tasks/tool-tasks/src/index.ts): tasks   *)
(* settle, are waited for, read and killed, and are swept away with their  *)
(* owner agent or with the service, in any order the event loop allows.    *)
(*                                                                         *)
(* The question is who learns of an outcome.  Settlement either sends the  *)
(* owner a notice or leaves the telling to a wait, a read or a kill, by    *)
(* marking the task reported; "told" records how each outcome was told.    *)
(***************************************************************************)
EXTENDS Naturals, FiniteSets

CONSTANTS
    TaskIds,
    Reads,       \* task_output calls
    Owners,      \* agents that own tasks
    Nobody,      \* the owner of an unowned task
    Service      \* the registry, as the subject of a disposal

ASSUME SubjectsAreDistinct == Nobody \notin Owners /\ Service \notin Owners \cup {Nobody}

VARIABLES
    status,      \* absent, running, stopping, or a terminal status
    work,        \* the producer: none, running, ended (done has resolved), over, orphaned
    owner,
    reported,
    told,        \* who has been told: notice, reader, killer
    store,       \* the records the registry keeps
    read,        \* each task_output call: at, task, final, cancelled
    phase,       \* disposal of an owner or of the service: idle, awaiting, done
    awaited      \* the tasks each disposal waits for

outcome == <<reported, told>>
disposal == <<phase, awaited>>
vars == <<status, work, owner, outcome, store, read, disposal>>

Terminal == {"completed", "killed", "failed"}
Live == {"running", "stopping"}
Disposers == Owners \cup {Service}

NoRead == [at |-> "none", task |-> Nobody, final |-> FALSE, cancelled |-> FALSE]

Init ==
    /\ status = [t \in TaskIds |-> "absent"]
    /\ work = [t \in TaskIds |-> "none"]
    /\ owner = [t \in TaskIds |-> Nobody]
    /\ reported = [t \in TaskIds |-> FALSE]
    /\ told = [t \in TaskIds |-> {}]
    /\ store = {}
    /\ read = [r \in Reads |-> NoRead]
    /\ phase = [d \in Disposers |-> "idle"]
    /\ awaited = [d \in Disposers |-> {}]

\* Fault: a starter that throws leaves its record behind.
StartLeavesRecord(t, o) ==
    /\ status[t] = "absent"
    /\ phase[Service] = "idle"
    /\ store' = store \cup {t}
    /\ UNCHANGED <<status, work, owner, outcome, read, disposal>>

\* A new task.  A disposing owner takes no effect, and a disposed registry is
\* withdrawn from its consumers.
Start(t, o) ==
    /\ status[t] = "absent"
    /\ phase[Service] = "idle"
    /\ o \in Owners => phase[o] = "idle"
    /\ status' = [status EXCEPT ![t] = "running"]
    /\ work' = [work EXCEPT ![t] = "running"]
    /\ owner' = [owner EXCEPT ![t] = o]
    /\ store' = store \cup {t}
    /\ UNCHANGED <<outcome, read, disposal>>

-----------------------------------------------------------------------------
(* Settlement.                                                             *)

WaitersOf(t) == {r \in Reads : read[r].task = t /\ read[r].at \in {"waiting", "resolved"}}

\* Fault: a wait that was aborted is still counted.
TakenOverForGood(t) == reported[t] \/ \E r \in Reads : read[r].task = t

\* A pending wait takes the outcome over: no notice is sent.
TakenOver(t) == reported[t] \/ WaitersOf(t) # {}

Noticed(t) == phase'[Service] = "idle" /\ ~TakenOver(t) /\ owner[t] \in Owners

\* Fault: the settlement releases one wait only.
ReleasedOne(settled) ==
    LET all == {r \in Reads : read[r].at = "waiting" /\ read[r].task \in settled}
        one == IF all = {} THEN {} ELSE {CHOOSE r \in all : TRUE}
    IN [r \in Reads |-> IF r \in one THEN [read[r] EXCEPT !.at = "resolved"] ELSE read[r]]

Released(settled) ==
    [r \in Reads |->
        IF read[r].at = "waiting" /\ read[r].task \in settled
        THEN [read[r] EXCEPT !.at = "resolved"] ELSE read[r]]

\* The first terminal outcome of each task of a set: who is told, who is released.
Announce(settled) ==
    /\ reported' = [t \in TaskIds |-> IF t \in settled THEN TakenOver(t) ELSE reported[t]]
    /\ told' = [t \in TaskIds |->
                   IF t \in settled /\ Noticed(t) THEN told[t] \cup {"notice"} ELSE told[t]]
    /\ read' = Released(settled)

\* Fault: a late outcome replaces the recorded one.
LastWins(t) == TRUE

FirstWins(t) == status[t] \notin Terminal

ProducerEnds(t) ==
    /\ work[t] \in {"running", "orphaned"}
    /\ work' = [work EXCEPT ![t] = "ended"]
    /\ UNCHANGED <<status, owner, outcome, store, read, disposal>>

\* The reaction to the producer's "done".
Settle(t, s) ==
    /\ work[t] = "ended"
    /\ work' = [work EXCEPT ![t] = "over"]
    /\ IF FirstWins(t)
       THEN status' = [status EXCEPT ![t] = s] /\ UNCHANGED disposal /\ Announce({t})
       ELSE UNCHANGED <<status, outcome, read, disposal>>
    /\ UNCHANGED <<owner, store>>

\* A cancel that throws changes nothing.
Kill(t) ==
    /\ t \in store /\ phase[Service] = "idle"
    /\ status' = [status EXCEPT ![t] = IF @ \in Terminal THEN @ ELSE "stopping"]
    /\ reported' = [reported EXCEPT ![t] = TRUE]
    /\ told' = [told EXCEPT ![t] = @ \cup {"killer"}]
    /\ UNCHANGED <<work, owner, store, read, disposal>>

-----------------------------------------------------------------------------
(* task_output: an optional wait, a read, and the tool result.             *)

At(r, at) == read' = [read EXCEPT ![r].at = at]

\* Without a wait, or with one that finds the task settled.
Poll(r, t) ==
    /\ read[r].at = "none"
    /\ t \in store /\ phase[Service] = "idle"
    /\ read' = [read EXCEPT ![r] = [NoRead EXCEPT !.at = "returned", !.task = t]]
    /\ UNCHANGED <<status, work, owner, outcome, store, disposal>>

Wait(r, t) ==
    /\ read[r].at = "none"
    /\ t \in store /\ phase[Service] = "idle"
    /\ status[t] \in Live
    /\ read' = [read EXCEPT ![r] = [NoRead EXCEPT !.at = "waiting", !.task = t]]
    /\ UNCHANGED <<status, work, owner, outcome, store, disposal>>

Timeout(r) ==
    /\ read[r].at = "waiting"
    /\ At(r, "resolved")
    /\ UNCHANGED <<status, work, owner, outcome, store, disposal>>

\* An abort leaves a live wait at once: a settlement that follows sends a notice.
AbortWait(r) ==
    /\ read[r].at = "waiting" /\ status[read[r].task] \in Live
    /\ At(r, "finished")
    /\ UNCHANGED <<status, work, owner, outcome, store, disposal>>

\* The wait returns to the tool.
Return(r) ==
    /\ read[r].at = "resolved"
    /\ At(r, "returned")
    /\ reported' = [reported EXCEPT ![read[r].task] = @ \/ status[read[r].task] \in Terminal]
    /\ UNCHANGED <<status, work, owner, told, store, disposal>>

\* The tool reads the task, if it is still there.
Read(r) ==
    LET t == read[r].task
        final == status[t] \in Terminal IN
    /\ read[r].at = "returned"
    /\ IF t \in store
       THEN /\ read' = [read EXCEPT ![r].at = "holding", ![r].final = final]
            /\ reported' = [reported EXCEPT ![t] = @ \/ final]
       ELSE At(r, "finished") /\ UNCHANGED reported
    /\ UNCHANGED <<status, work, owner, told, store, disposal>>

\* The tool result is committed, unless its caller was cancelled meanwhile:
\* then the registry of tools replaces it by "tool call aborted".
Deliver(r) ==
    LET t == read[r].task IN
    /\ read[r].at = "holding"
    /\ At(r, "finished")
    /\ told' = IF read[r].final /\ ~read[r].cancelled
               THEN [told EXCEPT ![t] = @ \cup {"reader"}] ELSE told
    /\ UNCHANGED <<status, work, owner, reported, store, disposal>>

\* The caller is cancelled after its wait was resolved.
LateCancel(r) ==
    /\ read[r].at \in {"resolved", "returned", "holding"}
    /\ read' = [read EXCEPT ![r].cancelled = TRUE]
    /\ UNCHANGED <<status, work, owner, outcome, store, disposal>>

-----------------------------------------------------------------------------
(* Disposal of an owner, or of the service.                                *)

TasksOf(d) == IF d = Service THEN store ELSE {t \in store : owner[t] = d}

\* Fault: a task whose cancel throws is left as it is.
ForcedNone(threw) == {}

\* A task whose cancel throws is recorded as failed.
Forced(threw) == threw

\* cancelForTeardown; "threw" are the tasks whose cancel throws.
Dispose(d, threw) ==
    LET mine == TasksOf(d)
        live == {t \in mine : status[t] \in Live} IN
    /\ phase[d] = "idle"
    /\ threw \subseteq live
    /\ phase' = [phase EXCEPT ![d] = "awaiting"]
    /\ awaited' = [awaited EXCEPT ![d] = mine]
    /\ status' = [t \in TaskIds |-> CASE t \in Forced(threw) -> "failed"
                                      [] t \in live \ threw -> "stopping"
                                      [] OTHER -> status[t]]
    /\ work' = [t \in TaskIds |-> IF t \in Forced(threw) /\ work[t] = "running"
                                  THEN "orphaned" ELSE work[t]]
    /\ Announce(Forced(threw))
    /\ UNCHANGED <<owner, store>>

AllSettled(d) == \A t \in awaited[d] : status[t] \in Terminal

Sweep(d) ==
    /\ phase[d] = "awaiting"
    /\ AllSettled(d)
    /\ phase' = [phase EXCEPT ![d] = "done"]
    /\ store' = IF d = Service THEN {} ELSE store \ awaited[d]
    /\ UNCHANGED <<status, work, owner, outcome, read, awaited>>

-----------------------------------------------------------------------------

Next ==
    \/ \E t \in TaskIds : \/ \E o \in Owners \cup {Nobody} : Start(t, o)
                          \/ ProducerEnds(t)
                          \/ \E s \in Terminal : Settle(t, s)
                          \/ Kill(t)
    \/ \E r \in Reads : \/ \E t \in TaskIds : Poll(r, t) \/ Wait(r, t)
                        \/ Timeout(r) \/ AbortWait(r) \/ Return(r)
                        \/ Read(r) \/ Deliver(r) \/ LateCancel(r)
    \/ \E d \in Disposers : Sweep(d) \/ \E threw \in SUBSET TaskIds : Dispose(d, threw)

Spec == Init /\ [][Next]_vars

-----------------------------------------------------------------------------
(* Properties.                                                             *)

\* Every variable has its type.
TypeOK ==
    /\ status \in [TaskIds -> {"absent"} \cup Live \cup Terminal]
    /\ work \in [TaskIds -> {"none", "running", "ended", "over", "orphaned"}]
    /\ owner \in [TaskIds -> Owners \cup {Nobody}]
    /\ reported \in [TaskIds -> BOOLEAN]
    /\ told \in [TaskIds -> SUBSET {"notice", "reader", "killer"}]
    /\ store \subseteq {t \in TaskIds : status[t] # "absent"}
    /\ read \in [Reads -> [at : {"none", "waiting", "resolved", "returned", "holding", "finished"},
                           task : TaskIds \cup {Nobody},
                           final : BOOLEAN, cancelled : BOOLEAN]]
    /\ phase \in [Disposers -> {"idle", "awaiting", "done"}]
    /\ awaited \in [Disposers -> SUBSET TaskIds]

\* A read that will still tell its caller of the outcome of t.
WillTell(r, t) ==
    /\ read[r].task = t /\ ~read[r].cancelled
    /\ \/ read[r].at \in {"resolved", "returned"}
       \/ read[r].at = "holding" /\ read[r].final

\* The outcome is due to an owner that is still there.
Due(t) ==
    /\ status[t] \in Terminal
    /\ owner[t] \in Owners /\ phase[owner[t]] = "idle" /\ phase[Service] = "idle"

\* The owner has a notice, has asked for the kill, has read the outcome, or is
\* about to.
Reached(t) == told[t] # {} \/ \E r \in Reads : WillTell(r, t)

\* The outcome of an owned task is never lost between the notice and the waits
\* that suppress it, timeouts and aborts of those waits included, unless a
\* caller is cancelled after its wait was resolved.
OutcomeReachesOwner ==
    \A t \in TaskIds :
        Due(t) => Reached(t) \/ \E r \in Reads : read[r].task = t /\ read[r].cancelled

\* The same without the exception: a notice suppressed for a waiter is delivered
\* by that waiter (tasks-local/src/index.ts:194, tasks/src/index.ts:112-113).
SuppressedNoticeIsDelivered == \A t \in TaskIds : Due(t) => Reached(t)

\* No wait is left behind by a settlement.
SettlementReleasesWaits ==
    \A r \in Reads : read[r].at = "waiting" => status[read[r].task] \in Live

\* When an owner or the service is gone, so is the work of its tasks, except
\* where a throwing cancel had the record forced to failed.
DisposedIsQuiet ==
    \A d \in Disposers : phase[d] = "done" =>
        \A t \in awaited[d] : work[t] # "running" /\ t \notin store

\* Settlement is first-wins: a late outcome neither replaces the recorded one
\* nor sends a second notice.
OutcomeIsFinal ==
    [][\A t \in TaskIds : status[t] \in Terminal =>
          status'[t] = status[t] /\ ("notice" \in told'[t] => "notice" \in told[t])]_vars

\* Disposal never waits for nothing: every task it waits for is settled, or has
\* been told to stop and its producer is still to report, whatever cancels
\* threw and whatever another disposal, a kill or a wait did meanwhile.
DisposalIsServed ==
    \A d \in Disposers : phase[d] = "awaiting" =>
        \A t \in awaited[d] :
            \/ status[t] \in Terminal
            \/ status[t] = "stopping" /\ work[t] \in {"running", "ended"}

\* A teardown waits for what it must and for nothing else.
TeardownIsSound == DisposedIsQuiet /\ DisposalIsServed

\* Nobody is left behind by a settlement or a teardown: no wait, no producer,
\* no disposal.
NobodyIsLeft == TypeOK /\ SettlementReleasesWaits /\ TeardownIsSound
=============================================================================
