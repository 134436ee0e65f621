------------------------------ MODULE Workflow ------------------------------
(***************************************************************************)
(* One workflow run: the script in a worker thread, the host that owns its *)
(* outcome and its child agents, the two message channels between them,    *)
(* and the subagent provider (packages/workflow/workflow-workerthread).    *)
(*                                                                         *)
(* An agent() call of the script and the child call that serves it carry   *)
(* the same name, a member of Agents.  Each side is single threaded: one   *)
(* step is one macrotask with the promise continuations it releases.  The  *)
(* script itself runs only in the task that released it: it is awake until *)
(* it parks on a promise or settles.  Prompts, results and reasons are     *)
(* left out; the narration of phase() and log() too.                       *)
(***************************************************************************)
EXTENDS Naturals, FiniteSets, Sequences

CONSTANTS Agents,   \* the agent() calls the script may make
          Limits    \* what limits.maxConcurrentAgents may be

\* A run is refused its calls beyond limits.maxTotalAgents, a backstop that is
\* always finite.
ASSUME WorkflowAssumption == Limits \subseteq Nat \ {0} /\ IsFiniteSet(Agents)

VARIABLES
    limit,       \* this run's limits.maxConcurrentAgents
    cancelled,   \* host cancelReason is set
    claimed,     \* terminalClaimed, with the source that claimed
    outcome,     \* the stop reason `result` settled with
    graceArmed,  \* graceTimer is running
    aborted,     \* the signal every child start carries has fired
    death,       \* workerDeathObserved, then workerGone
    child,       \* pendingStarts and children, by call
    ackOwed,     \* dispose requests that joined a disposal under way
    reported,    \* children whose result was forwarded
    ledger,      \* liveAgents
    disposal,    \* progress of the holder's dispose()
    overran,     \* dispose() gave up waiting for its children
    starts, ends, \* agent-start and agent-end events forwarded, by call
    up, down,    \* messages to the host, to the worker
    thread,      \* the worker thread, as the operating system sees it
    script,      \* progress of drive()
    awake,       \* script code is running
    told,        \* worker-side cancelReason is set
    call,        \* progress of each agent() call
    queue,       \* slotWaiters
    active       \* activeSlots

hostVars   == <<cancelled, claimed, outcome, graceArmed, aborted, death,
                child, ackOwed, reported, ledger, disposal, overran, starts, ends>>
workerVars == <<script, awake, told, call, queue, active, limit>>
vars       == <<hostVars, workerVars, up, down, thread>>

Pending == {"starting", "live", "disposing", "unwinding"}  \* what childQuiescence waits for
Holding == {"asked", "running", "closing"}                 \* the calls between acquire and release

Msg(type, a) == [type |-> type, about |-> a]
Signal(type) == [type |-> type, about |-> "run"]

Init ==
    /\ limit \in Limits
    /\ cancelled = FALSE /\ claimed = "none" /\ outcome = "none"
    /\ graceArmed = FALSE /\ aborted = FALSE /\ death = "no"
    /\ child = [a \in Agents |-> "none"] /\ ackOwed = {} /\ reported = {}
    /\ ledger = {} /\ disposal = "no" /\ overran = FALSE
    /\ starts = [a \in Agents |-> 0] /\ ends = [a \in Agents |-> 0]
    /\ up = <<Signal("ready")>> /\ down = <<>>
    /\ thread = "up" /\ script = "gated" /\ awake = FALSE /\ told = FALSE
    /\ call = [a \in Agents |-> "idle"] /\ queue = <<>> /\ active = 0

-----------------------------------------------------------------------------
(* The worker: runtime.ts and session.ts.                                  *)

Running == thread # "crashed" /\ death # "exited"

\* agent(): take a free slot and ask the host for a child, or wait in line.
\* A cancelled script's hooks throw, which changes nothing.
ScriptCalls(a) ==
    /\ Running /\ awake /\ ~told /\ call[a] = "idle"
    /\ IF active < limit
       THEN /\ active' = active + 1
            /\ call' = [call EXCEPT ![a] = "asked"]
            /\ up' = Append(up, Msg("childStart", a))
            /\ UNCHANGED queue
       ELSE /\ queue' = Append(queue, a)
            /\ call' = [call EXCEPT ![a] = "queued"]
            /\ UNCHANGED <<active, up>>
    /\ UNCHANGED <<hostVars, down, thread, script, awake, told, limit>>

\* The script awaits something; nothing says that it will ever come.
ScriptParks ==
    /\ Running /\ awake /\ awake' = FALSE
    /\ UNCHANGED <<hostVars, up, down, thread, script, told, call, queue, active, limit>>

\* drive() resolves and the session posts its one result.  Calls that the
\* script did not await go on.
ScriptSettles ==
    /\ Running /\ awake /\ script = "running"
    /\ script' = "ended"
    /\ \E reason \in IF told THEN {"cancelled"} ELSE {"completed", "error"} :
          up' = Append(up, Msg("result", reason))
    /\ UNCHANGED <<hostVars, down, thread, awake, told, call, queue, active, limit>>

\* Fault: a released slot is given up without a look at the waiters.
ReleaseForgetsWaiters(a) ==
    /\ awake' = TRUE /\ active' = active - 1
    /\ call' = [call EXCEPT ![a] = "done"] /\ UNCHANGED <<queue, up>>

\* releaseSlot() after call a: the first waiter takes the slot over and asks
\* for its child in the same task.
Release(a) ==
    /\ awake' = TRUE
    /\ IF queue = <<>>
       THEN /\ active' = active - 1
            /\ call' = [call EXCEPT ![a] = "done"]
            /\ UNCHANGED <<queue, up>>
       ELSE /\ queue' = Tail(queue)
            /\ call' = [call EXCEPT ![a] = "done", ![Head(queue)] = "asked"]
            /\ up' = Append(up, Msg("childStart", Head(queue)))
            /\ UNCHANGED active

\* go: the gate opens and the script's first slice runs.
GateOpens ==
    /\ script' = "running" /\ awake' = TRUE
    /\ UNCHANGED <<up, told, call, queue, active, limit>>

\* cancel(): the waiters are rejected; a gated script never runs its body.
WorkerIsTold ==
    /\ told' = TRUE /\ queue' = <<>>
    /\ call' = [a \in Agents |-> IF call[a] = "queued" THEN "done" ELSE call[a]]
    /\ awake' = (queue # <<>>)
    /\ script' = IF script = "gated" THEN "ended" ELSE script
    /\ up' = IF script = "gated" THEN Append(up, Msg("result", "cancelled")) ELSE up
    /\ UNCHANGED <<active, limit>>

\* The continuation of startAgent(): narrate the child and await its result.
\* The host starts nothing behind its own cancel, so the branch that winds
\* down a child which arrives after the cancel is not taken over this channel.
CallStarts(a) ==
    /\ IF told
       THEN call' = [call EXCEPT ![a] = "closing"] /\ up' = Append(up, Msg("childDispose", a))
       ELSE call' = [call EXCEPT ![a] = "running"] /\ up' = Append(up, Msg("agentStart", a))
    /\ UNCHANGED <<script, awake, told, queue, active, limit>>

\* The child's result: narrate the end, and ask for the disposal.
CallCollects(a) ==
    /\ IF call[a] = "running"
       THEN /\ call' = [call EXCEPT ![a] = "closing"]
            /\ up' = up \o <<Msg("agentEnd", a), Msg("childDispose", a)>>
       ELSE UNCHANGED <<call, up>>
    /\ UNCHANGED <<script, awake, told, queue, active, limit>>

WorkerReceives ==
    /\ Running /\ ~awake /\ down # <<>> /\ down' = Tail(down)
    /\ LET m == Head(down) IN
          \/ m.type = "go" /\ script = "gated" /\ GateOpens
          \/ m.type = "go" /\ script # "gated" /\ UNCHANGED <<workerVars, up>>
          \/ m.type = "cancel" /\ WorkerIsTold
          \/ m.type = "childStarted" /\ CallStarts(m.about)
          \/ m.type = "childResult" /\ CallCollects(m.about)
          \/ m.type \in {"childStartError", "childDisposed"}
                /\ Release(m.about) /\ UNCHANGED <<script, told, limit>>
    /\ UNCHANGED <<hostVars, thread>>

WorkerCrashes ==
    /\ thread = "up" /\ death = "no" /\ thread' = "crashed"
    /\ UNCHANGED <<hostVars, workerVars, up, down>>

-----------------------------------------------------------------------------
(* The host: host.ts.  Its handlers are built from these parts.            *)

\* post(): a dead worker is posted nothing.
Post(msgs) == down' = IF death = "no" THEN down \o msgs ELSE down

\* childAdmissionFailure()
Closed == cancelled \/ death # "no" \/ claimed # "none"

\* disposeChild() of every child in the registry.
Reaped(c) == [a \in Agents |-> IF c[a] = "live" THEN "disposing" ELSE c[a]]

\* endStrandedAgents(): every start still unpaired gets its end.
EndStranded ==
    /\ ends' = [a \in Agents |-> IF a \in ledger THEN ends[a] + 1 ELSE ends[a]]
    /\ ledger' = {}

\* settleResult()
Settle(reason) == outcome' = reason /\ graceArmed' = FALSE

\* The first lines of cancel(): is there a run left to cancel?
Cancellable == outcome = "none" /\ claimed = "none" /\ ~cancelled

Terminated == IF thread = "up" THEN "stopping" ELSE thread

\* Fault: cancel() leaves the grace timer unarmed.
CancelUnarmed ==
    IF Cancellable
    THEN cancelled' = TRUE /\ Post(<<Signal("cancel")>>) /\ UNCHANGED graceArmed
    ELSE UNCHANGED <<cancelled, graceArmed, down>>

\* cancel(): tell the worker and arm the grace timer; its callers go on to
\* abort the children.
Cancel ==
    IF Cancellable
    THEN cancelled' = TRUE /\ graceArmed' = TRUE /\ Post(<<Signal("cancel")>>)
    ELSE UNCHANGED <<cancelled, graceArmed, down>>

HolderCancels ==
    /\ Cancellable /\ Cancel /\ aborted' = TRUE
    /\ UNCHANGED <<claimed, outcome, death, child, ackOwed, reported, ledger,
                   disposal, overran, starts, ends, workerVars, up, thread>>

GraceExpires ==
    /\ graceArmed /\ claimed' = "grace"
    /\ EndStranded /\ Settle("cancelled") /\ thread' = Terminated
    /\ UNCHANGED <<cancelled, aborted, death, child, ackOwed, reported,
                   disposal, overran, starts, workerVars, up, down>>

\* Fault: a start is admitted whatever has been decided.
StartAlwaysAdmitted(a) ==
    /\ child' = [child EXCEPT ![a] = "starting"]
    /\ UNCHANGED <<cancelled, claimed, outcome, graceArmed, aborted, ackOwed,
                   ledger, starts, ends, down>>

\* onChildStart(): admit the start, or refuse it past a terminal boundary.
StartRequested(a) ==
    /\ IF Closed
       THEN Post(<<Msg("childStartError", a)>>) /\ UNCHANGED child
       ELSE child' = [child EXCEPT ![a] = "starting"] /\ UNCHANGED down
    /\ UNCHANGED <<cancelled, claimed, outcome, graceArmed, aborted, ackOwed,
                   ledger, starts, ends>>

\* onChildDispose(): a child no longer registered is acknowledged at once.
DisposeRequested(a) ==
    /\ IF child[a] \in {"live", "disposing"}
       THEN /\ child' = [child EXCEPT ![a] = "disposing"]
            /\ ackOwed' = ackOwed \cup {a} /\ UNCHANGED down
       ELSE Post(<<Msg("childDisposed", a)>>) /\ UNCHANGED <<child, ackOwed>>
    /\ UNCHANGED <<cancelled, claimed, outcome, graceArmed, aborted, ledger, starts, ends>>

StartNarrated(a) ==
    /\ ledger' = ledger \cup {a} /\ starts' = [starts EXCEPT ![a] = @ + 1]
    /\ UNCHANGED <<cancelled, claimed, outcome, graceArmed, aborted, child,
                   ackOwed, ends, down>>

\* Fault: an end is forwarded without a look at the ledger.
EndAlwaysForwarded(a) ==
    /\ ledger' = ledger \ {a} /\ ends' = [ends EXCEPT ![a] = @ + 1]
    /\ UNCHANGED <<cancelled, claimed, outcome, graceArmed, aborted, child,
                   ackOwed, starts, down>>

\* endAgent(): forward an end whose start is still unpaired.
EndNarrated(a) ==
    /\ ledger' = ledger \ {a}
    /\ ends' = IF a \in ledger THEN [ends EXCEPT ![a] = @ + 1] ELSE ends
    /\ UNCHANGED <<cancelled, claimed, outcome, graceArmed, aborted, child,
                   ackOwed, starts, down>>

\* Faults: the worker's result is reported as it came; and the children it
\* leaves behind are not disposed of.
ResultAsItCame(reason) ==
    /\ IF claimed = "none"
       THEN /\ claimed' = "result" /\ aborted' = TRUE /\ child' = Reaped(child)
            /\ Settle(reason)
       ELSE UNCHANGED <<claimed, aborted, child, outcome, graceArmed>>
    /\ UNCHANGED <<cancelled, ackOwed, ledger, starts, ends, down>>
ResultWithoutReap(reason) ==
    /\ IF claimed = "none"
       THEN /\ claimed' = "result" /\ aborted' = TRUE /\ UNCHANGED child
            /\ Settle(IF cancelled THEN "cancelled" ELSE reason)
       ELSE UNCHANGED <<claimed, aborted, child, outcome, graceArmed>>
    /\ UNCHANGED <<cancelled, ackOwed, ledger, starts, ends, down>>

\* onResult(): the first terminal source wins; an earlier cancel rewrites it.
ResultArrives(reason) ==
    /\ IF claimed = "none"
       THEN /\ claimed' = "result" /\ aborted' = TRUE /\ child' = Reaped(child)
            /\ Settle(IF cancelled THEN "cancelled" ELSE reason)
       ELSE UNCHANGED <<claimed, aborted, child, outcome, graceArmed>>
    /\ UNCHANGED <<cancelled, ackOwed, ledger, starts, ends, down>>

\* onMessage(): nothing is admitted behind the first sign of death.
HostReceives ==
    /\ up # <<>> /\ up' = Tail(up)
    /\ LET m == Head(up) IN
          IF death # "no" THEN UNCHANGED <<hostVars, down>>
          ELSE /\ \/ m.type = "ready" /\ Post(<<Signal("go")>>)
                     /\ UNCHANGED <<cancelled, claimed, outcome, graceArmed, aborted,
                                    child, ackOwed, ledger, starts, ends>>
                  \/ m.type = "childStart" /\ StartRequested(m.about)
                  \/ m.type = "childDispose" /\ DisposeRequested(m.about)
                  \/ m.type = "agentStart" /\ StartNarrated(m.about)
                  \/ m.type = "agentEnd" /\ EndNarrated(m.about)
                  \/ m.type = "result" /\ ResultArrives(m.about)
               /\ UNCHANGED <<death, reported, disposal, overran>>
    /\ UNCHANGED <<workerVars, thread>>

\* Fault: what was admitted is not asked again once the start has taken its time.
StartNotReconsidered(a) ==
    /\ child[a] = "starting" /\ child' = [child EXCEPT ![a] = "live"]
    /\ Post(<<Msg("childStarted", a)>>)
    /\ UNCHANGED <<cancelled, claimed, outcome, graceArmed, aborted, death, ackOwed,
                   reported, ledger, disposal, overran, starts, ends, workerVars, up, thread>>

\* startChild() after the provider's start fulfilled: admission is asked again.
StartFulfils(a) ==
    /\ child[a] = "starting"
    /\ child' = [child EXCEPT ![a] = IF Closed THEN "unwinding" ELSE "live"]
    /\ Post(<<Msg(IF Closed THEN "childStartError" ELSE "childStarted", a)>>)
    /\ UNCHANGED <<cancelled, claimed, outcome, graceArmed, aborted, death, ackOwed,
                   reported, ledger, disposal, overran, starts, ends, workerVars, up, thread>>

StartRejects(a) ==
    /\ child[a] = "starting" /\ child' = [child EXCEPT ![a] = "refused"]
    /\ Post(<<Msg("childStartError", a)>>)
    /\ UNCHANGED <<cancelled, claimed, outcome, graceArmed, aborted, death, ackOwed,
                   reported, ledger, disposal, overran, starts, ends, workerVars, up, thread>>

\* The child's result settles, whatever it is, and is forwarded; a result
\* behind the worker's death goes nowhere and is not modelled.
ChildReports(a) ==
    /\ death = "no" /\ child[a] \in {"live", "disposing", "disposed"} /\ a \notin reported
    /\ reported' = reported \cup {a}
    /\ Post(<<Msg("childResult", a)>>)
    /\ UNCHANGED <<cancelled, claimed, outcome, graceArmed, aborted, death, child, ackOwed,
                   ledger, disposal, overran, starts, ends, workerVars, up, thread>>

\* The provider's dispose() settles: the registry entry leaves and the
\* worker's request, if it made one, is acknowledged.
DisposalEnds(a) ==
    /\ \/ /\ child[a] = "disposing" /\ child' = [child EXCEPT ![a] = "disposed"]
          /\ IF a \in ackOwed THEN Post(<<Msg("childDisposed", a)>>) ELSE UNCHANGED down
       \/ child[a] = "unwinding" /\ child' = [child EXCEPT ![a] = "refused"] /\ UNCHANGED down
    /\ UNCHANGED <<cancelled, claimed, outcome, graceArmed, aborted, death, ackOwed,
                   reported, ledger, disposal, overran, starts, ends, workerVars, up, thread>>

\* Fault: a death leaves the stranded agents open.
DeathWithoutEnds ==
    /\ aborted' = (aborted \/ \E a \in Agents : child[a] \in Pending)
    /\ child' = Reaped(child)
    /\ IF claimed = "none"
       THEN claimed' = "death" /\ Settle(IF cancelled THEN "cancelled" ELSE "error")
       ELSE UNCHANGED <<claimed, outcome, graceArmed>>
    /\ UNCHANGED <<ends, ledger>>

\* onWorkerDeath(): the first sign claims an unclaimed run and cleans up.
FirstDeath ==
    /\ aborted' = (aborted \/ \E a \in Agents : child[a] \in Pending)
    /\ child' = Reaped(child)
    /\ EndStranded
    /\ IF claimed = "none"
       THEN claimed' = "death" /\ Settle(IF cancelled THEN "cancelled" ELSE "error")
       ELSE UNCHANGED <<claimed, outcome, graceArmed>>

\* The thread's error event.
ErrorSeen ==
    /\ thread = "crashed" /\ death = "no" /\ death' = "seen" /\ FirstDeath
    /\ UNCHANGED <<cancelled, ackOwed, reported, disposal, overran, starts,
                   workerVars, up, down, thread>>

\* The thread's exit event: the last sweep.  The thread's memory and what it
\* had not delivered are gone.
ThreadExits ==
    /\ thread \in {"crashed", "stopping"} /\ death # "exited" /\ death' = "exited"
    /\ IF death = "no" THEN FirstDeath
       ELSE child' = Reaped(child) /\ EndStranded
            /\ UNCHANGED <<claimed, outcome, graceArmed, aborted>>
    /\ up' = <<>> /\ down' = <<>> /\ queue' = <<>> /\ active' = 0
    /\ script' = "ended" /\ awake' = FALSE /\ told' = FALSE
    /\ call' = [a \in Agents |-> "done"]
    /\ UNCHANGED <<cancelled, ackOwed, reported, disposal, overran, starts, thread, limit>>

\* dispose(): cancel, and dispose of every child without waiting for the worker.
HolderDisposes ==
    /\ disposal = "no" /\ disposal' = "waiting"
    /\ Cancel /\ aborted' = TRUE /\ child' = Reaped(child)
    /\ UNCHANGED <<claimed, outcome, death, ackOwed, reported, ledger, overran,
                   starts, ends, workerVars, up, thread>>

\* ... wait for the result and the children, at most for the grace ...
DisposeWaits ==
    /\ disposal = "waiting" /\ disposal' = "closing" /\ thread' = Terminated
    /\ \/ outcome # "none" /\ (\A a \in Agents : child[a] \notin Pending) /\ UNCHANGED overran
       \/ overran' = TRUE
    /\ UNCHANGED <<cancelled, claimed, outcome, graceArmed, aborted, death, child, ackOwed,
                   reported, ledger, starts, ends, workerVars, up, down>>

\* ... terminate the worker, and sweep what is left.
DisposeEnds ==
    /\ disposal = "closing" /\ death = "exited" /\ disposal' = "done"
    /\ child' = Reaped(child) /\ aborted' = TRUE
    /\ UNCHANGED <<cancelled, claimed, outcome, graceArmed, death, ackOwed, reported,
                   ledger, overran, starts, ends, workerVars, up, down, thread>>

WorkerSteps == WorkerReceives \/ ScriptParks \/ ScriptSettles \/ \E a \in Agents : ScriptCalls(a)

ProviderSteps(a) == StartFulfils(a) \/ StartRejects(a) \/ ChildReports(a) \/ DisposalEnds(a)

Next ==
    \/ WorkerSteps
    \/ WorkerCrashes \/ ErrorSeen \/ ThreadExits
    \/ HolderCancels \/ HolderDisposes \/ DisposeWaits \/ DisposeEnds
    \/ GraceExpires \/ HostReceives
    \/ \E a \in Agents : ProviderSteps(a)

\* Timers fire, the host's event loop turns, a terminated or crashed thread
\* exits, and dispose() goes on.  Nothing is asked of the script.
HostFairness ==
    WF_vars(GraceExpires) /\ WF_vars(ThreadExits) /\ WF_vars(DisposeWaits)
        /\ WF_vars(DisposeEnds)

\* The provider settles the starts and disposals it was given, as the
\* subagent seam asks of it.
ProviderFairness ==
    \A a \in Agents : WF_vars(StartFulfils(a) \/ StartRejects(a)) /\ WF_vars(DisposalEnds(a))

Spec == Init /\ [][Next]_vars
FairSpec == Spec /\ HostFairness /\ ProviderFairness

-----------------------------------------------------------------------------
(* Properties                                                              *)

\* Type correctness of the host's, the worker's and the channels' state.
TypeOK ==
    /\ limit \in Limits
    /\ {cancelled, graceArmed, aborted, overran, awake, told} \subseteq BOOLEAN
    /\ claimed \in {"none", "result", "death", "grace"}
    /\ outcome \in {"none", "completed", "error", "cancelled"}
    /\ death \in {"no", "seen", "exited"}
    /\ child \in [Agents -> Pending \cup {"none", "disposed", "refused"}]
    /\ ackOwed \subseteq Agents /\ reported \subseteq Agents /\ ledger \subseteq Agents
    /\ disposal \in {"no", "waiting", "closing", "done"}
    /\ starts \in [Agents -> 0..1] /\ ends \in [Agents -> 0..1]
    /\ thread \in {"up", "stopping", "crashed"} /\ script \in {"gated", "running", "ended"}
    /\ call \in [Agents -> Holding \cup {"idle", "queued", "done"}]
    /\ queue \in Seq(Agents) /\ active \in 0..Cardinality(Agents)

\* The outcome is honest across the two threads: a run whose cancellation was
\* accepted before anything else settled it is cancelled, even when the
\* script's own result was already on its way, and no other run is (host.ts
\* onResult and onWorkerDeath).
OutcomeIsHonest == outcome # "none" => ((outcome = "cancelled") <=> cancelled)

\* Every agent-start the host forwarded has at most one agent-end, exactly one
\* once the thread is gone, and has it before the run settles when the worker
\* could not speak any more (host.ts endAgent and endStrandedAgents).
EndsAreExact ==
    /\ \A a \in Agents : ends[a] = IF a \in ledger THEN starts[a] - 1 ELSE starts[a]
    /\ death # "no" => ledger = {}

\* The signal that every child shares aborts with the first terminal event,
\* and a child is started, or handed to the worker, only while it has not
\* (host.ts onChildStart, startChild and reapChildren).
NoLateChild ==
    [][\A a \in Agents :
          child'[a] # child[a] /\ child'[a] \in {"starting", "live"} => ~aborted]_vars

\* No child is left behind: past a result, a death or a dispose() the host
\* has every child's disposal under way, and a dispose() that did not run out
\* of time returns with none of them pending (host.ts reapChildren and
\* childQuiescence).
NoOrphans ==
    /\ claimed = "result" \/ death # "no" \/ disposal # "no" =>
          \A a \in Agents : child[a] # "live"
    /\ disposal = "done" /\ ~overran => \A a \in Agents : child[a] \notin Pending
    /\ disposal = "done" => outcome # "none"

\* Slots are neither lost nor leaked through refusals, cancels and results: the
\* counter is the number of calls past their acquire, within the limit, and
\* nobody waits beside a free slot (runtime.ts acquireSlot and releaseSlot).
SlotsAreExact ==
    /\ active = Cardinality({a \in Agents : call[a] \in Holding})
    /\ active <= limit
    /\ {queue[i] : i \in DOMAIN queue} = {a \in Agents : call[a] = "queued"}
    /\ queue # <<>> => active = limit

\* Stopping is bounded whatever the script does: a cancelled run settles, and
\* a dispose() returns with the thread gone (host.ts cancel and dispose).
StopsAreBounded ==
    /\ cancelled ~> outcome # "none"
    /\ disposal = "waiting" ~> disposal = "done" /\ death = "exited"

\* Every child of a run that has its outcome is wound down in the end (host.ts
\* reapChildren, startChild after a late fulfilment).
ChildrenEnd == claimed # "none" ~> \A a \in Agents : child[a] \notin Pending

\* The runtime trace checker's rule for the end of a run: no agent call is open
\* at workflow/end (workflow/src/invariant.ts validateWorkflowEnd).
EndClosesEveryPair == [][outcome = "none" /\ outcome' # "none" => ledger' = {}]_vars

\* The report of a run is honest: its outcome and the pairing of its events,
\* whichever of the two threads, or the death of one, settles it.
ReportIsHonest == TypeOK /\ OutcomeIsHonest /\ EndsAreExact

\* Neither a child nor a slot is lost between the two threads.
ChildrenAreKept == NoOrphans /\ SlotsAreExact

\* Runs, disposals and children all come to an end.
RunsEnd == StopsAreBounded /\ ChildrenEnd
=============================================================================
