------------------------------ MODULE WritePath ------------------------------
(***************************************************************************)
(* The durable write path of one live session: the write controller that   *)
(* batches its events (session-persistence/src/write-behind.ts) and the    *)
(* part of the persistence coordinator that initialises storage for it,    *)
(* writes the batches, answers flushes, retires the session and closes the *)
(* backend (session-persistence/src/coordinator.ts).                       *)
(*                                                                         *)
(* An action is what one job of the event loop does; a job ends where the  *)
(* code awaits the backend, the initialisation or another promise.  Timer  *)
(* callbacks, backend completions, producers, flushers, disposal and       *)
(* teardown interleave freely.  An event is its birth number; its sequence *)
(* number is its place in the log, counted from zero as the code does.     *)
(***************************************************************************)
EXTENDS Naturals, Sequences, FiniteSets

CONSTANTS
    MaxEvents,      \* events ever created, the seed included
    MaxFailures,    \* backend operations that may fail
    MaxRewinds,     \* rewinds a user may ask for
    Seeds,          \* the lengths of the log a session starts with
    Callers,        \* callers of session/flush
    Admitted        \* schedules admitted besides the ordinary ones

\* "busy-rewind"     a rewind of a log that is not wholly durable and quiet
\* "rewind-to-start" a rewind that keeps no event
Schedules == {"busy-rewind", "rewind-to-start"}

ASSUME ConstantsAreValid ==
    /\ MaxEvents \in Nat /\ MaxFailures \in Nat /\ MaxRewinds \in Nat
    /\ Seeds \subseteq 0 .. MaxEvents
    /\ Admitted \subseteq Schedules

\* The two flushes the coordinator itself makes.
Internal == {"retirement", "teardown"}
Flushers == Callers \cup Internal

ASSUME InternalIsReserved == Callers \cap Internal = {}

VARIABLES
    \* the session
    log,            \* the events of its log
    born,           \* how many events were ever created
    life,           \* live, disposed, released or kept (by the coordinator)
    \* storage and the coordinator
    stored,         \* the events on disk
    artifact,       \* the session has a log on disk
    state,          \* SessionState: [cursor, materialized]
    seed,           \* initFor's snapshot of the log
    init,           \* live.init: adopting, seeding, ready or failed
    service,        \* the backend: open, closing or closed
    rewindTo,       \* events a running truncateStored keeps, or NoRewind
    \* the write controller
    pending,        \* queued events
    batch,          \* the prefix the active write took
    fresh,          \* the part of it that is being appended
    active,         \* the active write: none, queued, writing or stored
    background,     \* the active write is a detached one
    timers,         \* armed deadlines
    expired,        \* deadlineExpired
    paused,         \* automaticPaused
    barrier,        \* none, overlap, draining or failing
    \* those who flush
    flusher,        \* where each of them is
    goal,           \* how long the log was when it asked
    \* how much of the bounds is used
    failures, rewinds

session == <<log, born, life>>
store == <<stored, artifact, state, seed, init, service, rewindTo>>
queue == <<pending, batch, fresh>>
writing == <<active, background>>
clock == <<timers, expired, paused>>
flushes == <<flusher, goal>>
bounds == <<failures, rewinds>>
vars == <<session, store, queue, writing, clock, barrier, flushes, bounds>>

NoRewind == MaxEvents + 1

Entry == [seq : 0 .. MaxEvents, id : 1 .. MaxEvents]

Idle == {f \in Flushers : flusher[f] = "idle"}
Waiting == {f \in Flushers : flusher[f] = "waiting"}
Joined == {f \in Flushers : flusher[f] = "joined"}

Becomes(who, what) == [f \in Flushers |-> IF f \in who THEN what ELSE flusher[f]]

\* initFor runs for session/created or for a live session found at start, and
\* then the log is the seed; or it runs for the first session/event, if another
\* observer of session/created appended, and then that event is in the seed
\* and in the queue.
FirstQueued ==
    \/ pending = <<>> /\ timers = 0
    \/ /\ Len(log) > Len(stored)
       /\ pending = <<[seq |-> Len(log) - 1, id |-> Len(log)]>>
       /\ timers = 1

Init ==
    /\ \E n \in Seeds : log = [i \in 1 .. n |-> i]
    /\ born = Len(log)
    /\ life = "live"
    /\ \E n \in 0 .. Len(log) : stored = SubSeq(log, 1, n)
    /\ artifact = (stored # <<>>)
    /\ state = [cursor |-> 0, materialized |-> FALSE]
    /\ seed = log
    /\ init = "adopting"
    /\ service = "open"
    /\ rewindTo = NoRewind
    /\ FirstQueued
    /\ batch = <<>> /\ fresh = <<>>
    /\ active = "none" /\ background = FALSE
    /\ expired = FALSE /\ paused = FALSE
    /\ barrier = "none"
    /\ flusher = [f \in Flushers |-> "idle"]
    /\ goal = [f \in Flushers |-> 0]
    /\ failures = 0 /\ rewinds = 0

-----------------------------------------------------------------------------
(* The controller's timer (armTimer, cancelTimer, onDeadline).             *)

\* Fault: a cancel that does not ask whether a deadline is armed.
CancelledUnarmed == timers - 1

Cancelled == IF timers = 0 THEN 0 ELSE timers - 1

\* Fault: a new event does not restart a paused queue.
ArmsOnlyEmpty == barrier = "none" /\ pending = <<>>

\* A new event arms the deadline of an idle queue, or restarts a paused one.
Arms == barrier = "none" /\ (paused \/ pending = <<>>)

\* enqueue: the producer hands over one event.
Enqueue(entry) ==
    /\ pending' = Append(pending, entry)
    /\ timers' = IF Arms THEN timers + 1 ELSE timers
    /\ paused' = (paused /\ barrier # "none")
    /\ expired' = (expired /\ ~(paused /\ barrier = "none"))

\* startWrite takes the whole queue.  "q" is the queue, "bg" its origin.
StartWrite(q, bg) ==
    /\ batch' = q
    /\ pending' = <<>>
    /\ active' = "queued"
    /\ background' = bg
    /\ timers' = Cancelled
    /\ expired' = FALSE

NoActiveWrite ==
    /\ active' = "none"
    /\ background' = FALSE
    /\ batch' = <<>>

Deadline ==
    /\ timers > 0
    /\ IF active # "none"
       THEN /\ timers' = timers - 1
            /\ expired' = TRUE
            /\ UNCHANGED <<pending, batch, writing>>
       ELSE StartWrite(pending, TRUE)
    /\ UNCHANGED <<session, store, fresh, paused, barrier, flushes, bounds>>

-----------------------------------------------------------------------------
(* The session: session/event and session/disposed.                        *)

AppendEvent ==
    /\ life = "live"
    /\ service = "open"
    /\ born < MaxEvents
    /\ rewindTo = NoRewind \/ "busy-rewind" \in Admitted
    /\ log' = Append(log, born + 1)
    /\ born' = born + 1
    /\ Enqueue([seq |-> Len(log), id |-> born + 1])
    /\ UNCHANGED <<life, store, batch, fresh, writing, barrier, flushes, bounds>>

-----------------------------------------------------------------------------
(* Initialisation (onCreated, adoptLivePrefix, createCore).                *)

\* The stored prefix becomes the live session's history.
Adopt ==
    /\ init = "adopting"
    /\ Len(stored) <= Len(seed) /\ stored = SubSeq(seed, 1, Len(stored))
    /\ state' = [cursor |-> Len(stored), materialized |-> artifact]
    /\ init' = IF Len(stored) = Len(seed) THEN "ready" ELSE "seeding"
    /\ UNCHANGED <<session, stored, artifact, seed, service, rewindTo,
                   queue, writing, clock, barrier, flushes, bounds>>

\* Fault: the whole seed is appended.
WholeSeed == seed

\* The suffix of the seed that storage does not hold is appended.
SeedSuffix == SubSeq(seed, state.cursor + 1, Len(seed))

WriteSeed ==
    /\ init = "seeding"
    /\ stored' = stored \o SeedSuffix
    /\ artifact' = TRUE
    /\ state' = [cursor |-> Len(seed), materialized |-> TRUE]
    /\ init' = "ready"
    /\ UNCHANGED <<session, seed, service, rewindTo,
                   queue, writing, clock, barrier, flushes, bounds>>

\* The backend fails.  Initialisation is never tried again.
InitFails ==
    /\ init \in {"adopting", "seeding"}
    /\ failures < MaxFailures
    /\ failures' = failures + 1
    /\ init' = "failed"
    /\ UNCHANGED <<session, stored, artifact, state, seed, service, rewindTo,
                   queue, writing, clock, barrier, flushes, rewinds>>

Initialise == Adopt \/ WriteSeed \/ InitFails

-----------------------------------------------------------------------------
(* One write (createWriteBehind's sink, appendLiveBatch, appendCore).      *)

\* Fault: events the initialisation stored are written again.
Unfiltered == DOMAIN batch

\* The entries of the batch that the cursor has not passed, in their order.
Kept == {i \in DOMAIN batch : batch[i].seq >= state.cursor}

Filtered ==
    [k \in 1 .. Cardinality(Kept) |->
        batch[CHOOSE i \in Kept : Cardinality({j \in Kept : j <= i}) = k]]

\* They continue the log; a first write publishes a new file and finds none,
\* a later one opens the file that is there.
Accepted ==
    /\ \A k \in DOMAIN Filtered : Filtered[k].seq = state.cursor + k - 1
    /\ Filtered # <<>> => state.materialized = artifact

BeginWrite ==
    /\ active = "queued"
    /\ init = "ready"
    /\ Accepted
    /\ fresh' = Filtered
    /\ active' = "writing"
    /\ UNCHANGED <<session, store, pending, batch, background, clock, barrier,
                   flushes, bounds>>

\* The backend makes the events durable, all of them or none.
Store ==
    /\ active = "writing"
    /\ stored' = stored \o [k \in DOMAIN fresh |-> fresh[k].id]
    /\ artifact' = (artifact \/ fresh # <<>>)
    /\ active' = "stored"
    /\ UNCHANGED <<session, state, seed, init, service, rewindTo, queue, background,
                   clock, barrier, flushes, bounds>>

Advanced ==
    IF fresh = <<>> THEN state
    ELSE [cursor |-> state.cursor + Len(fresh), materialized |-> TRUE]

\* Fault: an expired deadline is forgotten when the write ends.
NeverContinues == FALSE

\* continueAutomatic: an over-budget background write is followed by another.
Continues == background /\ barrier = "none" /\ pending # <<>> /\ expired

\* Fault: a barrier ends with the write it overlapped.
DrainsNothing == FALSE

\* drainBarrier: the barrier goes on while there is something to drain.
Drains == barrier # "none" /\ pending # <<>>

\* Fault: the barrier ends without telling its callers.
EndBarrierSilently(outcome) == barrier' = "none" /\ UNCHANGED flusher

EndBarrier(outcome) ==
    /\ barrier' = "none"
    /\ flusher' = Becomes(Joined, outcome)

Acknowledge ==
    /\ active = "stored"
    /\ state' = Advanced
    /\ fresh' = <<>>
    /\ paused' = (paused /\ barrier # "overlap")
    /\ IF Continues \/ Drains
       THEN /\ StartWrite(pending, Continues)
            /\ barrier' = IF Drains THEN "draining" ELSE barrier
            /\ UNCHANGED flusher
       ELSE /\ NoActiveWrite
            /\ EndBarrier("done")
            /\ UNCHANGED <<pending, timers, expired>>
    /\ UNCHANGED <<session, stored, artifact, seed, init, service, rewindTo, goal, bounds>>

\* Fault: a failed batch is dropped.
BatchForgotten == pending

\* startWrite's catch: the batch goes back in front of the queue.  A barrier
\* that was waiting for the write tries again, the barrier's own write is final.
Retained == batch \o pending

WriteFails ==
    /\ fresh' = <<>>
    /\ IF barrier = "overlap"
       THEN /\ StartWrite(Retained, FALSE)
            /\ barrier' = "draining"
            /\ paused' = FALSE
       ELSE /\ NoActiveWrite
            /\ pending' = Retained
            /\ timers' = Cancelled
            /\ expired' = FALSE
            /\ paused' = TRUE
            /\ barrier' = IF barrier = "draining" THEN "failing" ELSE barrier
    /\ UNCHANGED <<session, store, flushes, rewinds>>

BackendFails ==
    /\ active = "writing"
    /\ failures < MaxFailures
    /\ failures' = failures + 1
    /\ WriteFails

\* The write never reaches the backend.
Refused ==
    /\ active = "queued"
    /\ init = "failed" \/ (init = "ready" /\ ~Accepted)
    /\ WriteFails
    /\ UNCHANGED failures

\* drainBarrier's catch runs a few jobs after the write was retained.
BarrierFails ==
    /\ barrier = "failing"
    /\ EndBarrier("failed")
    /\ UNCHANGED <<session, store, queue, writing, clock, goal, bounds>>

Write == BeginWrite \/ Store \/ Acknowledge \/ BackendFails \/ Refused \/ BarrierFails

-----------------------------------------------------------------------------
(* Flushing (coordinator flush, then the controller's flush).              *)

\* The automatic wait is cancelled before the initialisation is awaited.
AskFlush(f) ==
    /\ flusher' = [flusher EXCEPT ![f] = "waiting"]
    /\ goal' = [goal EXCEPT ![f] = Len(log)]
    /\ timers' = Cancelled
    /\ expired' = FALSE
    /\ UNCHANGED paused

FlushCall(c) ==
    /\ c \in Idle
    /\ service = "open"
    /\ life = "live"
    /\ AskFlush(c)
    /\ UNCHANGED <<session, store, queue, writing, barrier, bounds>>

\* Those who waited join the barrier that is open ...
Join ==
    /\ Waiting # {}
    /\ init = "ready"
    /\ barrier # "none"
    /\ flusher' = Becomes(Waiting, "joined")
    /\ UNCHANGED <<session, store, queue, writing, clock, barrier, goal, bounds>>

\* ... or open one, which drains at once what no active write holds.
OpenBarrier ==
    /\ Waiting # {}
    /\ init = "ready"
    /\ barrier = "none"
    /\ paused' = FALSE
    /\ \/ /\ active # "none"
          /\ barrier' = "overlap"
          /\ flusher' = Becomes(Waiting, "joined")
          /\ timers' = Cancelled /\ expired' = FALSE
          /\ UNCHANGED <<pending, batch, writing>>
       \/ /\ active = "none" /\ pending # <<>>
          /\ barrier' = "draining"
          /\ flusher' = Becomes(Waiting, "joined")
          /\ StartWrite(pending, FALSE)
       \/ /\ active = "none" /\ pending = <<>>
          /\ flusher' = Becomes(Waiting, "done")
          /\ timers' = Cancelled /\ expired' = FALSE
          /\ UNCHANGED <<barrier, pending, batch, writing>>
    /\ UNCHANGED <<session, store, fresh, goal, bounds>>

FlushFails ==
    /\ Waiting # {}
    /\ init = "failed"
    /\ flusher' = Becomes(Waiting, "failed")
    /\ timers' = Cancelled
    /\ expired' = FALSE
    /\ UNCHANGED <<session, store, queue, writing, paused, barrier, goal, bounds>>

Flush == Join \/ OpenBarrier \/ FlushFails

-----------------------------------------------------------------------------
(* The end of the session (retire, retireCore) and of the backend (the     *)
(* effect installWritePath registers before its listeners).                *)

Dispose ==
    /\ life = "live"
    /\ service = "open"
    /\ rewindTo = NoRewind \/ "busy-rewind" \in Admitted
    /\ life' = "disposed"
    /\ AskFlush("retirement")
    /\ UNCHANGED <<log, born, store, queue, writing, barrier, bounds>>

\* Fault: a failed retirement releases the session too.
AlwaysReleased == "released"

\* A failed retirement leaves the session in the coordinator's hands.
Retired == IF flusher["retirement"] = "done" THEN "released" ELSE "kept"

Retire ==
    /\ life = "disposed"
    /\ flusher["retirement"] \in {"done", "failed"}
    /\ life' = Retired
    /\ UNCHANGED <<log, born, store, queue, writing, clock, barrier, flushes, bounds>>

\* Admission of events, flushes and disposals is closed first.
Teardown ==
    /\ service = "open"
    /\ service' = "closing"
    /\ IF life = "released"
       THEN flusher' = [flusher EXCEPT !["teardown"] = "done"] /\ UNCHANGED <<goal, clock>>
       ELSE AskFlush("teardown")
    /\ UNCHANGED <<session, stored, artifact, state, seed, init, rewindTo,
                   queue, writing, barrier, bounds>>

\* The chains are empty once no operation of this session is under way.
Close ==
    /\ service = "closing"
    /\ flusher["teardown"] \in {"done", "failed"}
    /\ active \notin {"writing", "stored"}
    /\ init \in {"ready", "failed"}
    /\ service' = "closed"
    /\ UNCHANGED <<session, stored, artifact, state, seed, init, rewindTo,
                   queue, writing, clock, barrier, flushes, bounds>>

-----------------------------------------------------------------------------
(* A rewind: truncateStored, then Session.truncate, as truncateSession of  *)
(* tui/tui/src/ui/app.ts calls them.  truncateStored does not wait for the *)
(* session's chain, and nothing flushes or stops the session first.        *)

Quiet == active = "none" /\ pending = <<>> /\ Waiting = {}

Rewind(n) ==
    /\ life = "live"
    /\ service = "open"
    /\ rewinds < MaxRewinds
    /\ rewindTo = NoRewind
    /\ init = "ready"
    /\ Quiet \/ "busy-rewind" \in Admitted
    /\ n > 0 \/ "rewind-to-start" \in Admitted
    /\ rewinds' = rewinds + 1
    /\ rewindTo' = n
    /\ stored' = IF Len(stored) <= n THEN stored ELSE SubSeq(stored, 1, n)
    /\ UNCHANGED <<session, artifact, state, seed, init, service, queue, writing,
                   clock, barrier, flushes, failures>>

\* The cursor jumps to the cut, and the log of a session still live follows.
Follow ==
    /\ rewindTo # NoRewind
    /\ state' = [cursor |-> rewindTo, materialized |-> rewindTo > 0]
    /\ log' = IF life = "live" THEN SubSeq(log, 1, rewindTo) ELSE log
    /\ goal' = [f \in Flushers |-> IF goal[f] < rewindTo THEN goal[f] ELSE rewindTo]
    /\ rewindTo' = NoRewind
    /\ UNCHANGED <<born, life, stored, artifact, seed, init, service, queue, writing,
                   clock, barrier, flusher, bounds>>

Next ==
    \/ AppendEvent \/ Deadline \/ Initialise \/ Write \/ Flush
    \/ \E c \in Callers : FlushCall(c)
    \/ Dispose \/ Retire \/ Teardown \/ Close
    \/ \E n \in 0 .. Len(log) - 1 : Rewind(n)
    \/ Follow

Spec == Init /\ [][Next]_vars

\* Timers fire, backend operations and promises settle, and the coordinator
\* takes its next step; producers, users and disposal promise nothing.
Fairness ==
    /\ WF_vars(Deadline) /\ WF_vars(Initialise) /\ WF_vars(Write) /\ WF_vars(Flush)
    /\ WF_vars(Retire) /\ WF_vars(Close) /\ WF_vars(Follow)

LiveSpec == Spec /\ Fairness

-----------------------------------------------------------------------------
(* Properties.                                                             *)

\* Every variable has its type: the session, storage, the controller's queue
\* and timer, and those who flush.
TypeOK ==
    /\ log \in Seq(1 .. MaxEvents)
    /\ born \in 0 .. MaxEvents
    /\ life \in {"live", "disposed", "released", "kept"}
    /\ stored \in Seq(1 .. MaxEvents)
    /\ artifact \in BOOLEAN
    /\ state \in [cursor : Nat, materialized : BOOLEAN]
    /\ seed \in Seq(1 .. MaxEvents)
    /\ init \in {"adopting", "seeding", "ready", "failed"}
    /\ service \in {"open", "closing", "closed"}
    /\ rewindTo \in 0 .. NoRewind
    /\ pending \in Seq(Entry) /\ batch \in Seq(Entry) /\ fresh \in Seq(Entry)
    /\ active \in {"none", "queued", "writing", "stored"}
    /\ background \in BOOLEAN
    /\ timers \in Nat
    /\ expired \in BOOLEAN /\ paused \in BOOLEAN
    /\ barrier \in {"none", "overlap", "draining", "failing"}
    /\ flusher \in [Flushers -> {"idle", "waiting", "joined", "done", "failed"}]
    /\ goal \in [Flushers -> 0 .. MaxEvents]
    /\ failures \in 0 .. MaxFailures /\ rewinds \in 0 .. MaxRewinds

\* Storage is always a prefix of the log and grows by the next events in their
\* order, through batching, overlapping flushes, failures and retries; only a
\* rewind shortens it.  The write path implements the abstract durable log
\* (README, "Append-only" and "Contiguous seq").
Abstract == INSTANCE DurableLog
            WITH Event <- 1 .. MaxEvents, rewound <- rewindTo # NoRewind

StorageFollowsLog == Abstract!Spec

\* No accepted event slips between the controller's hands: it is on disk at
\* its place, in the active batch, in the queue, or in a seed whose write is
\* still due (startWrite retains a failed batch in front of the queue; seed
\* events never reach the queue, onCreated writes them).
Owned(i) ==
    \/ i <= Len(stored) /\ stored[i] = log[i]
    \/ \E k \in DOMAIN batch : batch[k] = [seq |-> i - 1, id |-> log[i]]
    \/ \E k \in DOMAIN pending : pending[k] = [seq |-> i - 1, id |-> log[i]]
    \/ init # "ready" /\ i <= Len(seed)

NothingLost == rewindTo = NoRewind => \A i \in DOMAIN log : Owned(i)

\* A flush that succeeded found every event accepted before it on disk, also
\* when it joined another caller's barrier or overlapped a background write
\* that failed (README, "a shared quiescence barrier").
FlushIsBarrier ==
    \A f \in Flushers :
        flusher[f] = "done" /\ rewindTo = NoRewind /\ life # "released" => goal[f] <= Len(stored)

\* Queued events always have someone who will write them: an armed deadline,
\* an active write that outlived its budget, a barrier, or a flush that waits
\* for the initialisation.  Only a failure leaves them waiting, until the next
\* event or flush (automaticPaused), or for good once initialisation failed.
WorkIsScheduled ==
    pending # <<>> /\ ~paused /\ init # "failed" =>
        \/ timers > 0
        \/ active # "none" /\ background /\ expired
        \/ barrier # "none"
        \/ Waiting # {}

\* At most one deadline is armed, only for queued events and never beside a
\* barrier: the one timer handle of the controller is never overwritten.
OneDeadline == timers > 0 => timers = 1 /\ pending # <<>> /\ barrier = "none"

\* The controller's timer is neither forgotten nor armed once too often, however
\* deadlines, flushes, failures and new events meet.
TimerIsSound == WorkIsScheduled /\ OneDeadline

\* A write whose turn has come continues the stored log and is never refused
\* (truncateStored, "so the next append resumes where the truncated log ends").
AppendResumes ==
    active = "queued" /\ init = "ready" /\ rewindTo = NoRewind => Accepted

\* A session the coordinator let go of is wholly on disk, and a closed backend
\* is asked for nothing more: no deadline is armed, no barrier drains, and a
\* write still queued is one that the failed initialisation refuses.
EndIsQuiet ==
    /\ life = "released" => stored = log
    /\ service = "closed" =>
           timers = 0 /\ barrier = "none" /\ (active = "none" \/ init = "failed")

\* An event that a rewind removed never comes back to storage (the contract
\* test, "reload" after truncateStored).
RewoundStaysGone ==
    rewindTo = NoRewind =>
        \A i \in DOMAIN stored : \E j \in DOMAIN log : log[j] = stored[i]

\* Every flush settles, whoever else appends, flushes, disposes or closes.
FlushSettles ==
    \A f \in Flushers : flusher[f] \in {"waiting", "joined"} ~> flusher[f] \in {"done", "failed"}

\* Every event becomes durable without anybody asking for it, unless a rewind
\* cuts it off, a failure has paused the automatic path, or initialisation
\* failed and the session is refused.
EventuallyDurable ==
    \A n \in 1 .. MaxEvents :
        Len(log) >= n ~> (Len(stored) >= n \/ Len(log) < n \/ paused \/ init = "failed")

\* The controller's queue is sound: nothing accepted slips out of it and the
\* deadline that empties it is armed when it has to be.
QueueIsSound == TypeOK /\ NothingLost /\ TimerIsSound

\* What the write path promises its callers holds in every interleaving: a flush
\* is a barrier, an append resumes where the log ends, an end is an end.
PromisesHold == FlushIsBarrier /\ AppendResumes /\ EndIsQuiet

\* Nothing waits for ever: neither a flush nor an event nobody asks for.
WritesSettle == FlushSettles /\ EventuallyDurable
=============================================================================
