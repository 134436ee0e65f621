---------------------------- MODULE Preparations ----------------------------
(***************************************************************************)
(* Cold sessions: how a stored session is inspected, loaded, reserved for  *)
(* one resume, published and given back (preparations.ts, and the callers  *)
(* in coordinator.ts of session-persistence).  One session identity.       *)
(*                                                                         *)
(* Callers share one entry per identity.  Its loading, the commit of its   *)
(* repair, revision checks and all writes wait in the coordinator's chain; *)
(* whatever follows an await is an action of its own, so that the entry a  *)
(* caller waited for may be gone, reloaded or taken when it goes on.       *)
(***************************************************************************)
EXTENDS Naturals, Sequences, FiniteSets

CONSTANTS
    Resumers,      \* calls of prepare or load, each with its own Session object
    Inspectors,    \* calls of inspect
    Nobody,
    MaxWrites,     \* bound: events written by appends and by other processes
    MaxFailures,   \* bound: backend operations that fail
    MaxEvictions,  \* bound: how often other sessions push the entry out
    Admitted       \* schedules that break a property: "open-append"

Callers == Resumers \cup Inspectors

ASSUME CallersAreDistinct ==
    IsFiniteSet(Callers) /\ Nobody \notin Callers /\ Resumers \cap Inspectors = {}

VARIABLES
    stored,    \* the durable log: its length, which names its revision, and whether a turn is open
    entry,     \* the entry of SessionPreparations: identity, phase, what was read
    state,     \* SessionState: cursor (0: not tracked) and owner
    chain,     \* the serialized operations, the running one first
    call,      \* each call: where it is suspended or how it ended, its entry, its source
    live,      \* the Session in the store
    retiring,  \* the Session whose retirement runs
    unsaved,   \* Sessions with events that are not durable
    foreign,   \* history: writes of other processes since the cursor was set
    spent      \* how much of each bound is used

sessions == <<live, retiring, unsaved>>
vars == <<stored, entry, state, chain, call, sessions, foreign, spent>>

NoView == [length |-> 0, open |-> FALSE]
NoEntry == [gen |-> 0, phase |-> "none", view |-> NoView]
NoState == [cursor |-> 0, owner |-> Nobody]
\* "since" is history: the length of the log when an inspection joined its entry.
NoCall(place) == [at |-> place, mine |-> 0, view |-> NoView, since |-> 0]
Job(op, by, gen) == [op |-> op, by |-> by, gen |-> gen]

At(c) == call[c].at
Mine(c) == call[c].mine
View(c) == call[c].view
Tracked == state.cursor > 0
Held(g) == entry.gen = g /\ entry.phase # "none"

Init ==
    /\ stored \in [length : {1}, open : BOOLEAN]
    /\ entry = NoEntry
    /\ state = NoState
    /\ chain = <<>>
    /\ call = [c \in Callers |-> NoCall("head")]
    /\ live = Nobody /\ retiring = Nobody /\ unsaved = {}
    /\ foreign = 0
    /\ spent = [writes |-> 0, failures |-> 0, evictions |-> 0]

Go(c, place) == [call EXCEPT ![c].at = place]
End(c, how) == [call EXCEPT ![c] = NoCall(how)]
Spend(what, max) == spent[what] < max /\ spent' = [spent EXCEPT ![what] = @ + 1]

-----------------------------------------------------------------------------
(* The entry.                                                              *)

\* More identities than the entry, the calls and the chain can name.
Gens == 1..(Cardinality(Callers) + Len(chain) + 2)
Fresh == CHOOSE g \in Gens : /\ g \notin {entry.gen} \cup {Mine(c) : c \in Callers}
                             /\ \A i \in DOMAIN chain : chain[i].gen # g

\* Fault: an entry that is dropped or given back leaves its waiters alone.
NobodyWoken(calls, g) == calls

\* settleReservation: whoever waits for this entry's reservation goes on.
Woken(calls, g) ==
    [c \in Callers |-> IF calls[c].at = "settled" /\ calls[c].mine = g
                       THEN [calls[c] EXCEPT !.at = "woken"] ELSE calls[c]]

\* remove and makeReady spare an entry that is no longer the current one.
\* "calls" is what becomes of the calls otherwise.
Remove(g, calls) ==
    IF Held(g) THEN entry' = NoEntry /\ call' = Woken(calls, g)
               ELSE call' = calls /\ UNCHANGED entry

MakeReady(g, calls) ==
    IF Held(g) THEN entry' = [entry EXCEPT !.phase = "ready"] /\ call' = Woken(calls, g)
               ELSE call' = calls /\ UNCHANGED entry

\* touch of another identity evicts the oldest ready entry.
Evict ==
    /\ entry.phase = "ready"
    /\ Spend("evictions", MaxEvictions)
    /\ entry' = NoEntry
    /\ UNCHANGED <<stored, state, chain, call, sessions, foreign>>

-----------------------------------------------------------------------------
(* prepare, load and inspect: up to the entry's result.                    *)

\* waitForRetirement: the retirement is read and awaited.  What follows the await,
\* which takes a microtask even when nothing retires, looks at the live session
\* only, so that a session disposed of in between goes unnoticed.  (An inspection
\* goes on at once if nothing retires; it may take the microtask here, too.)
WaitForRetirement(c) ==
    /\ At(c) = "head" /\ retiring = Nobody
    /\ call' = Go(c, "waited")
    /\ UNCHANGED <<stored, entry, state, chain, sessions, foreign, spent>>

\* A live session answers, or refuses a prepare.
AnswerFromLive(c) ==
    /\ \/ At(c) = "waited"
       \/ c \in Inspectors /\ At(c) \in {"current", "outdated"}
    /\ live # Nobody
    /\ call' = End(c, "live-answer")
    /\ UNCHANGED <<stored, entry, state, chain, sessions, foreign, spent>>

\* entryFor: share the current entry or start to load a new one.
Enter(c) ==
    /\ At(c) = "waited" /\ live = Nobody
    /\ LET shared == entry.phase # "none"
           g == IF shared THEN entry.gen ELSE Fresh
           inspects == c \in Inspectors
       IN /\ call' = [call EXCEPT ![c] =
                 [at |-> "result", mine |-> g,
                  view |-> IF inspects THEN entry.view ELSE NoView,
                  since |-> IF inspects THEN stored.length ELSE 0]]
          /\ entry' = IF shared THEN entry ELSE [gen |-> g, phase |-> "loading", view |-> NoView]
          /\ chain' = IF shared THEN chain ELSE Append(chain, Job("load", Nobody, g))
    /\ UNCHANGED <<stored, state, sessions, foreign, spent>>

Loaded(c) == At(c) = "result" /\ \A i \in DOMAIN chain : chain[i] # Job("load", Nobody, Mine(c))

\* reserve after an await: the entry is gone, taken by another, or ready.
Reserve(r) ==
    /\ Loaded(r) \/ At(r) = "woken"
    /\ \/ /\ ~Held(Mine(r))
          /\ call' = End(r, "head") /\ UNCHANGED <<entry, chain>>
       \/ /\ Held(Mine(r)) /\ entry.phase # "ready"
          /\ call' = Go(r, "settled") /\ UNCHANGED <<entry, chain>>
       \/ /\ Held(Mine(r)) /\ entry.phase = "ready"
          /\ call' = [call EXCEPT ![r].at = "commit", ![r].view = entry.view]
          /\ entry' = [entry EXCEPT !.phase = "committing"]
          /\ chain' = Append(chain, Job("commit", r, 0))
    /\ UNCHANGED <<stored, state, sessions, foreign, spent>>

\* inspect after the entry's result: queue the revision check.
QueueCheck(i) ==
    /\ Loaded(i)
    /\ IF live # Nobody
       THEN call' = End(i, "live-answer") /\ UNCHANGED chain
       ELSE call' = Go(i, "check") /\ chain' = Append(chain, Job("check", i, 0))
    /\ UNCHANGED <<stored, entry, state, sessions, foreign, spent>>

\* The chain without what c queued, which is one operation at most.
Dequeued(c) ==
    IF \E i \in DOMAIN chain : chain[i].by = c
    THEN LET k == CHOOSE i \in DOMAIN chain : chain[i].by = c
         IN [i \in 1..(Len(chain) - 1) |-> chain[IF i < k THEN i ELSE i + 1]]
    ELSE chain

\* observeQueuedAbort: a waiting caller leaves, its queued operation will not
\* run; a commit that never started drops the entry.
Abort(c) ==
    /\ \/ At(c) \in {"result", "settled", "woken", "check"}
       \/ At(c) = "commit" /\ Head(chain).by # c
    /\ chain' = Dequeued(c)
    /\ IF At(c) = "commit" THEN Remove(Mine(c), End(c, "refused"))
                           ELSE call' = End(c, "refused") /\ UNCHANGED entry
    /\ UNCHANGED <<stored, state, sessions, foreign, spent>>

-----------------------------------------------------------------------------
(* The chain.                                                              *)

Running(op) == chain # <<>> /\ Head(chain).op = op
Finish(op) == Running(op) /\ chain' = Tail(chain)
WaitsFor(c, g) == At(c) = "result" /\ Mine(c) = g

\* Fault: the result of a read is kept although its entry was dropped.
FilledAnyway(g) == [entry EXCEPT !.phase = "ready", !.view = stored]

Filled(g) == IF Held(g) THEN [entry EXCEPT !.phase = "ready", !.view = stored] ELSE entry

\* The read of an entry.  An entry dropped meanwhile still answers its waiters.
Load ==
    /\ Finish("load")
    /\ LET g == Head(chain).gen IN
       /\ entry' = Filled(g)
       /\ call' = [c \in Callers |-> IF c \in Inspectors /\ WaitsFor(c, g)
                                     THEN [call[c] EXCEPT !.view = stored] ELSE call[c]]
    /\ UNCHANGED <<stored, state, sessions, foreign, spent>>

LoadFails ==
    /\ Finish("load")
    /\ LET g == Head(chain).gen
       IN Remove(g, [c \in Callers |-> IF WaitsFor(c, g) THEN NoCall("refused") ELSE call[c]])
    /\ Spend("failures", MaxFailures)
    /\ UNCHANGED <<stored, state, sessions, foreign>>

\* Fault: a source is taken for current whatever was written since.
AlwaysCurrent(v) == TRUE

IsPreparedSourceCurrent(v) == stored.length = v.length

\* Fault: a commit takes no notice of an owner.
OwnerIgnored == TRUE

Unowned == state.owner = Nobody

\* commitPrepared: a live or retiring owner denies it, a stale or just repaired source is
\* read again, a current one sets the cursor.  (The repair of a tail that another
\* process wrote counts as its writing.)
CommitPrepared ==
    /\ Finish("commit")
    /\ LET r == Head(chain).by
           current == IsPreparedSourceCurrent(View(r))
       IN \/ /\ ~Unowned
             /\ call' = Go(r, "denied") /\ UNCHANGED <<stored, state, foreign>>
          \/ /\ Unowned /\ ~current
             /\ call' = Go(r, "stale") /\ UNCHANGED <<stored, state, foreign>>
          \/ /\ Unowned /\ current /\ View(r).open
             /\ call' = Go(r, "stale")
             /\ stored' = [length |-> stored.length + 1, open |-> FALSE]
             /\ foreign' = IF foreign > 0 THEN foreign + 1 ELSE 0
             /\ UNCHANGED state
          \/ /\ Unowned /\ current /\ ~View(r).open
             /\ call' = Go(r, "committed")
             /\ state' = [cursor |-> View(r).length, owner |-> Nobody]
             /\ foreign' = 0
             /\ UNCHANGED stored
    /\ UNCHANGED <<entry, sessions, spent>>

CommitFails ==
    /\ Finish("commit")
    /\ call' = Go(Head(chain).by, "denied")
    /\ Spend("failures", MaxFailures)
    /\ UNCHANGED <<stored, entry, state, sessions, foreign>>

Check ==
    /\ Finish("check")
    /\ LET i == Head(chain).by
       IN call' = Go(i, IF IsPreparedSourceCurrent(View(i)) THEN "current" ELSE "outdated")
    /\ UNCHANGED <<stored, entry, state, sessions, foreign, spent>>

\* Fault: an append may start while a commit has not been answered.
WritableUnlessReserved == entry.phase # "reserved"

Writable == entry.phase \notin {"committing", "reserved"}

\* append to a session that is not live.  It adopts an untracked log, with the
\* ready entry or a read of its own, repairs it, and then writes.
AppendCall ==
    /\ Spend("writes", MaxWrites)
    /\ chain' = Append(chain, Job("append", Nobody, 0))
    /\ UNCHANGED <<stored, entry, state, call, sessions, foreign>>

AppendRefused ==
    /\ Finish("append") /\ ~Writable
    /\ UNCHANGED <<stored, entry, state, call, sessions, foreign, spent>>

AppendBegin ==
    /\ Running("append") /\ Writable
    /\ chain' = [chain EXCEPT ![1] = Job("appending", Nobody, 0)]
    /\ IF Tracked
       THEN UNCHANGED <<stored, entry, state, foreign, call>>
       ELSE /\ IF entry.phase = "ready" THEN Remove(entry.gen, call) ELSE UNCHANGED <<entry, call>>
            /\ stored' = [length |-> IF stored.open THEN stored.length + 1 ELSE stored.length,
                          open |-> FALSE]
            /\ state' = [cursor |-> stored'.length, owner |-> Nobody]
            /\ foreign' = 0
    /\ UNCHANGED <<sessions, spent>>

\* The end of appendCore: the log and the cursor advance, the entry is invalidated.
Written(open) ==
    /\ stored' = [length |-> stored.length + 1, open |-> open]
    /\ state' = [state EXCEPT !.cursor = @ + 1]
    /\ Remove(entry.gen, call)

AppendEnd ==
    /\ Finish("appending")
    /\ \E open \in BOOLEAN : (open => "open-append" \in Admitted) /\ Written(open)
    /\ UNCHANGED <<sessions, foreign, spent>>

\* Another process writes: nothing here excludes it, the revision shows it.
ForeignWrite ==
    /\ Spend("writes", MaxWrites)
    /\ \E open \in BOOLEAN : stored' = [length |-> stored.length + 1, open |-> open]
    /\ foreign' = foreign + 1
    /\ UNCHANGED <<entry, state, chain, call, sessions>>

-----------------------------------------------------------------------------
(* After the commit, after the check.                                      *)

CommitRejected(r) ==
    /\ At(r) = "denied"
    /\ Remove(Mine(r), End(r, "refused"))
    /\ UNCHANGED <<stored, state, chain, sessions, foreign, spent>>

ReadAgain(r) ==
    /\ At(r) = "stale"
    /\ Remove(Mine(r), End(r, "head"))
    /\ UNCHANGED <<stored, state, chain, sessions, foreign, spent>>

\* The signal was aborted while the commit ran: the entry is ready again.
AbortCommitted(r) ==
    /\ At(r) = "committed"
    /\ MakeReady(Mine(r), End(r, "refused"))
    /\ UNCHANGED <<stored, state, chain, sessions, foreign, spent>>

\* prepare keeps the reservation, load discards it and returns what it read.
Reserved(r) ==
    /\ At(r) = "committed"
    /\ \/ ~Held(Mine(r)) /\ call' = End(r, "head") /\ UNCHANGED entry
       \/ Held(Mine(r)) /\ Remove(Mine(r), End(r, "returned"))
       \/ /\ Held(Mine(r)) /\ call' = Go(r, "held")
          /\ entry' = [entry EXCEPT !.phase = "reserved"]
    /\ UNCHANGED <<stored, state, chain, sessions, foreign, spent>>

\* inspect returns a current source, borrows a stale one that a resume has
\* taken, and otherwise drops it and starts again.
AfterCheck(i) ==
    /\ At(i) \in {"current", "outdated"} /\ live = Nobody
    /\ LET same == Held(Mine(i)) /\ entry.phase # "loading"
       IN \/ At(i) = "current" /\ call' = End(i, "returned") /\ UNCHANGED entry
          \/ /\ At(i) = "outdated" /\ same /\ entry.phase # "ready"
             /\ call' = End(i, "borrowed") /\ UNCHANGED entry
          \/ /\ At(i) = "outdated" /\ same /\ entry.phase = "ready"
             /\ Remove(Mine(i), End(i, "head"))
          \/ At(i) = "outdated" /\ ~same /\ call' = End(i, "head") /\ UNCHANGED entry
    /\ UNCHANGED <<stored, state, chain, sessions, foreign, spent>>

-----------------------------------------------------------------------------
(* The reservation's holder, and the session it publishes.                 *)

\* The resume's setup appends to the Session before it is published.
SetupAppends(r) ==
    /\ At(r) = "held" /\ r \notin unsaved
    /\ Spend("writes", MaxWrites)
    /\ unsaved' = unsaved \cup {r}
    /\ UNCHANGED <<stored, entry, state, chain, call, live, retiring, foreign>>

\* enter, announce, reservationFor and attachPrepared, in one job.
Publish(r) ==
    /\ At(r) = "held" /\ live = Nobody
    /\ Held(Mine(r)) /\ entry.phase = "reserved"
    /\ state.owner = Nobody /\ state.cursor = View(r).length
    /\ Remove(Mine(r), End(r, "live"))
    /\ state' = [state EXCEPT !.owner = r]
    /\ live' = r
    /\ chain' = IF r \in unsaved THEN Append(chain, Job("write", r, 0)) ELSE chain
    /\ UNCHANGED <<stored, retiring, unsaved, foreign, spent>>

\* The preparation is disposed of unpublished: reusable unless it has grown.
Release(r) ==
    /\ At(r) = "held"
    /\ IF entry.phase = "reserved" /\ r \notin unsaved /\ state.owner = Nobody
       THEN MakeReady(Mine(r), End(r, "refused")) ELSE Remove(Mine(r), End(r, "refused"))
    /\ UNCHANGED <<stored, state, chain, sessions, foreign, spent>>

LiveAppends(r) ==
    /\ live = r /\ r \notin unsaved
    /\ Spend("writes", MaxWrites)
    /\ unsaved' = unsaved \cup {r}
    /\ UNCHANGED <<stored, entry, state, chain, call, live, retiring, foreign>>

Queued(r) == \E i \in DOMAIN chain : chain[i].by = r

\* The write-behind controller, or the flush of a retirement, queues a write.
Drain(r) ==
    /\ r \in unsaved /\ r \in {live, retiring} /\ ~Queued(r)
    /\ chain' = Append(chain, Job("write", r, 0))
    /\ UNCHANGED <<stored, entry, state, call, sessions, foreign, spent>>

\* A write that began before the entry was taken goes on.
Write ==
    /\ Finish("write")
    /\ \E open \in BOOLEAN : Written(open)
    /\ unsaved' = unsaved \ {Head(chain).by}
    /\ UNCHANGED <<live, retiring, foreign, spent>>

\* A write that fails, or is refused because of a reservation, keeps its events; a
\* retirement ends with it and leaves the state owned.
WriteFails ==
    /\ Finish("write")
    /\ IF Writable THEN Spend("failures", MaxFailures) ELSE UNCHANGED spent
    /\ retiring' = IF retiring = Head(chain).by THEN Nobody ELSE retiring
    /\ UNCHANGED <<stored, entry, state, call, live, unsaved, foreign>>

Dispose(r) ==
    /\ live = r
    /\ live' = Nobody /\ retiring' = r
    /\ UNCHANGED <<stored, entry, state, chain, call, unsaved, foreign, spent>>

\* retireCore: after the flush, the state is released on the chain.
QueueRetire(r) ==
    /\ retiring = r /\ r \notin unsaved /\ ~Queued(r)
    /\ chain' = Append(chain, Job("retire", r, 0))
    /\ UNCHANGED <<stored, entry, state, call, sessions, foreign, spent>>

Retire ==
    /\ Finish("retire")
    /\ state' = IF state.owner = Head(chain).by THEN NoState ELSE state
    /\ retiring' = Nobody
    /\ UNCHANGED <<stored, entry, call, live, unsaved, foreign, spent>>

-----------------------------------------------------------------------------
Resume(r) == Reserve(r) \/ CommitRejected(r) \/ ReadAgain(r) \/ Reserved(r)

Inspect(i) == QueueCheck(i) \/ AfterCheck(i)

Hold(r) == Publish(r) \/ Release(r)

RunJob ==
    \/ Load \/ LoadFails \/ CommitPrepared \/ CommitFails \/ Check
    \/ AppendRefused \/ AppendBegin \/ AppendEnd \/ Write \/ WriteFails \/ Retire

Next ==
    \/ \E c \in Callers : WaitForRetirement(c) \/ AnswerFromLive(c) \/ Enter(c) \/ Abort(c)
    \/ \E r \in Resumers :
           \/ Resume(r) \/ AbortCommitted(r) \/ SetupAppends(r) \/ Hold(r)
           \/ LiveAppends(r) \/ Drain(r) \/ Dispose(r) \/ QueueRetire(r)
    \/ \E i \in Inspectors : Inspect(i)
    \/ RunJob \/ AppendCall \/ ForeignWrite \/ Evict

Spec == Init /\ [][Next]_vars

-----------------------------------------------------------------------------
(* Properties.                                                             *)

Ended == {"live", "live-answer", "returned", "borrowed", "refused"}
Places ==
    {"head", "waited", "result", "settled", "woken", "commit", "check", "denied", "stale", "committed",
     "current", "outdated", "held"} \cup Ended
Ops == {"load", "commit", "check", "append", "appending", "write", "retire"}
Views == [length : Nat, open : BOOLEAN]

\* Every variable has its type; an entry has an identity, and a source as soon
\* as it is loaded (makeReady and remove spare entries that are not current).
TypeOK ==
    /\ stored \in Views /\ stored.length > 0
    /\ entry \in [gen : Nat, phase : {"none", "loading", "ready", "committing", "reserved"},
                  view : Views]
    /\ entry.gen = 0 <=> entry.phase = "none"
    /\ entry.view = NoView <=> entry.phase \in {"none", "loading"}
    /\ state \in [cursor : Nat, owner : Resumers \cup {Nobody}]
    /\ chain \in Seq([op : Ops, by : Callers \cup {Nobody}, gen : Nat])
    /\ call \in [Callers -> [at : Places, mine : Nat, view : Views, since : Nat]]
    /\ {live, retiring} \subseteq Resumers \cup {Nobody}
    /\ unsaved \subseteq Resumers

\* A reserved session is cold: nobody owns its persistence state, and no Session of
\* that identity is live or still on its way out, although an entry can be made
\* while one is (commitPrepared's look at the owner, whatever the waits for a
\* retirement have missed).
HeldIsCold ==
    \A r \in Resumers : At(r) = "held" =>
        state.owner = Nobody /\ live = Nobody /\ retiring = Nobody

\* Whoever holds a reservation holds the only one, and the Session it will
\* publish is the durable log: nothing in this process wrote behind its back
\* (commitPrepared, assertWritable and invalidate, in any order of the chain).
HeldIsExact ==
    \A r \in Resumers : At(r) = "held" =>
        /\ Held(Mine(r)) /\ entry.phase = "reserved"
        /\ ~View(r).open /\ View(r).length = state.cursor
        /\ stored.length = state.cursor + foreign

\* An append continues the durable log: the cursor it is checked against is the
\* log's end, but for what another process wrote (coordinator.ts:624, "Honors the
\* append-only and contiguous-seq contracts").  Holds unless a direct append may
\* leave a turn open: its repair does not move the cursor.
AppendsContinue ==
    Running("appending") \/ Running("write") => stored.length = state.cursor + foreign

\* What inspect returns was the durable log at some moment after it joined its
\* entry, however old that entry was (isPreparedSourceCurrent, discardReady).
\* Only a view borrowed from a resume in progress is exempt.
ViewsAreFresh ==
    [][\A i \in Inspectors :
           call'[i].at = "returned" /\ At(i) # "returned" => View(i).length >= call[i].since]_vars

\* No waiter is forgotten: whoever waits for a reservation to settle waits for
\* the current entry, and another resume is committing or holding exactly that
\* entry and will settle it (reserve's loop, settleReservation).
WaitersAreServed ==
    \A r \in Resumers : At(r) = "settled" =>
        /\ Held(Mine(r))
        /\ \E q \in Resumers \ {r} :
               Mine(q) = Mine(r) /\ At(q) \in {"commit", "denied", "stale", "committed", "held"}

\* A reservation is exact: the session is cold, and its holder publishes what the
\* durable log is, also when the session was disposed of behind a caller's wait.
ReservationsAreExact == TypeOK /\ HeldIsCold /\ HeldIsExact
=============================================================================
