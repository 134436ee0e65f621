--------------------------- MODULE WritePath_proofs ---------------------------
(***************************************************************************)
(* What is proved of WritePath for any number of events, failures, rewinds *)
(* and callers: the queue and its timer are sound, the promises to callers *)
(* are kept, and the write path implements DurableLog.  All of it where a  *)
(* rewind waits until the log is durable; that no write is refused also    *)
(* where it keeps an event.  What a rewind in the middle of a write leaves *)
(* true is proved apart: the types, the timer and the quiet ends.          *)
(***************************************************************************)
EXTENDS WritePath, FiniteSetTheorems, SequenceTheorems, WellFoundedInduction, TLAPS

-----------------------------------------------------------------------------
(* The inductive invariant.                                                *)

\* How the i-th event of the log is queued.
EntryAt(i) == [seq |-> i - 1, id |-> log[i]]

\* How much of the log the controller is done with.
Base == Len(log) - Len(batch) - Len(pending)

BornOnce == Len(log) <= born

StoredIsPrefix ==
    /\ Len(stored) <= Len(log)
    /\ \A i \in 1 .. Len(stored) : stored[i] = log[i]
    /\ stored # <<>> => artifact

\* The active batch and the queue are the end of the log, in order.
QueueIsTheEnd ==
    /\ Base >= 0
    /\ \A k \in DOMAIN batch : batch[k] = EntryAt(Base + k)
    /\ \A k \in DOMAIN pending : pending[k] = EntryAt(Base + Len(batch) + k)

WriteIsNonempty == active = "none" <=> batch = <<>>

\* Until storage is initialised the seed covers what the queue does not.
SeedCovers ==
    init # "ready" =>
        /\ rewindTo = NoRewind /\ active \in {"none", "queued"} /\ barrier = "none"
        /\ Len(stored) <= Len(seed) /\ Base <= Len(seed) /\ Len(seed) <= Len(log)
        /\ \A i \in 1 .. Len(seed) : seed[i] = log[i]
        /\ init = "seeding" => state.cursor = Len(stored)

\* Afterwards the cursor does, and knows what is stored.
CursorIsExact ==
    init = "ready" /\ rewindTo = NoRewind =>
        /\ Base <= state.cursor /\ state.cursor <= Len(log)
        /\ active # "stored" => Len(stored) = state.cursor
        /\ active = "stored" => Len(stored) = state.cursor + Len(fresh)

\* What is being appended comes next in the log and is the rest of the batch.
FreshIsNext ==
    active \in {"writing", "stored"} =>
        /\ \A k \in DOMAIN fresh : fresh[k] = EntryAt(state.cursor + k)
        /\ \/ state.cursor + Len(fresh) = Base + Len(batch)
           \/ fresh = <<>> /\ Base + Len(batch) <= state.cursor

\* While a rewind runs nothing is queued, and storage is where the log will be.
RewindIsQuiet ==
    rewindTo # NoRewind =>
        /\ init = "ready" /\ life = "live" /\ active = "none" /\ pending = <<>>
        /\ Len(stored) = rewindTo

PausedIsUnarmed == paused => timers = 0

\* A barrier has a write to wait for, or the failure of one to report.
BarrierIsBusy ==
    /\ barrier \in {"overlap", "draining"} => active # "none"
    /\ barrier = "failing" => active = "none" /\ pending # <<>> /\ paused
    /\ active # "none" /\ ~background => barrier = "draining"
    /\ Joined # {} => barrier # "none"

GoalsAreLogged == \A f \in Flushers : goal[f] <= Len(log)

\* The coordinator's own flushes come last: a session that is not live, and a
\* backend that is not open, get no more events.
EndsAreAsked ==
    /\ flusher["retirement"] = "idle" <=> life = "live"
    /\ flusher["teardown"] = "idle" <=> service = "open"
    /\ life # "live" => goal["retirement"] = Len(log)
    /\ life = "released" => flusher["retirement"] = "done" /\ Len(stored) = Len(log)
    /\ service = "closed" => flusher["teardown"] \in {"done", "failed"}

\* When they are answered, nothing is left to do or it was refused.
EndsAreQuiet ==
    /\ \A f \in Internal : flusher[f] = "done" => pending = <<>> /\ active = "none"
    /\ flusher["teardown"] = "failed" =>
          timers = 0 /\ barrier = "none" /\ (active = "none" \/ init = "failed")
    /\ flusher["teardown"] \in {"joined", "failed"} => Waiting = {}

\* What is on disk, what is queued and how they meet.
ContentInv ==
    /\ BornOnce /\ StoredIsPrefix /\ QueueIsTheEnd /\ WriteIsNonempty
    /\ SeedCovers /\ CursorIsExact /\ FreshIsNext /\ RewindIsQuiet

\* Who is going to write it, and who is told.
ControlInv ==
    /\ TimerIsSound /\ PausedIsUnarmed /\ BarrierIsBusy
    /\ GoalsAreLogged /\ FlushIsBarrier /\ EndsAreAsked /\ EndsAreQuiet

Inv == TypeOK /\ ContentInv /\ ControlInv

-----------------------------------------------------------------------------
(* The operators of the model.                                             *)

Event == 1 .. MaxEvents

\* The types, by what changes together.
SessionTyped ==
    /\ log \in Seq(1 .. MaxEvents) /\ born \in 0 .. MaxEvents
    /\ life \in {"live", "disposed", "released", "kept"}
StoreTyped ==
    /\ stored \in Seq(1 .. MaxEvents) /\ artifact \in BOOLEAN
    /\ state \in [cursor : Nat, materialized : BOOLEAN]
    /\ seed \in Seq(1 .. MaxEvents)
    /\ init \in {"adopting", "seeding", "ready", "failed"}
    /\ service \in {"open", "closing", "closed"}
    /\ rewindTo \in 0 .. NoRewind
QueueTyped == pending \in Seq(Entry) /\ batch \in Seq(Entry) /\ fresh \in Seq(Entry)
WritingTyped == active \in {"none", "queued", "writing", "stored"} /\ background \in BOOLEAN
ClockTyped == timers \in Nat /\ expired \in BOOLEAN /\ paused \in BOOLEAN
BarrierTyped == barrier \in {"none", "overlap", "draining", "failing"}
FlushesTyped ==
    /\ flusher \in [Flushers -> {"idle", "waiting", "joined", "done", "failed"}]
    /\ goal \in [Flushers -> 0 .. MaxEvents]
BoundsTyped == failures \in 0 .. MaxFailures /\ rewinds \in 0 .. MaxRewinds

Typed ==
    /\ SessionTyped /\ StoreTyped /\ QueueTyped /\ WritingTyped
    /\ ClockTyped /\ BarrierTyped /\ FlushesTyped /\ BoundsTyped

\* The parts are the type invariant.
LEMMA TypedIs == TypeOK <=> Typed
BY DEF TypeOK, Typed, SessionTyped, StoreTyped, QueueTyped, WritingTyped, ClockTyped,
       BarrierTyped, FlushesTyped, BoundsTyped

\* A part whose variables do not change keeps its types.
LEMMA TypesStay ==
    ASSUME TypeOK
    PROVE  /\ UNCHANGED session => SessionTyped'
           /\ UNCHANGED store => StoreTyped'
           /\ UNCHANGED queue => QueueTyped'
           /\ UNCHANGED writing => WritingTyped'
           /\ UNCHANGED clock => ClockTyped'
           /\ UNCHANGED barrier => BarrierTyped'
           /\ UNCHANGED flushes => FlushesTyped'
           /\ UNCHANGED bounds => BoundsTyped'
<1>1. Typed  BY TypedIs
<1>2. UNCHANGED session => SessionTyped'
  BY <1>1 DEF Typed, SessionTyped, session
<1>3. UNCHANGED store => StoreTyped'
  BY <1>1 DEF Typed, StoreTyped, store
<1>4. UNCHANGED queue => QueueTyped'
  BY <1>1 DEF Typed, QueueTyped, queue
<1>5. UNCHANGED writing => WritingTyped'
  BY <1>1 DEF Typed, WritingTyped, writing
<1>6. UNCHANGED clock => ClockTyped'
  BY <1>1 DEF Typed, ClockTyped, clock
<1>7. UNCHANGED barrier => BarrierTyped'
  BY <1>1 DEF Typed, BarrierTyped
<1>8. UNCHANGED flushes => FlushesTyped'
  BY <1>1 DEF Typed, FlushesTyped, flushes
<1>9. UNCHANGED bounds => BoundsTyped'
  BY <1>1 DEF Typed, BoundsTyped, bounds
<1> QED  BY <1>2, <1>3, <1>4, <1>5, <1>6, <1>7, <1>8, <1>9

\* The parts together, after a step.
LEMMA TypesJoin ==
    ASSUME SessionTyped', StoreTyped', QueueTyped', WritingTyped',
           ClockTyped', BarrierTyped', FlushesTyped', BoundsTyped'
    PROVE  TypeOK'
BY DEF TypeOK, SessionTyped, StoreTyped, QueueTyped, WritingTyped, ClockTyped,
       BarrierTyped, FlushesTyped, BoundsTyped

\* Lengths are numbers and the controller is done with the rest of the log.
LEMMA Sizes ==
    ASSUME TypeOK, QueueIsTheEnd
    PROVE  /\ MaxEvents \in Nat /\ NoRewind \notin 0 .. MaxEvents
           /\ Len(log) \in Nat /\ DOMAIN log = 1 .. Len(log)
           /\ Len(stored) \in Nat /\ DOMAIN stored = 1 .. Len(stored)
           /\ Len(seed) \in Nat /\ DOMAIN seed = 1 .. Len(seed)
           /\ Len(batch) \in Nat /\ DOMAIN batch = 1 .. Len(batch)
           /\ Len(pending) \in Nat /\ DOMAIN pending = 1 .. Len(pending)
           /\ Len(fresh) \in Nat /\ DOMAIN fresh = 1 .. Len(fresh)
           /\ Base \in Nat /\ Len(log) = Base + Len(batch) + Len(pending)
           /\ state.cursor \in Nat /\ state.materialized \in BOOLEAN /\ timers \in Nat
<1>1. /\ Len(log) \in Nat /\ Len(batch) \in Nat /\ Len(pending) \in Nat
  BY DEF TypeOK
<1>2. Base \in Nat /\ Len(log) = Base + Len(batch) + Len(pending)
  BY <1>1 DEF Base, QueueIsTheEnd
<1>3. MaxEvents \in Nat /\ NoRewind \notin 0 .. MaxEvents
  BY ConstantsAreValid DEF NoRewind
<1>4. QED
  BY <1>1, <1>2, <1>3 DEF TypeOK

\* What an entry says.
LEMMA EntryFields == \A i : EntryAt(i).seq = i - 1 /\ EntryAt(i).id = log[i]
BY DEF EntryAt

\* Putting a failed batch back makes one queue of it and what came since.
LEMMA RetainedDoes ==
    ASSUME TypeOK, QueueIsTheEnd
    PROVE  /\ Retained \in Seq(Entry) /\ Len(Retained) = Len(batch) + Len(pending)
           /\ DOMAIN Retained = 1 .. (Len(batch) + Len(pending))
           /\ \A k \in DOMAIN Retained : Retained[k] = EntryAt(Base + k)
<1>1. batch \in Seq(Entry) /\ pending \in Seq(Entry)
  BY DEF TypeOK
<1>2. /\ Retained \in Seq(Entry) /\ Len(Retained) = Len(batch) + Len(pending)
      /\ \A i \in 1 .. Len(batch) + Len(pending) :
            Retained[i] = IF i <= Len(batch) THEN batch[i] ELSE pending[i - Len(batch)]
  BY <1>1, ConcatProperties DEF Retained
<1>3. DOMAIN Retained = 1 .. (Len(batch) + Len(pending))
  BY <1>2
<1>a. /\ Len(batch) \in Nat /\ DOMAIN batch = 1 .. Len(batch) /\ Base \in Nat
      /\ Len(pending) \in Nat /\ DOMAIN pending = 1 .. Len(pending)
  BY Sizes
<1>b. \A k \in DOMAIN batch : batch[k] = EntryAt(Base + k)
  BY DEF QueueIsTheEnd
<1>4. ASSUME NEW k \in DOMAIN Retained  PROVE Retained[k] = EntryAt(Base + k)
  <2>a. k \in 1 .. (Len(batch) + Len(pending))  BY <1>3
  <2>b. Retained[k] = IF k <= Len(batch) THEN batch[k] ELSE pending[k - Len(batch)]
    BY <1>2, <2>a
  <2>1. CASE k <= Len(batch)
    <3>1. k \in DOMAIN batch  BY <1>a, <2>a, <2>1
    <3> QED  BY <1>b, <2>b, <2>1, <3>1
  <2>2. CASE k > Len(batch)
    <3>1. k - Len(batch) \in DOMAIN pending /\ Base + Len(batch) + (k - Len(batch)) = Base + k
      BY <1>a, <2>a, <2>2
    <3>2. Retained[k] = pending[k - Len(batch)]
      <4>1. ~(k <= Len(batch))  BY <1>a, <2>a, <2>2
      <4> QED  BY <2>b, <4>1
    <3>3. pending[k - Len(batch)] = EntryAt(Base + Len(batch) + (k - Len(batch)))
      BY <3>1 DEF QueueIsTheEnd
    <3>4. QED
      BY <3>1, <3>2, <3>3
  <2>3. QED
    BY <1>a, <2>a, <2>1, <2>2
<1>5. QED
  BY <1>2, <1>3, <1>4

\* The number of integers from m to n.
LEMMA IntervalSize ==
    ASSUME NEW m \in Int, NEW n \in Int
    PROVE  /\ IsFiniteSet(m .. n)
           /\ Cardinality(m .. n) = IF m > n THEN 0 ELSE n - m + 1
BY FS_Interval, Zenon

\* Filtering the batch leaves the entries the cursor has not passed, which are
\* the last ones, in their order.
LEMMA FilteredDoes ==
    ASSUME TypeOK, QueueIsTheEnd, Base <= state.cursor
    PROVE  /\ Filtered \in Seq(Entry)
           /\ \A k \in DOMAIN Filtered : Filtered[k] = EntryAt(state.cursor + k)
           /\ \/ state.cursor + Len(Filtered) = Base + Len(batch)
              \/ Filtered = <<>> /\ Base + Len(batch) <= state.cursor
<1>1. PICK d \in Nat : /\ Base + d = state.cursor /\ Len(batch) \in Nat /\ Base \in Nat
                       /\ DOMAIN batch = 1 .. Len(batch) /\ state.cursor \in Nat
  <2>1. /\ Len(batch) \in Nat /\ DOMAIN batch = 1 .. Len(batch) /\ state.cursor \in Nat
        /\ Base \in Nat
    BY Sizes
  <2>2. state.cursor - Base \in Nat /\ Base + (state.cursor - Base) = state.cursor
    BY <2>1
  <2>3. QED
    BY <2>1, <2>2
<1>2. \A i \in DOMAIN batch : batch[i] = EntryAt(Base + i) /\ batch[i].seq = Base + i - 1
  <2> TAKE i \in DOMAIN batch
  <2>1. batch[i] = EntryAt(Base + i)
    BY DEF QueueIsTheEnd
  <2>2. EntryAt(Base + i).seq = (Base + i) - 1
    BY EntryFields, Zenon
  <2>3. (Base + i) - 1 = Base + i - 1
    BY <1>1
  <2>4. QED
    BY <2>1, <2>2, <2>3
<1>3. Kept = (d + 1) .. Len(batch)
  <2>1. \A i \in DOMAIN batch : batch[i].seq >= state.cursor <=> i >= d + 1
    BY <1>1, <1>2
  <2>2. \A i : i \in (d + 1) .. Len(batch) <=> i \in DOMAIN batch /\ i >= d + 1
    BY <1>1
  <2>3. QED
    BY <2>1, <2>2 DEF Kept
<1>4. PICK size \in Nat :
         /\ size = Cardinality(Kept)
         /\ \/ d + size = Len(batch)
            \/ size = 0 /\ Len(batch) <= d
  <2>1. d + 1 \in Int /\ Len(batch) \in Int
    BY <1>1
  <2>2. Cardinality(Kept) = IF d + 1 > Len(batch) THEN 0 ELSE Len(batch) - (d + 1) + 1
    BY <1>3, <2>1, IntervalSize
  <2>3. CASE d + 1 > Len(batch)
    <3>1. Cardinality(Kept) = 0
      BY <2>2, <2>3
    <3>2. Len(batch) <= d
      BY <1>1, <2>3
    <3>3. QED
      BY <3>1, <3>2
  <2>4. CASE ~(d + 1 > Len(batch))
    <3>1. Len(batch) - (d + 1) + 1 \in Nat /\ d + (Len(batch) - (d + 1) + 1) = Len(batch)
      BY <1>1, <2>4
    <3>2. Cardinality(Kept) \in Nat /\ d + Cardinality(Kept) = Len(batch)
      BY <2>2, <2>4, <3>1
    <3>3. QED
      BY <3>2
  <2>5. QED
    BY <2>3, <2>4
<1>6. \A k \in 1 .. size : d + k \in Kept /\ d + k \in DOMAIN batch
  BY <1>1, <1>3, <1>4
<1>7. \A i \in Kept : Cardinality({j \in Kept : j <= i}) = i - d
  <2> TAKE i \in Kept
  <2>1. i \in Int /\ d + 1 <= i /\ i <= Len(batch) /\ d + 1 \in Int
    BY <1>1, <1>3
  <2>2. {j \in Kept : j <= i} = (d + 1) .. i
    BY <1>1, <1>3, <2>1
  <2>3. Cardinality((d + 1) .. i) = IF d + 1 > i THEN 0 ELSE i - (d + 1) + 1
    BY <2>1, IntervalSize
  <2>4. Cardinality((d + 1) .. i) = i - d
    BY <1>1, <2>1, <2>3
  <2>5. QED
    BY <2>2, <2>4
<1>8. ASSUME NEW k \in 1 .. size
      PROVE  (CHOOSE i \in Kept : Cardinality({j \in Kept : j <= i}) = k) = d + k
  <2>1. \A i \in Kept : i - d = k <=> i = d + k
    BY <1>1, <1>3, <1>4
  <2>2. \A i \in Kept : Cardinality({j \in Kept : j <= i}) = k <=> i = d + k
    BY <1>7, <2>1
  <2>3. d + k \in Kept
    BY <1>6
  <2>4. QED
    BY <2>2, <2>3, Zenon
<1>9. Filtered = [k \in 1 .. size |->
                     batch[CHOOSE i \in Kept : Cardinality({j \in Kept : j <= i}) = k]]
  BY <1>4, Zenon DEF Filtered
<1>10. DOMAIN Filtered = 1 .. size /\ \A k \in 1 .. size : Filtered[k] = batch[d + k]
  <2>1. \A k \in 1 .. size :
           Filtered[k] = batch[CHOOSE i \in Kept : Cardinality({j \in Kept : j <= i}) = k]
    BY <1>9, Zenon
  <2>2. DOMAIN Filtered = 1 .. size
    BY <1>9, Zenon
  <2>3. QED
    BY <1>8, <2>1, <2>2, Zenon
<1>11. Filtered \in Seq(Entry) /\ Len(Filtered) = size
  <2>1. batch \in Seq(Entry)
    BY DEF TypeOK
  <2>2. \A k \in 1 .. size : Filtered[k] \in Entry
    BY <1>6, <1>10, <2>1
  <2>3. Filtered = [k \in 1 .. size |-> Filtered[k]]
    BY <1>9, <1>10
  <2>4. Filtered \in [1 .. size -> Entry]
    BY <2>2, <2>3
  <2>5. QED
    BY <1>4, <2>4
<1>12. ASSUME NEW k \in DOMAIN Filtered  PROVE Filtered[k] = EntryAt(state.cursor + k)
  <2>1. Filtered[k] = batch[d + k] /\ d + k \in DOMAIN batch /\ k \in Nat
    BY <1>6, <1>10
  <2>2. Base + (d + k) = state.cursor + k
    BY <1>1, <2>1
  <2>3. QED
    BY <1>2, <2>1, <2>2
<1>13. \/ state.cursor + size = Base + Len(batch)
       \/ size = 0 /\ Base + Len(batch) <= state.cursor
  BY <1>1, <1>4
<1>14. size = 0 => Filtered = <<>>
  BY <1>11
<1>15. QED
  BY <1>11, <1>12, <1>13, <1>14

\* So a write whose turn has come is accepted.
LEMMA QueuedIsAccepted ==
    ASSUME Inv, active = "queued", init = "ready", rewindTo = NoRewind,
           state.materialized = artifact
    PROVE  Accepted
<1>1. Base <= state.cursor
  BY DEF Inv, ContentInv, CursorIsExact
<1>2. \A k \in DOMAIN Filtered : Filtered[k] = EntryAt(state.cursor + k)
  BY <1>1, FilteredDoes DEF Inv, ContentInv
<1>3. ASSUME NEW k \in DOMAIN Filtered  PROVE Filtered[k].seq = state.cursor + k - 1
  <2>1. Filtered[k] = EntryAt(state.cursor + k)
    BY <1>2
  <2>2. EntryAt(state.cursor + k).seq = (state.cursor + k) - 1
    BY EntryFields, Zenon
  <2>3. state.cursor \in Nat /\ k \in Int
    BY <1>1, FilteredDoes, Sizes DEF Inv, ContentInv
  <2>4. (state.cursor + k) - 1 = state.cursor + k - 1
    BY <2>3
  <2>5. QED
    BY <2>1, <2>2, <2>4, Zenon
<1>4. QED
  BY <1>1, <1>3 DEF Accepted

-----------------------------------------------------------------------------
(* How a step changes the contents.                                        *)

\* A step that touches neither the log nor storage nor the queue.
LEMMA ContentStays ==
    ASSUME ContentInv,
           UNCHANGED <<log, born, stored, artifact, state, seed, init, rewindTo,
                       pending, batch, fresh, active>>,
           rewindTo # NoRewind => life' = "live",
           init # "ready" => barrier' = "none"
    PROVE  ContentInv'
<1>1. Base' = Base /\ \A i : EntryAt(i)' = EntryAt(i)
  BY DEF Base, EntryAt
<1>2. BornOnce' /\ StoredIsPrefix' /\ WriteIsNonempty'
  BY DEF ContentInv, BornOnce, StoredIsPrefix, WriteIsNonempty
<1>3. QueueIsTheEnd'
  BY DEF ContentInv, QueueIsTheEnd, Base, EntryAt
<1>4. SeedCovers' /\ CursorIsExact' /\ RewindIsQuiet'
  BY <1>1 DEF ContentInv, SeedCovers, CursorIsExact, RewindIsQuiet
<1>5. FreshIsNext'
  BY DEF ContentInv, FreshIsNext, Base, EntryAt
<1>6. QED
  BY <1>2, <1>3, <1>4, <1>5 DEF ContentInv

\* The controller lets the batch go and takes the queue, or leaves it.
LEMMA QueueMoves ==
    ASSUME TypeOK, QueueIsTheEnd, log' = log,
           \/ batch' = pending /\ pending' = <<>>
           \/ batch' = <<>> /\ pending' = pending
    PROVE  QueueIsTheEnd' /\ Base' = Base + Len(batch)
<1>1. Len(<<>>) = 0 /\ DOMAIN <<>> = {}
  OBVIOUS
<1>2. Base' = Base + Len(batch)
  <2>1. PICK l \in Nat, b \in Nat, q \in Nat : l = Len(log) /\ b = Len(batch) /\ q = Len(pending)
    BY Sizes
  <2>2. Base = l - b - q
    BY <2>1 DEF Base
  <2>3. Base' = Len(log') - Len(batch') - Len(pending')
    BY DEF Base
  <2>4. Len(log') = l /\ ((Len(batch') = q /\ Len(pending') = 0)
                          \/ (Len(batch') = 0 /\ Len(pending') = q))
    BY <1>1, <2>1, Zenon
  <2>5. Base' = l - q
    BY <2>3, <2>4
  <2>6. Base + Len(batch) = l - q
    BY <2>1, <2>2
  <2>7. QED
    BY <2>5, <2>6, Zenon
<1>3. \A k \in DOMAIN pending : pending[k] = EntryAt(Base + Len(batch) + k)
  BY DEF QueueIsTheEnd
<1>4. \A i : EntryAt(i)' = EntryAt(i)
  BY DEF EntryAt
<1>5. PICK b \in Nat : b = Base' /\ b = Base + Len(batch)
  BY <1>2, Sizes
<1>6. \A k \in DOMAIN pending : pending[k] = [seq |-> (b + k) - 1, id |-> log[b + k]]
  BY <1>3, <1>5 DEF EntryAt
<1>7. CASE batch' = pending /\ pending' = <<>>
  <2>1. \A k \in DOMAIN batch' : batch'[k] = [seq |-> (b + k) - 1, id |-> log'[b + k]]
    BY <1>6, <1>7
  <2>2. QED
    BY <1>1, <1>5, <1>7, <2>1 DEF QueueIsTheEnd, EntryAt
<1>8. CASE batch' = <<>> /\ pending' = pending
  <2>1. \A k \in DOMAIN pending' : pending'[k] = [seq |-> (b + 0 + k) - 1, id |-> log'[b + 0 + k]]
    BY <1>5, <1>6, <1>8
  <2>2. QED
    BY <1>1, <1>5, <1>8, <2>1 DEF QueueIsTheEnd, EntryAt
<1>9. QED
  BY <1>2, <1>5, <1>7, <1>8

\* The controller puts a failed batch back, to write it at once or later.
LEMMA QueueReturns ==
    ASSUME TypeOK, QueueIsTheEnd, log' = log,
           \/ batch' = Retained /\ pending' = <<>>
           \/ batch' = <<>> /\ pending' = Retained
    PROVE  QueueIsTheEnd' /\ Base' = Base
<1>1. Len(<<>>) = 0 /\ DOMAIN <<>> = {}
  OBVIOUS
<1>2. Len(Retained) = Len(batch) + Len(pending)
  BY RetainedDoes
<1>3. Base' = Base
  <2>1. PICK l \in Nat, b \in Nat, q \in Nat : l = Len(log) /\ b = Len(batch) /\ q = Len(pending)
    BY Sizes
  <2>2. Base = l - b - q
    BY <2>1 DEF Base
  <2>3. Base' = Len(log') - Len(batch') - Len(pending')
    BY DEF Base
  <2>4. Len(log') = l /\ ((Len(batch') = b + q /\ Len(pending') = 0)
                          \/ (Len(batch') = 0 /\ Len(pending') = b + q))
    BY <1>1, <1>2, <2>1, Zenon
  <2>5. Base' = l - (b + q)
    BY <2>3, <2>4
  <2>6. QED
    BY <2>2, <2>5
<1>4. PICK b \in Nat : b = Base' /\ b = Base
  BY <1>3, Sizes
<1>5. \A k \in DOMAIN Retained : Retained[k] = [seq |-> (b + k) - 1, id |-> log[b + k]]
  BY <1>4, RetainedDoes DEF EntryAt
<1>6. CASE batch' = Retained /\ pending' = <<>>
  <2>1. \A k \in DOMAIN batch' : batch'[k] = [seq |-> (b + k) - 1, id |-> log'[b + k]]
    BY <1>5, <1>6
  <2>2. QED
    BY <1>1, <1>4, <1>6, <2>1 DEF QueueIsTheEnd, EntryAt
<1>7. CASE batch' = <<>> /\ pending' = Retained
  <2>1. \A k \in DOMAIN pending' : pending'[k] = [seq |-> (b + 0 + k) - 1, id |-> log'[b + 0 + k]]
    BY <1>4, <1>5, <1>7
  <2>2. QED
    BY <1>1, <1>4, <1>7, <2>1 DEF QueueIsTheEnd, EntryAt
<1>8. QED
  BY <1>4, <1>6, <1>7

-----------------------------------------------------------------------------
(* Those who flush.                                                        *)

\* The states of a flush.
FlushStates == {"idle", "waiting", "joined", "done", "failed"}

\* Moving some of those who flush leaves the others where they are.
LEMMA BecomesDoes ==
    ASSUME NEW who, NEW what \in FlushStates, TypeOK, flusher' = Becomes(who, what)
    PROVE  /\ \A f \in Flushers : flusher'[f] = IF f \in who THEN what ELSE flusher[f]
           /\ flusher' \in [Flushers -> FlushStates]
<1>1. \A f \in Flushers : flusher'[f] = IF f \in who THEN what ELSE flusher[f]
  BY DEF Becomes
<1>2. \A f \in Flushers : (IF f \in who THEN what ELSE flusher[f]) \in FlushStates
  BY DEF TypeOK, FlushStates
<1>3. QED
  BY <1>1, <1>2 DEF Becomes

\* Those who wait move.
LEMMA WaitingMoves ==
    ASSUME NEW what \in FlushStates, TypeOK, flusher' = Becomes(Waiting, what)
    PROVE  /\ \A f \in Flushers :
                 flusher'[f] = IF flusher[f] = "waiting" THEN what ELSE flusher[f]
           /\ flusher' \in [Flushers -> FlushStates]
<1>1. \A f \in Flushers : flusher'[f] = IF f \in Waiting THEN what ELSE flusher[f]
  BY BecomesDoes
<1>2. flusher' \in [Flushers -> FlushStates]
  BY BecomesDoes
<1>3. QED
  BY <1>1, <1>2 DEF Waiting

\* Those who joined the barrier move.
LEMMA JoinedMoves ==
    ASSUME NEW what \in FlushStates, TypeOK, flusher' = Becomes(Joined, what)
    PROVE  /\ \A f \in Flushers :
                 flusher'[f] = IF flusher[f] = "joined" THEN what ELSE flusher[f]
           /\ flusher' \in [Flushers -> FlushStates]
<1>1. \A f \in Flushers : flusher'[f] = IF f \in Joined THEN what ELSE flusher[f]
  BY BecomesDoes
<1>2. flusher' \in [Flushers -> FlushStates]
  BY BecomesDoes
<1>3. QED
  BY <1>1, <1>2 DEF Joined

\* The coordinator's own flushes are not a caller's.
LEMMA InternalFlushers ==
    /\ "retirement" \in Flushers /\ "teardown" \in Flushers
    /\ Internal \subseteq Flushers
    /\ \A c \in Callers : c \in Flushers /\ c \notin Internal
    /\ \A c \in Callers : c # "retirement" /\ c # "teardown"
BY InternalIsReserved DEF Flushers, Internal

\* Cancelling leaves no deadline armed.
LEMMA CancelDisarms ==
    ASSUME TypeOK, OneDeadline
    PROVE  Cancelled = 0
BY DEF TypeOK, OneDeadline, Cancelled

\* One who asks for a flush.
LEMMA AskDoes ==
    ASSUME NEW f \in Flushers, TypeOK, OneDeadline, AskFlush(f)
    PROVE  /\ \A g \in Flushers : flusher'[g] = IF g = f THEN "waiting" ELSE flusher[g]
           /\ \A g \in Flushers : goal'[g] = IF g = f THEN Len(log) ELSE goal[g]
           /\ flusher' \in [Flushers -> FlushStates]
           /\ timers' = 0 /\ expired' = FALSE /\ paused' = paused
           /\ Len(log) \in 0 .. MaxEvents => goal' \in [Flushers -> 0 .. MaxEvents]
BY CancelDisarms DEF TypeOK, AskFlush, FlushStates

\* The log is never longer than the number of events ever created.
LEMMA LogIsBounded ==
    ASSUME TypeOK, BornOnce
    PROVE  Len(log) \in 0 .. MaxEvents
BY ConstantsAreValid DEF TypeOK, BornOnce

\* A caller asks for a flush.
LEMMA FlushCallKeeps ==
    ASSUME Inv, NEW c \in Callers, FlushCall(c)
    PROVE  Inv'
<1>. USE DEF Inv, ControlInv
<1>1. c \in Flushers /\ OneDeadline /\ flusher[c] = "idle"
  BY InternalFlushers DEF FlushCall, Idle, TimerIsSound
<1>2. /\ \A g \in Flushers : flusher'[g] = IF g = c THEN "waiting" ELSE flusher[g]
      /\ \A g \in Flushers : goal'[g] = IF g = c THEN Len(log) ELSE goal[g]
      /\ flusher' \in [Flushers -> FlushStates]
      /\ timers' = 0 /\ expired' = FALSE /\ paused' = paused
      /\ goal' \in [Flushers -> 0 .. MaxEvents]
  BY <1>1, AskDoes, LogIsBounded DEF FlushCall, ContentInv
<1>3. /\ UNCHANGED <<session, store, queue, writing, barrier, bounds>>
      /\ service = "open" /\ life = "live"
  BY DEF FlushCall
<1>4. TypeOK'
  <2>1. /\ SessionTyped' /\ StoreTyped' /\ QueueTyped' /\ WritingTyped'
        /\ BarrierTyped' /\ BoundsTyped'
    BY <1>3, TypesStay
  <2>2. ClockTyped'
    BY <1>2 DEF TypeOK, ClockTyped
  <2>3. FlushesTyped'
    BY <1>2 DEF FlushesTyped, FlushStates
  <2>4. QED
    BY <2>1, <2>2, <2>3, TypesJoin
<1>5. ContentInv'
  BY <1>3, ContentStays
     DEF ContentInv, RewindIsQuiet, SeedCovers, session, store, queue, writing
<1>6. ControlInv'
  <2>1. TimerIsSound'
    BY <1>1, <1>2, <1>3 DEF TimerIsSound, WorkIsScheduled, OneDeadline, Waiting
  <2>2. PausedIsUnarmed' /\ GoalsAreLogged'
    BY <1>2, <1>3, LogIsBounded DEF PausedIsUnarmed, GoalsAreLogged, session, ContentInv
  <2>3. BarrierIsBusy'
    BY <1>1, <1>2, <1>3 DEF BarrierIsBusy, Joined, queue, writing
  <2>4. FlushIsBarrier'
    BY <1>1, <1>2, <1>3 DEF FlushIsBarrier, session, store
  <2>5. EndsAreAsked' /\ EndsAreQuiet'
    BY <1>1, <1>2, <1>3, InternalFlushers
       DEF EndsAreAsked, EndsAreQuiet, Internal, session, store, queue, writing
  <2>6. QED
    BY <2>1, <2>2, <2>3, <2>4, <2>5
<1>7. QED
  BY <1>4, <1>5, <1>6

\* Those who wait join the barrier that is open.
LEMMA JoinKeeps ==
    ASSUME Inv, Join
    PROVE  Inv'
<1>. USE DEF Inv, ControlInv
<1>1. /\ UNCHANGED <<session, store, queue, writing, clock, barrier, goal, bounds>>
      /\ barrier # "none" /\ init = "ready"
  BY DEF Join
<1>2. /\ \A f \in Flushers : flusher'[f] = IF flusher[f] = "waiting" THEN "joined" ELSE flusher[f]
      /\ flusher' \in [Flushers -> FlushStates]
  BY WaitingMoves DEF Join, FlushStates
<1>3. TypeOK'
  BY <1>1, <1>2 DEF TypeOK, FlushStates, session, store, queue, writing, clock, bounds
<1>4. ContentInv'
  BY <1>1, ContentStays
     DEF ContentInv, RewindIsQuiet, SeedCovers, session, store, queue, writing
<1>5. ControlInv'
  <2>1. TimerIsSound' /\ PausedIsUnarmed' /\ GoalsAreLogged'
    BY <1>1 DEF TimerIsSound, WorkIsScheduled, OneDeadline, PausedIsUnarmed, GoalsAreLogged,
                session, store, queue, writing, clock
  <2>2. BarrierIsBusy'
    BY <1>1, <1>2 DEF BarrierIsBusy, Joined, queue, writing, clock
  <2>3. FlushIsBarrier'
    BY <1>1, <1>2 DEF FlushIsBarrier, session, store
  <2>4. EndsAreAsked'
    BY <1>1, <1>2, InternalFlushers DEF EndsAreAsked, session, store, queue, writing
  <2>5. EndsAreQuiet'
    BY <1>1, <1>2, InternalFlushers DEF EndsAreQuiet, Waiting, store, queue, writing, clock
  <2>6. QED
    BY <2>1, <2>2, <2>3, <2>4, <2>5
<1>6. QED
  BY <1>3, <1>4, <1>5

\* A flush of a session whose initialisation failed is refused.
LEMMA FlushFailsKeeps ==
    ASSUME Inv, FlushFails
    PROVE  Inv'
<1>. USE DEF Inv, ControlInv
<1>1. /\ UNCHANGED <<session, store, queue, writing, paused, barrier, goal, bounds>>
      /\ init = "failed" /\ timers' = 0 /\ expired' = FALSE /\ barrier = "none"
  BY CancelDisarms DEF FlushFails, TimerIsSound, ContentInv, SeedCovers
<1>2. /\ \A f \in Flushers : flusher'[f] = IF flusher[f] = "waiting" THEN "failed" ELSE flusher[f]
      /\ flusher' \in [Flushers -> FlushStates]
  BY WaitingMoves DEF FlushFails, FlushStates
<1>3. TypeOK'
  <2>1. /\ SessionTyped' /\ StoreTyped' /\ QueueTyped' /\ WritingTyped'
        /\ BarrierTyped' /\ BoundsTyped'
    BY <1>1, TypesStay
  <2>2. ClockTyped'
    BY <1>1 DEF TypeOK, ClockTyped
  <2>3. FlushesTyped'
    BY <1>1, <1>2 DEF TypeOK, FlushesTyped, FlushStates
  <2>4. QED
    BY <2>1, <2>2, <2>3, TypesJoin
<1>4. ContentInv'
  BY <1>1, ContentStays
     DEF ContentInv, RewindIsQuiet, SeedCovers, session, store, queue, writing
<1>5. ControlInv'
  <2>1. TimerIsSound' /\ PausedIsUnarmed' /\ GoalsAreLogged'
    BY <1>1 DEF TimerIsSound, WorkIsScheduled, OneDeadline, PausedIsUnarmed, GoalsAreLogged,
                session, store, queue, writing
  <2>2. BarrierIsBusy'
    BY <1>1, <1>2 DEF BarrierIsBusy, Joined, queue, writing
  <2>3. FlushIsBarrier'
    BY <1>1, <1>2 DEF FlushIsBarrier, session, store
  <2>4. EndsAreAsked'
    BY <1>1, <1>2, InternalFlushers DEF EndsAreAsked, session, store, queue, writing
  <2>5. EndsAreQuiet'
    BY <1>1, <1>2, InternalFlushers DEF EndsAreQuiet, Waiting, store, queue, writing
  <2>6. QED
    BY <2>1, <2>2, <2>3, <2>4, <2>5
<1>6. QED
  BY <1>3, <1>4, <1>5

\* A barrier whose own write failed tells those who joined it.
LEMMA BarrierFailsKeeps ==
    ASSUME Inv, BarrierFails
    PROVE  Inv'
<1>. USE DEF Inv, ControlInv
<1>1. /\ UNCHANGED <<session, store, queue, writing, clock, goal, bounds>>
      /\ barrier = "failing" /\ barrier' = "none"
  BY DEF BarrierFails, EndBarrier
<1>2. /\ \A f \in Flushers : flusher'[f] = IF flusher[f] = "joined" THEN "failed" ELSE flusher[f]
      /\ flusher' \in [Flushers -> FlushStates]
  BY JoinedMoves DEF BarrierFails, EndBarrier, FlushStates
<1>3. paused /\ timers = 0 /\ active = "none" /\ init = "ready"
  BY <1>1 DEF BarrierIsBusy, PausedIsUnarmed, ContentInv, SeedCovers
<1>4. TypeOK'
  BY <1>1, <1>2 DEF TypeOK, FlushStates, session, store, queue, writing, clock, bounds
<1>5. ContentInv'
  BY <1>1, ContentStays
     DEF ContentInv, RewindIsQuiet, SeedCovers, session, store, queue, writing
<1>6. ControlInv'
  <2>1. TimerIsSound' /\ PausedIsUnarmed' /\ GoalsAreLogged'
    BY <1>1, <1>3 DEF TimerIsSound, WorkIsScheduled, OneDeadline, PausedIsUnarmed,
                      GoalsAreLogged, TypeOK, session, store, queue, writing, clock
  <2>2. BarrierIsBusy'
    BY <1>1, <1>2, <1>3 DEF BarrierIsBusy, Joined, queue, writing, clock
  <2>3. FlushIsBarrier'
    BY <1>1, <1>2 DEF FlushIsBarrier, session, store
  <2>4. EndsAreAsked'
    BY <1>1, <1>2, InternalFlushers DEF EndsAreAsked, session, store, queue, writing
  <2>5. EndsAreQuiet'
    BY <1>1, <1>2, <1>3, InternalFlushers
       DEF EndsAreQuiet, Waiting, store, queue, writing, clock
  <2>6. QED
    BY <2>1, <2>2, <2>3, <2>4, <2>5
<1>7. QED
  BY <1>4, <1>5, <1>6

\* The session is disposed, and its retirement asks for a flush.
LEMMA DisposeKeeps ==
    ASSUME Inv, "busy-rewind" \notin Admitted, Dispose
    PROVE  Inv'
<1>. USE DEF Inv, ControlInv
<1>1. /\ UNCHANGED <<log, born, store, queue, writing, barrier, bounds>>
      /\ life = "live" /\ life' = "disposed" /\ service = "open" /\ rewindTo = NoRewind
  BY DEF Dispose
<1>2. /\ \A g \in Flushers :
             flusher'[g] = IF g = "retirement" THEN "waiting" ELSE flusher[g]
      /\ \A g \in Flushers : goal'[g] = IF g = "retirement" THEN Len(log) ELSE goal[g]
      /\ flusher' \in [Flushers -> FlushStates]
      /\ timers' = 0 /\ expired' = FALSE /\ paused' = paused
      /\ goal' \in [Flushers -> 0 .. MaxEvents]
  BY InternalFlushers, AskDoes, LogIsBounded DEF Dispose, ContentInv, TimerIsSound
<1>3. flusher["retirement"] = "idle" /\ flusher["teardown"] = "idle"
  BY <1>1 DEF EndsAreAsked
<1>4. TypeOK'
  <2>1. StoreTyped' /\ QueueTyped' /\ WritingTyped' /\ BarrierTyped' /\ BoundsTyped'
    BY <1>1, TypesStay
  <2>2. SessionTyped'
    BY <1>1 DEF TypeOK, SessionTyped
  <2>3. ClockTyped'
    BY <1>2 DEF TypeOK, ClockTyped
  <2>4. FlushesTyped'
    BY <1>2 DEF FlushesTyped, FlushStates
  <2>5. QED
    BY <2>1, <2>2, <2>3, <2>4, TypesJoin
<1>5. ContentInv'
  BY <1>1, ContentStays
     DEF ContentInv, RewindIsQuiet, SeedCovers, store, queue, writing
<1>6. ControlInv'
  <2>1. TimerIsSound'
    BY <1>1, <1>2, InternalFlushers DEF TimerIsSound, WorkIsScheduled, OneDeadline, Waiting, TypeOK
  <2>2. PausedIsUnarmed' /\ GoalsAreLogged'
    BY <1>1, <1>2, LogIsBounded DEF PausedIsUnarmed, GoalsAreLogged, ContentInv
  <2>3. BarrierIsBusy'
    BY <1>1, <1>2, <1>3 DEF BarrierIsBusy, Joined, queue, writing
  <2>4. FlushIsBarrier'
    BY <1>1, <1>2 DEF FlushIsBarrier, store
  <2>5. EndsAreAsked'
    BY <1>1, <1>2, <1>3, InternalFlushers DEF EndsAreAsked, store
  <2>6. EndsAreQuiet'
    BY <1>1, <1>2, <1>3, InternalFlushers DEF EndsAreQuiet, Internal
  <2>7. QED
    BY <2>1, <2>2, <2>3, <2>4, <2>5, <2>6
<1>7. QED
  BY <1>4, <1>5, <1>6

\* A retirement whose flush succeeded releases a session that is wholly on disk.
LEMMA RetireKeeps ==
    ASSUME Inv, Retire
    PROVE  Inv'
<1>. USE DEF Inv, ControlInv
<1>1. /\ UNCHANGED <<log, born, store, queue, writing, clock, barrier, flushes, bounds>>
      /\ life = "disposed" /\ life' = Retired
  BY DEF Retire
<1>2. rewindTo = NoRewind
  BY <1>1 DEF ContentInv, RewindIsQuiet
<1>3. flusher["retirement"] = "done" => Len(stored) = Len(log)
  <2>1. goal["retirement"] = Len(log) /\ life # "released"
    BY <1>1 DEF EndsAreAsked
  <2>2. flusher["retirement"] = "done" => Len(log) <= Len(stored)
    BY <1>2, <2>1, InternalFlushers DEF FlushIsBarrier
  <2>3. Len(stored) <= Len(log) /\ Len(stored) \in Nat /\ Len(log) \in Nat
    BY Sizes DEF ContentInv, StoredIsPrefix
  <2>4. QED
    BY <2>2, <2>3
<1>4. life' = "released" => flusher["retirement"] = "done"
  BY <1>1 DEF Retired
<1>5. life' \in {"released", "kept"}
  BY <1>1 DEF Retired
<1>6. TypeOK'
  BY <1>1, <1>5 DEF TypeOK, store, queue, writing, clock, flushes, bounds
<1>7. ContentInv'
  BY <1>1, <1>2, ContentStays
     DEF ContentInv, RewindIsQuiet, SeedCovers, store, queue, writing
<1>8. ControlInv'
  <2>1. TimerIsSound' /\ PausedIsUnarmed' /\ GoalsAreLogged' /\ BarrierIsBusy' /\ EndsAreQuiet'
    BY <1>1 DEF TimerIsSound, WorkIsScheduled, OneDeadline, PausedIsUnarmed, GoalsAreLogged,
                BarrierIsBusy, EndsAreQuiet, Joined, Waiting,
                store, queue, writing, clock, flushes
  <2>2. FlushIsBarrier'
    BY <1>1 DEF FlushIsBarrier, store, flushes
  <2>3. EndsAreAsked'
    BY <1>1, <1>3, <1>4, <1>5 DEF EndsAreAsked, store, flushes
  <2>4. QED
    BY <2>1, <2>2, <2>3
<1>9. QED
  BY <1>6, <1>7, <1>8

\* The backend's teardown asks for a flush of a session it still holds.
LEMMA TeardownKeeps ==
    ASSUME Inv, Teardown
    PROVE  Inv'
<1>. USE DEF Inv, ControlInv
<1>1. /\ UNCHANGED <<session, stored, artifact, state, seed, init, rewindTo,
                     queue, writing, barrier, bounds>>
      /\ service = "open" /\ service' = "closing"
  BY DEF Teardown
<1>2. flusher["teardown"] = "idle" /\ "teardown" # "retirement"
  BY <1>1 DEF EndsAreAsked
<1>3. ContentInv'
  BY <1>1, ContentStays
     DEF ContentInv, RewindIsQuiet, SeedCovers, session, queue, writing
<1>4. CASE life = "released"
  <2>1. flusher' = [flusher EXCEPT !["teardown"] = "done"] /\ UNCHANGED <<goal, clock>>
    BY <1>4 DEF Teardown
  <2>2. /\ \A g \in Flushers : flusher'[g] = IF g = "teardown" THEN "done" ELSE flusher[g]
        /\ flusher' \in [Flushers -> FlushStates]
    BY <2>1 DEF TypeOK, FlushStates
  <2>3. pending = <<>> /\ active = "none"
    BY <1>4 DEF EndsAreAsked, EndsAreQuiet, Internal
  <2>4. TypeOK'
    BY <1>1, <2>1, <2>2 DEF TypeOK, FlushStates, session, queue, writing, clock, bounds
  <2>5. TimerIsSound' /\ PausedIsUnarmed' /\ GoalsAreLogged'
    BY <1>1, <2>1, <2>3 DEF TimerIsSound, WorkIsScheduled, OneDeadline, PausedIsUnarmed,
                            GoalsAreLogged, session, queue, writing, clock
  <2>6. BarrierIsBusy'
    BY <1>1, <2>1, <2>2 DEF BarrierIsBusy, Joined, queue, writing, clock
  <2>7. FlushIsBarrier'
    BY <1>1, <1>4 DEF FlushIsBarrier, session
  <2>8. EndsAreAsked'
    BY <1>1, <1>2, <1>4, <2>1, <2>2, InternalFlushers DEF EndsAreAsked, session
  <2>9. EndsAreQuiet'
    BY <1>1, <1>2, <2>1, <2>2, <2>3, InternalFlushers
       DEF EndsAreQuiet, Internal, queue, writing
  <2>10. QED
    BY <1>3, <2>4, <2>5, <2>6, <2>7, <2>8, <2>9
<1>5. CASE life # "released"
  <2>1. /\ \A g \in Flushers :
               flusher'[g] = IF g = "teardown" THEN "waiting" ELSE flusher[g]
        /\ \A g \in Flushers : goal'[g] = IF g = "teardown" THEN Len(log) ELSE goal[g]
        /\ flusher' \in [Flushers -> FlushStates]
        /\ timers' = 0 /\ expired' = FALSE /\ paused' = paused
        /\ goal' \in [Flushers -> 0 .. MaxEvents]
    BY <1>5, InternalFlushers, AskDoes, LogIsBounded DEF Teardown, ContentInv, TimerIsSound
  <2>2. TypeOK'
    <3>1. barrier' = barrier /\ service' = "closing"
      BY <1>1
    <3>2. UNCHANGED <<log, born, life, stored, artifact, state, seed, init, rewindTo,
                      pending, batch, fresh, active, background, failures, rewinds>>
      BY <1>1 DEF session, queue, writing, bounds
    <3>3. /\ flusher' \in [Flushers -> FlushStates] /\ goal' \in [Flushers -> 0 .. MaxEvents]
          /\ timers' \in Nat /\ expired' \in BOOLEAN /\ paused' \in BOOLEAN
      BY <2>1 DEF TypeOK
    <3>4. QED
      BY <3>1, <3>2, <3>3 DEF TypeOK, FlushStates
  <2>3. TimerIsSound'
    BY <1>1, <2>1, InternalFlushers DEF TimerIsSound, WorkIsScheduled, OneDeadline, Waiting, TypeOK
  <2>4. PausedIsUnarmed' /\ GoalsAreLogged'
    BY <1>1, <2>1, LogIsBounded DEF PausedIsUnarmed, GoalsAreLogged, ContentInv, session
  <2>5. BarrierIsBusy'
    BY <1>1, <1>2, <2>1 DEF BarrierIsBusy, Joined, queue, writing
  <2>6. FlushIsBarrier'
    BY <1>1, <2>1 DEF FlushIsBarrier, session
  <2>7. EndsAreAsked'
    BY <1>1, <1>2, <1>5, <2>1, InternalFlushers DEF EndsAreAsked, session
  <2>8. EndsAreQuiet'
    BY <1>1, <1>2, <2>1, InternalFlushers DEF EndsAreQuiet, Internal, queue, writing
  <2>9. QED
    BY <1>3, <2>2, <2>3, <2>4, <2>5, <2>6, <2>7, <2>8
<1>6. QED
  BY <1>4, <1>5

\* The backend closes once teardown was answered.
LEMMA CloseKeeps ==
    ASSUME Inv, Close
    PROVE  Inv'
<1>. USE DEF Inv, ControlInv
<1>1. /\ UNCHANGED <<session, stored, artifact, state, seed, init, rewindTo,
                     queue, writing, clock, barrier, flushes, bounds>>
      /\ service = "closing" /\ service' = "closed"
      /\ flusher["teardown"] \in {"done", "failed"}
  BY DEF Close
<1>2. TypeOK'
  BY <1>1 DEF TypeOK, session, queue, writing, clock, flushes, bounds
<1>3. ContentInv'
  BY <1>1, ContentStays
     DEF ContentInv, RewindIsQuiet, SeedCovers, session, queue, writing
<1>4. ControlInv'
  <2>1. TimerIsSound' /\ PausedIsUnarmed' /\ GoalsAreLogged' /\ BarrierIsBusy' /\ EndsAreQuiet'
    BY <1>1 DEF TimerIsSound, WorkIsScheduled, OneDeadline, PausedIsUnarmed, GoalsAreLogged,
                BarrierIsBusy, EndsAreQuiet, Joined, Waiting,
                session, queue, writing, clock, flushes
  <2>2. FlushIsBarrier'
    BY <1>1 DEF FlushIsBarrier, session, flushes
  <2>3. EndsAreAsked'
    BY <1>1 DEF EndsAreAsked, session, flushes
  <2>4. QED
    BY <2>1, <2>2, <2>3
<1>5. QED
  BY <1>2, <1>3, <1>4

-----------------------------------------------------------------------------
(* The queue and its timer.                                                *)

\* An idle controller starts to write its queue.
LEMMA QueueTakes ==
    ASSUME TypeOK, ContentInv, active = "none", pending # <<>>,
           batch' = pending, pending' = <<>>, active' = "queued",
           UNCHANGED <<log, born, stored, artifact, state, seed, init, rewindTo, fresh>>,
           init # "ready" => barrier' = "none"
    PROVE  ContentInv'
<1>. USE DEF ContentInv
<1>1. batch = <<>> /\ Len(batch) = 0 /\ rewindTo = NoRewind
  BY DEF WriteIsNonempty, RewindIsQuiet
<1>2. QueueIsTheEnd' /\ Base' = Base + Len(batch)
  BY QueueMoves
<1>3. Base' = Base
  BY <1>1, <1>2, Sizes
<1>4. BornOnce' /\ StoredIsPrefix' /\ WriteIsNonempty' /\ FreshIsNext' /\ RewindIsQuiet'
  BY <1>1 DEF BornOnce, StoredIsPrefix, WriteIsNonempty, FreshIsNext, RewindIsQuiet, NoRewind
<1>5. SeedCovers' /\ CursorIsExact'
  BY <1>3 DEF SeedCovers, CursorIsExact, NoRewind
<1>6. QED
  BY <1>2, <1>4, <1>5

\* A deadline expires: the queue is written, or remembers it while it cannot be.
LEMMA DeadlineKeeps ==
    ASSUME Inv, Deadline
    PROVE  Inv'
<1>. USE DEF Inv, ControlInv
<1>1. /\ UNCHANGED <<session, store, fresh, paused, barrier, flushes, bounds>>
      /\ timers > 0
  BY DEF Deadline
<1>2. timers = 1 /\ pending # <<>> /\ barrier = "none" /\ ~paused
  BY <1>1 DEF TimerIsSound, OneDeadline, PausedIsUnarmed
<1>3. CASE active # "none"
  <2>1. timers' = 0 /\ expired' = TRUE /\ UNCHANGED <<pending, batch, writing>>
    BY <1>2, <1>3 DEF Deadline
  <2>2. background
    BY <1>2, <1>3 DEF BarrierIsBusy
  <2>3. TypeOK'
    BY <1>1, <2>1 DEF TypeOK, session, store, writing, flushes, bounds
  <2>4. ContentInv'
    BY <1>1, <2>1, ContentStays
       DEF ContentInv, RewindIsQuiet, SeedCovers, session, store, writing
  <2>5. TimerIsSound' /\ PausedIsUnarmed' /\ GoalsAreLogged' /\ BarrierIsBusy'
    BY <1>1, <1>2, <1>3, <2>1, <2>2
       DEF TimerIsSound, WorkIsScheduled, OneDeadline, PausedIsUnarmed, GoalsAreLogged,
           BarrierIsBusy, Joined, session, writing, flushes
  <2>6. FlushIsBarrier' /\ EndsAreAsked' /\ EndsAreQuiet'
    BY <1>1, <2>1 DEF FlushIsBarrier, EndsAreAsked, EndsAreQuiet, Waiting,
                      session, store, writing, flushes
  <2>7. QED
    BY <2>3, <2>4, <2>5, <2>6
<1>4. CASE active = "none"
  <2>1. /\ batch' = pending /\ pending' = <<>> /\ active' = "queued" /\ background' = TRUE
        /\ timers' = 0 /\ expired' = FALSE
    BY <1>4, CancelDisarms DEF Deadline, StartWrite, TimerIsSound
  <2>2. TypeOK'
    <3>1. batch' \in Seq(Entry) /\ pending' \in Seq(Entry) /\ timers' \in Nat
      BY <2>1 DEF TypeOK
    <3>2. QED
      <4>1. /\ SessionTyped' /\ StoreTyped' /\ BarrierTyped' /\ FlushesTyped' /\ BoundsTyped'
        BY <1>1, TypesStay
      <4>2. QueueTyped'
        BY <1>1, <3>1 DEF TypeOK, QueueTyped
      <4>3. WritingTyped' /\ ClockTyped'
        BY <1>1, <2>1, <3>1 DEF TypeOK, WritingTyped, ClockTyped
      <4>4. QED
        BY <4>1, <4>2, <4>3, TypesJoin
  <2>3. init # "ready" => barrier' = "none"
    BY <1>1, <1>2
  <2>4. UNCHANGED <<log, born, stored, artifact, state, seed, init, rewindTo, fresh>>
    BY <1>1 DEF session, store
  <2>5. ContentInv'
    BY <1>2, <1>4, <2>1, <2>3, <2>4, QueueTakes
  <2>6. TimerIsSound' /\ PausedIsUnarmed' /\ GoalsAreLogged' /\ BarrierIsBusy'
    BY <1>1, <1>2, <2>1
       DEF TimerIsSound, WorkIsScheduled, OneDeadline, PausedIsUnarmed, GoalsAreLogged,
           BarrierIsBusy, Joined, session, flushes
  <2>7. FlushIsBarrier' /\ EndsAreAsked'
    BY <1>1, <2>1 DEF FlushIsBarrier, EndsAreAsked, session, store, flushes
  <2>8. EndsAreQuiet'
    BY <1>1, <1>2, <2>1 DEF EndsAreQuiet, Waiting, flushes
  <2>9. QED
    BY <2>2, <2>5, <2>6, <2>7, <2>8
<1>5. QED
  BY <1>3, <1>4

\* The session appends an event, and the controller queues it.
LEMMA AppendEventKeeps ==
    ASSUME Inv, "busy-rewind" \notin Admitted, AppendEvent
    PROVE  Inv'
<1>. USE DEF Inv, ControlInv
<1>1. /\ UNCHANGED <<life, store, batch, fresh, writing, barrier, flushes, bounds>>
      /\ life = "live" /\ service = "open" /\ rewindTo = NoRewind /\ born < MaxEvents
      /\ log' = Append(log, born + 1) /\ born' = born + 1
      /\ pending' = Append(pending, [seq |-> Len(log), id |-> born + 1])
      /\ timers' = (IF Arms THEN timers + 1 ELSE timers)
      /\ paused' = (paused /\ barrier # "none")
      /\ expired' = (expired /\ ~(paused /\ barrier = "none"))
  BY DEF AppendEvent, Enqueue
<1>2. PICK n \in Nat : /\ n = Len(log) /\ n <= born /\ n <= MaxEvents - 1
                       /\ n \in 0 .. MaxEvents /\ born \in Nat /\ born <= MaxEvents - 1
  <2>1. /\ Len(log) \in Nat /\ Len(log) <= born /\ born \in Nat /\ MaxEvents \in Nat
        /\ born < MaxEvents
    BY <1>1, Sizes DEF TypeOK, BornOnce, ContentInv
  <2>2. QED
    BY <2>1
<1>3. born + 1 \in Event /\ [seq |-> n, id |-> born + 1] \in Entry
  <2>1. MaxEvents \in Nat
    BY ConstantsAreValid
  <2>2. born + 1 \in 1 .. MaxEvents
    BY <1>2, <2>1
  <2>3. QED
    BY <1>2, <2>2 DEF Event, Entry
<1>4. /\ log' \in Seq(Event) /\ Len(log') = n + 1 /\ log'[n + 1] = born + 1
      /\ \A i \in 1 .. n : log'[i] = log[i]
  <2>1. log \in Seq(Event)
    BY DEF TypeOK, Event
  <2>2. QED
    BY <1>1, <1>2, <1>3, <2>1, AppendProperties
<1>5. /\ pending' \in Seq(Entry) /\ Len(pending') = Len(pending) + 1
      /\ pending'[Len(pending) + 1] = [seq |-> n, id |-> born + 1]
      /\ \A k \in 1 .. Len(pending) : pending'[k] = pending[k]
  <2>1. pending \in Seq(Entry)
    BY DEF TypeOK
  <2>2. QED
    BY <1>1, <1>2, <1>3, <2>1, AppendProperties
<1>6. PICK b \in Nat, l \in Nat, q \in Nat :
         /\ b = Base /\ l = Len(batch) /\ q = Len(pending) /\ n = b + l + q
         /\ DOMAIN batch = 1 .. l /\ DOMAIN pending = 1 .. q
  BY <1>2, Sizes DEF ContentInv
<1>7. Base' = b
  <2>1. Base' = Len(log') - Len(batch') - Len(pending')
    BY DEF Base
  <2>2. Len(log') = n + 1 /\ Len(batch') = l /\ Len(pending') = q + 1
    BY <1>1, <1>4, <1>5, <1>6
  <2>3. QED
    BY <1>6, <2>1, <2>2
<1>8. \A i \in 1 .. n : EntryAt(i)' = EntryAt(i)
  BY <1>4 DEF EntryAt
<1>9. TypeOK'
  <2>1. timers' \in Nat /\ paused' \in BOOLEAN /\ expired' \in BOOLEAN
    BY <1>1 DEF TypeOK
  <2>2. born' \in 0 .. MaxEvents /\ log' \in Seq(1 .. MaxEvents)
    BY <1>1, <1>4, Sizes DEF TypeOK, Event
  <2>3. QED
    BY <1>1, <1>5, <2>1, <2>2 DEF TypeOK, store, writing, flushes, bounds
<1>10. ContentInv'
  <2>1. BornOnce' /\ WriteIsNonempty' /\ RewindIsQuiet'
    BY <1>1, <1>2, <1>4, Sizes
       DEF ContentInv, BornOnce, WriteIsNonempty, RewindIsQuiet, TypeOK, store, writing, NoRewind
  <2>2. StoredIsPrefix'
    <3>1. stored' = stored /\ artifact' = artifact
      BY <1>1 DEF store
    <3>2. /\ Len(stored) <= n /\ Len(stored) \in Nat
          /\ \A i \in 1 .. Len(stored) : stored[i] = log[i]
          /\ stored # <<>> => artifact
      BY <1>2, Sizes DEF ContentInv, StoredIsPrefix
    <3>3. Len(stored) <= Len(log') /\ 1 .. Len(stored) \subseteq 1 .. n
      BY <1>2, <1>4, <3>2
    <3>4. \A i \in 1 .. Len(stored) : stored[i] = log'[i]
      BY <1>4, <3>2, <3>3
    <3>5. QED
      BY <3>1, <3>2, <3>3, <3>4 DEF StoredIsPrefix
  <2>3. QueueIsTheEnd'
    <3>1. \A k \in DOMAIN batch' : batch'[k] = [seq |-> (b + k) - 1, id |-> log'[b + k]]
      <4>1. \A k \in 1 .. l : batch[k] = [seq |-> (b + k) - 1, id |-> log[b + k]]
        BY <1>6 DEF ContentInv, QueueIsTheEnd, EntryAt
      <4>2. \A k \in 1 .. l : log'[b + k] = log[b + k]
        BY <1>4, <1>6
      <4>3. QED
        BY <1>1, <1>6, <4>1, <4>2
    <3>2. \A k \in 1 .. q + 1 : pending'[k] = [seq |-> (b + l + k) - 1, id |-> log'[b + l + k]]
      <4>1. \A k \in 1 .. q : pending[k] = [seq |-> (b + l + k) - 1, id |-> log[b + l + k]]
        BY <1>6 DEF ContentInv, QueueIsTheEnd, EntryAt
      <4>2. \A k \in 1 .. q : log'[b + l + k] = log[b + l + k]
        BY <1>4, <1>6
      <4>3. (b + l + (q + 1)) - 1 = n /\ b + l + (q + 1) = n + 1
        BY <1>6
      <4>4. pending'[q + 1] = [seq |-> (b + l + (q + 1)) - 1, id |-> log'[b + l + (q + 1)]]
        BY <1>4, <1>5, <1>6, <4>3
      <4>5. TAKE k \in 1 .. q + 1
      <4>6. k \in 1 .. q \/ k = q + 1
        OBVIOUS
      <4>7. CASE k \in 1 .. q
        <5>1. pending'[k] = pending[k]
          BY <1>5, <1>6, <4>7
        <5>2. QED
          BY <4>1, <4>2, <4>7, <5>1
      <4>8. QED
        BY <4>4, <4>6, <4>7
    <3>3. DOMAIN pending' = 1 .. q + 1
      BY <1>5, <1>6
    <3>4. b >= 0 /\ Len(batch') = l
      BY <1>1, <1>6
    <3>5. QED
      BY <1>7, <3>1, <3>2, <3>3, <3>4 DEF QueueIsTheEnd, EntryAt
  <2>4. SeedCovers'
    <3>1. /\ UNCHANGED <<init, rewindTo, active, barrier, stored, seed, state>>
          /\ Len(seed) \in Nat
      BY <1>1, Sizes DEF ContentInv, store, writing
    <3>2. SUFFICES ASSUME init # "ready"
                   PROVE  /\ rewindTo = NoRewind /\ active \in {"none", "queued"}
                          /\ barrier = "none"
                          /\ Len(stored) <= Len(seed) /\ b <= Len(seed) /\ Len(seed) <= n + 1
                          /\ \A i \in 1 .. Len(seed) : seed[i] = log'[i]
                          /\ init = "seeding" => state.cursor = Len(stored)
      BY <1>4, <1>7, <3>1 DEF SeedCovers, NoRewind
    <3>3. /\ rewindTo = NoRewind /\ active \in {"none", "queued"} /\ barrier = "none"
          /\ Len(stored) <= Len(seed) /\ b <= Len(seed) /\ Len(seed) <= n
          /\ \A i \in 1 .. Len(seed) : seed[i] = log[i]
          /\ init = "seeding" => state.cursor = Len(stored)
      BY <1>2, <1>6, <3>2 DEF ContentInv, SeedCovers
    <3>4. \A i \in 1 .. Len(seed) : i \in 1 .. n
      BY <3>1, <3>3
    <3>5. QED
      BY <1>4, <3>1, <3>3, <3>4
  <2>5. CursorIsExact'
    <3>1. /\ UNCHANGED <<init, rewindTo, active, stored, artifact, state, fresh>>
          /\ state.cursor \in Nat
      BY <1>1, Sizes DEF ContentInv, store, writing
    <3>2. init = "ready" => b <= state.cursor /\ state.cursor <= n
      BY <1>1, <1>2, <1>6 DEF ContentInv, CursorIsExact
    <3>3. init = "ready" => b <= state.cursor /\ state.cursor <= Len(log')
      BY <1>4, <3>1, <3>2
    <3>4. QED
      BY <1>1, <1>7, <3>1, <3>3 DEF ContentInv, CursorIsExact
  <2>6. FreshIsNext'
    <3>1. UNCHANGED <<active, fresh, batch, state>> /\ Len(batch') = l /\ Len(fresh) \in Nat
          /\ state.cursor \in Nat /\ DOMAIN fresh = 1 .. Len(fresh)
      BY <1>1, <1>6, Sizes DEF ContentInv, store, writing
    <3>2. SUFFICES ASSUME active \in {"writing", "stored"}
                   PROVE  /\ \A k \in DOMAIN fresh :
                                fresh[k] = [seq |-> (state.cursor + k) - 1,
                                            id |-> log'[state.cursor + k]]
                          /\ \/ state.cursor + Len(fresh) = b + l
                             \/ fresh = <<>> /\ b + l <= state.cursor
      BY <1>7, <3>1 DEF FreshIsNext, EntryAt
    <3>3. /\ \A k \in DOMAIN fresh :
                fresh[k] = [seq |-> (state.cursor + k) - 1, id |-> log[state.cursor + k]]
          /\ \/ state.cursor + Len(fresh) = b + l
             \/ fresh = <<>> /\ b + l <= state.cursor
      BY <1>6, <3>2 DEF ContentInv, FreshIsNext, EntryAt
    <3>4. \A k \in DOMAIN fresh : state.cursor + k \in 1 .. n
      BY <1>6, <3>1, <3>3
    <3>5. QED
      BY <1>4, <3>3, <3>4
  <2>7. QED
    BY <2>1, <2>2, <2>3, <2>4, <2>5, <2>6 DEF ContentInv
<1>11. ControlInv'
  <2>1. pending' # <<>>
    BY <1>5, <1>6
  <2>2. OneDeadline' /\ PausedIsUnarmed'
    <3>1. CASE Arms
      <4>1. timers = 0 /\ barrier = "none"
        BY <3>1 DEF Arms, TimerIsSound, OneDeadline, PausedIsUnarmed, TypeOK
      <4>2. ~paused'
        BY <1>1, <4>1, Zenon
      <4>3. timers' = 1 /\ barrier' = "none"
        BY <1>1, <3>1, <4>1
      <4>4. QED
        BY <2>1, <4>2, <4>3 DEF OneDeadline, PausedIsUnarmed
    <3>2. CASE ~Arms
      BY <1>1, <2>1, <3>2 DEF Arms, TimerIsSound, OneDeadline, PausedIsUnarmed
    <3>3. QED
      BY <3>1, <3>2
  <2>3. WorkIsScheduled'
    <3>1. CASE Arms
      BY <1>1, <3>1 DEF WorkIsScheduled, TypeOK
    <3>2. CASE ~Arms
      BY <1>1, <3>2 DEF Arms, TimerIsSound, WorkIsScheduled, Waiting, store, writing, flushes
    <3>3. QED
      BY <3>1, <3>2
  <2>4. GoalsAreLogged'
    BY <1>1, <1>2, <1>4 DEF GoalsAreLogged, TypeOK, flushes
  <2>5. BarrierIsBusy'
    BY <1>1, <2>1 DEF BarrierIsBusy, Joined, writing, flushes
  <2>6. FlushIsBarrier'
    BY <1>1 DEF FlushIsBarrier, store, flushes
  <2>7. EndsAreAsked' /\ EndsAreQuiet'
    BY <1>1 DEF EndsAreAsked, EndsAreQuiet, Internal, store, flushes
  <2>8. QED
    BY <2>2, <2>3, <2>4, <2>5, <2>6, <2>7 DEF TimerIsSound
<1>12. QED
  BY <1>9, <1>10, <1>11

-----------------------------------------------------------------------------
(* Initialisation, and a write on its way to storage.                      *)

\* A step that only adds to storage, or moves the active write along.
LEMMA ControlStays ==
    ASSUME Inv,
           UNCHANGED <<log, life, service, pending, background, timers, expired, paused,
                       barrier, flusher, goal, rewindTo>>,
           active' = "none" <=> active = "none",
           init = "failed" => init' = "failed",
           Len(stored') \in Nat, Len(stored) <= Len(stored'), Len(stored') <= Len(log)
    PROVE  ControlInv'
<1>. USE DEF Inv, ControlInv
<1>1. /\ Len(stored) \in Nat /\ Len(log) \in Nat
      /\ \A f \in Flushers : goal[f] \in Nat
  BY Sizes DEF TypeOK, ContentInv
<1>2. TimerIsSound' /\ PausedIsUnarmed' /\ GoalsAreLogged'
  BY DEF TimerIsSound, WorkIsScheduled, OneDeadline, PausedIsUnarmed, GoalsAreLogged, Waiting
<1>3. BarrierIsBusy'
  BY DEF BarrierIsBusy, Joined
<1>4. FlushIsBarrier'
  BY <1>1 DEF FlushIsBarrier
<1>5. EndsAreAsked'
  BY <1>1 DEF EndsAreAsked
<1>6. EndsAreQuiet'
  BY DEF EndsAreQuiet, Waiting
<1>7. QED
  BY <1>2, <1>3, <1>4, <1>5, <1>6

\* What storage holds is adopted as the beginning of the session.
LEMMA AdoptKeeps ==
    ASSUME Inv, Adopt
    PROVE  Inv'
<1>. USE DEF Inv
<1>1. /\ UNCHANGED <<session, stored, artifact, seed, service, rewindTo,
                     queue, writing, clock, barrier, flushes, bounds>>
      /\ init = "adopting"
      /\ state' = [cursor |-> Len(stored), materialized |-> artifact]
      /\ init' = (IF Len(stored) = Len(seed) THEN "ready" ELSE "seeding")
  BY DEF Adopt
<1>2. /\ Len(stored) \in Nat /\ Len(seed) \in Nat /\ Len(log) \in Nat /\ Base \in Nat
  BY Sizes DEF ContentInv
<1>3. state'.cursor = Len(stored) /\ state'.materialized = artifact
  BY <1>1
<1>4. TypeOK'
  <2>1. state' \in [cursor : Nat, materialized : BOOLEAN]
    BY <1>1, <1>2 DEF TypeOK
  <2>2. init' \in {"ready", "seeding"}
    BY <1>1
  <2>3. QED
    BY <1>1, <2>1, <2>2
       DEF TypeOK, session, queue, writing, clock, flushes, bounds
<1>5. ContentInv'
  <2>1. Base' = Base
    BY <1>1 DEF Base, session, queue
  <2>2. SeedCovers /\ StoredIsPrefix
    BY DEF ContentInv
  <2>3. /\ rewindTo = NoRewind /\ active \in {"none", "queued"} /\ barrier = "none"
        /\ Len(stored) <= Len(seed) /\ Base <= Len(seed) /\ Len(seed) <= Len(log)
        /\ Len(stored) <= Len(log)
    BY <1>1, <2>2 DEF SeedCovers, StoredIsPrefix
  <2>4. BornOnce' /\ StoredIsPrefix' /\ WriteIsNonempty'
    BY <1>1 DEF ContentInv, BornOnce, StoredIsPrefix, WriteIsNonempty, session, queue, writing
  <2>5. QueueIsTheEnd'
    BY <1>1 DEF ContentInv, QueueIsTheEnd, Base, EntryAt, session, queue
  <2>6. SeedCovers'
    BY <1>1, <1>3, <2>1, <2>2 DEF SeedCovers, NoRewind, session, writing
  <2>7. CursorIsExact'
    BY <1>1, <1>2, <1>3, <2>1, <2>3 DEF CursorIsExact, session, writing
  <2>8. FreshIsNext' /\ RewindIsQuiet'
    BY <1>1, <2>3 DEF FreshIsNext, RewindIsQuiet, NoRewind, writing
  <2>9. QED
    BY <2>4, <2>5, <2>6, <2>7, <2>8 DEF ContentInv
<1>6. ControlInv'
  BY <1>1, <1>2, ControlStays
     DEF ContentInv, StoredIsPrefix, session, queue, writing, clock, flushes
<1>7. QED
  BY <1>4, <1>5, <1>6

\* The rest of the seed is written.
LEMMA WriteSeedKeeps ==
    ASSUME Inv, WriteSeed
    PROVE  Inv' /\ Len(stored') = Len(seed) /\ Len(stored) <= Len(seed)
<1>. USE DEF Inv
<1>1. /\ UNCHANGED <<session, seed, service, rewindTo,
                     queue, writing, clock, barrier, flushes, bounds>>
      /\ init = "seeding" /\ init' = "ready"
      /\ stored' = stored \o SeedSuffix
      /\ artifact' = TRUE
      /\ state' = [cursor |-> Len(seed), materialized |-> TRUE]
  BY DEF WriteSeed
<1>2. /\ Len(stored) \in Nat /\ Len(seed) \in Nat /\ Len(log) \in Nat /\ Base \in Nat
  BY Sizes DEF ContentInv
<1>3. state'.cursor = Len(seed) /\ state'.materialized = TRUE
  BY <1>1
<1>4. /\ rewindTo = NoRewind /\ active \in {"none", "queued"} /\ barrier = "none"
      /\ Len(stored) <= Len(seed) /\ Base <= Len(seed) /\ Len(seed) <= Len(log)
      /\ \A i \in 1 .. Len(seed) : seed[i] = log[i]
      /\ state.cursor = Len(stored)
  BY <1>1 DEF ContentInv, SeedCovers
<1>5. PICK n \in Nat, m \in Nat : n = Len(stored) /\ m = Len(seed) /\ n <= m
  BY <1>2, <1>4
<1>6. /\ SeedSuffix \in Seq(Event) /\ Len(SeedSuffix) = m - n
      /\ \A i \in 1 .. m - n : SeedSuffix[i] = seed[n + i]
  <2>1. seed \in Seq(Event) /\ SeedSuffix = SubSeq(seed, n + 1, m)
    BY <1>4, <1>5 DEF TypeOK, Event, SeedSuffix
  <2>2. CASE n < m
    <3>1. /\ SubSeq(seed, n + 1, m) \in Seq(Event)
          /\ Len(SubSeq(seed, n + 1, m)) = IF n + 1 <= m THEN m - (n + 1) + 1 ELSE 0
          /\ \A i \in 1 .. m - (n + 1) + 1 : SubSeq(seed, n + 1, m)[i] = seed[(n + 1) + i - 1]
      BY <1>5, <2>1, <2>2, SubSeqProperties
    <3>2. m - (n + 1) + 1 = m - n /\ \A i \in Nat : (n + 1) + i - 1 = n + i
      BY <1>5, <2>2
    <3>3. QED
      BY <2>1, <2>2, <3>1, <3>2, <1>5
  <2>3. CASE n = m
    <3>1. SubSeq(seed, n + 1, m) = <<>>
      BY <1>5, <2>1, <2>3, SubSeqProperties
    <3>2. QED
      BY <2>1, <2>3, <3>1, <1>5
  <2>4. QED
    BY <1>5, <2>2, <2>3
<1>7. /\ stored' \in Seq(Event) /\ Len(stored') = m
      /\ \A i \in 1 .. m : stored'[i] = log[i]
  <2>1. stored \in Seq(Event)
    BY DEF TypeOK, Event
  <2>2. /\ stored' \in Seq(Event) /\ Len(stored') = n + (m - n)
        /\ \A i \in 1 .. n + (m - n) :
              stored'[i] = IF i <= n THEN stored[i] ELSE SeedSuffix[i - n]
    BY <1>1, <1>5, <1>6, <2>1, ConcatProperties
  <2>3. n + (m - n) = m
    BY <1>5
  <2>4. \A i \in 1 .. n : stored[i] = log[i]
    BY <1>5 DEF ContentInv, StoredIsPrefix
  <2>5. ASSUME NEW i \in 1 .. m  PROVE stored'[i] = log[i]
    <3>1. CASE i <= n
      BY <1>5, <2>2, <2>3, <2>4, <3>1
    <3>2. CASE i > n
      <4>1. i - n \in 1 .. m - n /\ n + (i - n) = i
        BY <1>5, <3>2
      <4>2. stored'[i] = SeedSuffix[i - n]
        BY <1>5, <2>2, <2>3, <3>2
      <4>3. SeedSuffix[i - n] = seed[i]
        BY <1>6, <4>1
      <4>4. QED
        BY <1>4, <1>5, <4>2, <4>3
    <3>3. QED
      BY <1>5, <3>1, <3>2
  <2>6. QED
    BY <2>2, <2>3, <2>5
<1>8. TypeOK'
  <2>1. state' \in [cursor : Nat, materialized : BOOLEAN]
    BY <1>1, <1>2
  <2>2. QED
    BY <1>1, <1>7, <2>1
       DEF TypeOK, Event, session, queue, writing, clock, flushes, bounds
<1>9. ContentInv'
  <2>1. Base' = Base
    BY <1>1 DEF Base, session, queue
  <2>2. BornOnce' /\ WriteIsNonempty'
    BY <1>1 DEF ContentInv, BornOnce, WriteIsNonempty, session, queue, writing
  <2>3. StoredIsPrefix'
    BY <1>1, <1>4, <1>5, <1>7 DEF StoredIsPrefix, session
  <2>4. QueueIsTheEnd'
    BY <1>1 DEF ContentInv, QueueIsTheEnd, Base, EntryAt, session, queue
  <2>5. SeedCovers'
    BY <1>1 DEF SeedCovers
  <2>6. CursorIsExact'
    BY <1>1, <1>2, <1>3, <1>4, <1>5, <1>7, <2>1 DEF CursorIsExact, session, writing
  <2>7. FreshIsNext' /\ RewindIsQuiet'
    BY <1>1, <1>4 DEF FreshIsNext, RewindIsQuiet, NoRewind, writing
  <2>8. QED
    BY <2>2, <2>3, <2>4, <2>5, <2>6, <2>7 DEF ContentInv
<1>10. ControlInv'
  <2>1. Len(stored') \in Nat /\ Len(stored) <= Len(stored') /\ Len(stored') <= Len(log)
    BY <1>4, <1>5, <1>7
  <2>2. QED
    BY <1>1, <2>1, ControlStays DEF session, queue, writing, clock, flushes
<1>11. QED
  BY <1>5, <1>7, <1>8, <1>9, <1>10

\* The initialisation fails for good.
LEMMA InitFailsKeeps ==
    ASSUME Inv, InitFails
    PROVE  Inv'
<1>. USE DEF Inv
<1>1. /\ UNCHANGED <<session, stored, artifact, state, seed, service, rewindTo,
                     queue, writing, clock, barrier, flushes, rewinds>>
      /\ init \in {"adopting", "seeding"} /\ init' = "failed"
      /\ failures < MaxFailures /\ failures' = failures + 1
  BY DEF InitFails
<1>2. Len(stored) \in Nat /\ Len(log) \in Nat
  BY Sizes DEF ContentInv
<1>3. TypeOK'
  <2>1. failures' \in 0 .. MaxFailures
    BY <1>1, ConstantsAreValid DEF TypeOK
  <2>2. QED
    BY <1>1, <2>1 DEF TypeOK, session, queue, writing, clock, flushes
<1>4. ContentInv'
  <2>1. Base' = Base
    BY <1>1 DEF Base, session, queue
  <2>2. BornOnce' /\ StoredIsPrefix' /\ WriteIsNonempty' /\ SeedCovers' /\ CursorIsExact'
    BY <1>1, <2>1 DEF ContentInv, BornOnce, StoredIsPrefix, WriteIsNonempty, SeedCovers,
                      CursorIsExact, NoRewind, session, queue, writing
  <2>3. QueueIsTheEnd'
    BY <1>1 DEF ContentInv, QueueIsTheEnd, Base, EntryAt, session, queue
  <2>4. FreshIsNext' /\ RewindIsQuiet'
    BY <1>1 DEF ContentInv, SeedCovers, FreshIsNext, RewindIsQuiet, NoRewind, writing
  <2>5. QED
    BY <2>2, <2>3, <2>4 DEF ContentInv
<1>5. ControlInv'
  BY <1>1, <1>2, ControlStays
     DEF ContentInv, StoredIsPrefix, session, queue, writing, clock, flushes
<1>6. QED
  BY <1>3, <1>4, <1>5

\* A write that is under way has an initialised session and no rewind beside it.
LEMMA WritingIsReady ==
    ASSUME ContentInv, active # "none"
    PROVE  /\ rewindTo = NoRewind
           /\ active \in {"writing", "stored"} => init = "ready"
           /\ barrier # "none" => init = "ready"
BY DEF ContentInv, RewindIsQuiet, SeedCovers

\* The write whose turn has come takes what the cursor has not passed.
LEMMA BeginWriteKeeps ==
    ASSUME Inv, BeginWrite
    PROVE  Inv'
<1>. USE DEF Inv
<1>1. /\ UNCHANGED <<session, store, pending, batch, background, clock, barrier, flushes, bounds>>
      /\ active = "queued" /\ active' = "writing" /\ init = "ready"
      /\ fresh' = Filtered
  BY DEF BeginWrite
<1>2. rewindTo = NoRewind
  BY <1>1, WritingIsReady
<1>3. Base <= state.cursor
  BY <1>1, <1>2 DEF ContentInv, CursorIsExact
<1>4. /\ fresh' \in Seq(Entry)
      /\ \A k \in DOMAIN fresh' : fresh'[k] = EntryAt(state.cursor + k)
      /\ \/ state.cursor + Len(fresh') = Base + Len(batch)
         \/ fresh' = <<>> /\ Base + Len(batch) <= state.cursor
  BY <1>1, <1>3, FilteredDoes DEF ContentInv
<1>5. TypeOK'
  BY <1>1, <1>4 DEF TypeOK, session, store, clock, flushes, bounds
<1>6. ContentInv'
  <2>1. Base' = Base /\ batch' = batch /\ state' = state /\ log' = log
    BY <1>1 DEF Base, session, store
  <2>2. BornOnce' /\ StoredIsPrefix' /\ WriteIsNonempty' /\ SeedCovers'
    BY <1>1 DEF ContentInv, BornOnce, StoredIsPrefix, WriteIsNonempty, SeedCovers,
                session, store
  <2>3. QueueIsTheEnd'
    BY <1>1 DEF ContentInv, QueueIsTheEnd, Base, EntryAt, session
  <2>4. CursorIsExact'
    BY <1>1, <2>1 DEF ContentInv, CursorIsExact, session, store
  <2>5. FreshIsNext'
    BY <1>4, <2>1 DEF FreshIsNext, EntryAt
  <2>6. RewindIsQuiet'
    BY <1>1, <1>2 DEF RewindIsQuiet, NoRewind, store
  <2>7. QED
    BY <2>2, <2>3, <2>4, <2>5, <2>6 DEF ContentInv
<1>7. ControlInv'
  <2>1. Len(stored) \in Nat /\ Len(stored) <= Len(log)
    BY Sizes DEF ContentInv, StoredIsPrefix
  <2>2. Len(stored') = Len(stored)
    BY <1>1 DEF store
  <2>3. QED
    BY <1>1, <2>1, <2>2, ControlStays DEF session, store, clock, flushes
<1>8. QED
  BY <1>5, <1>6, <1>7

\* The backend makes them durable behind what is stored.
LEMMA StoreKeeps ==
    ASSUME Inv, Store
    PROVE  Inv' /\ Len(stored) <= Len(stored')
<1>. USE DEF Inv
<1>1. /\ UNCHANGED <<session, state, seed, init, service, rewindTo, queue, background,
                     clock, barrier, flushes, bounds>>
      /\ active = "writing" /\ active' = "stored"
      /\ stored' = stored \o [k \in DOMAIN fresh |-> fresh[k].id]
      /\ artifact' = (artifact \/ fresh # <<>>)
  BY DEF Store
<1>2. init = "ready" /\ rewindTo = NoRewind
  BY <1>1, WritingIsReady
<1>3. /\ Len(stored) = state.cursor
      /\ Base <= state.cursor /\ state.cursor <= Len(log)
  BY <1>1, <1>2 DEF ContentInv, CursorIsExact
<1>4. PICK c \in Nat, n \in Nat, b \in Nat, l \in Nat :
         /\ c = state.cursor /\ n = Len(fresh) /\ b = Base + Len(batch) /\ l = Len(log)
         /\ b <= l /\ c <= l /\ DOMAIN fresh = 1 .. n
  <2>1. /\ state.cursor \in Nat /\ Len(fresh) \in Nat /\ DOMAIN fresh = 1 .. Len(fresh)
        /\ Base \in Nat /\ Len(batch) \in Nat /\ Len(pending) \in Nat /\ Len(log) \in Nat
        /\ Len(log) = Base + Len(batch) + Len(pending)
    BY Sizes DEF ContentInv
  <2>2. Base + Len(batch) \in Nat /\ Base + Len(batch) <= Len(log)
    BY <2>1
  <2>3. QED
    BY <1>3, <2>1, <2>2
<1>5. /\ \A k \in 1 .. n : fresh[k].id = log[c + k]
      /\ \/ c + n = b
         \/ fresh = <<>> /\ b <= c
  <2>1. \A k \in DOMAIN fresh : fresh[k] = EntryAt(state.cursor + k)
    BY <1>1 DEF ContentInv, FreshIsNext
  <2>2. \A k \in 1 .. n : fresh[k] = EntryAt(c + k)
    BY <1>4, <2>1
  <2>3. \A k \in 1 .. n : fresh[k].id = log[c + k]
    BY <2>2, EntryFields
  <2>4. QED
    BY <1>1, <1>4, <2>3 DEF ContentInv, FreshIsNext
<1>6. c + n <= l
  BY <1>4, <1>5
<1>7. PICK ids : /\ ids = [k \in DOMAIN fresh |-> fresh[k].id]
                 /\ ids \in Seq(Event) /\ Len(ids) = n
                 /\ \A k \in 1 .. n : ids[k] = log[c + k]
  <2>1. fresh \in Seq(Entry)
    BY DEF TypeOK
  <2>2. \A k \in 1 .. n : fresh[k] \in Entry
    BY <1>4, <2>1
  <2>3. \A k \in 1 .. n : fresh[k].id \in Event
    BY <2>2 DEF Entry, Event
  <2>4. [k \in 1 .. n |-> fresh[k].id] \in [1 .. n -> Event]
    BY <2>3
  <2>5. [k \in DOMAIN fresh |-> fresh[k].id] = [k \in 1 .. n |-> fresh[k].id]
    BY <1>4
  <2>6. [k \in DOMAIN fresh |-> fresh[k].id] \in [1 .. n -> Event]
    BY <2>4, <2>5
  <2>7. \A k \in 1 .. n : [j \in DOMAIN fresh |-> fresh[j].id][k] = log[c + k]
    BY <1>4, <1>5
  <2>8. \A ids \in [1 .. n -> Event] : ids \in Seq(Event) /\ Len(ids) = n
    BY <1>4
  <2>9. QED
    BY <2>6, <2>7, <2>8
<1>8. /\ stored' \in Seq(Event) /\ Len(stored') = c + n
      /\ \A i \in 1 .. c + n : stored'[i] = log[i]
  <2>1. stored \in Seq(Event) /\ Len(stored) = c
    BY <1>3, <1>4 DEF TypeOK, Event
  <2>2. stored' = stored \o ids
    BY <1>1, <1>7, Zenon
  <2>3. /\ stored' \in Seq(Event) /\ Len(stored') = c + n
        /\ \A i \in 1 .. c + n : stored'[i] = IF i <= c THEN stored[i] ELSE ids[i - c]
    <3>1. ids \in Seq(Event) /\ Len(ids) = n
      BY <1>7, Zenon
    <3>2. /\ stored \o ids \in Seq(Event) /\ Len(stored \o ids) = c + n
          /\ \A i \in 1 .. c + n : (stored \o ids)[i] = IF i <= c THEN stored[i] ELSE ids[i - c]
      BY <2>1, <3>1, ConcatProperties
    <3>3. QED
      BY <2>2, <3>2, Zenon
  <2>4. \A i \in 1 .. c : stored[i] = log[i]
    BY <2>1 DEF ContentInv, StoredIsPrefix
  <2>5. ASSUME NEW i \in 1 .. c + n, i > c  PROVE ids[i - c] = log[i]
    <3>1. i - c \in 1 .. n /\ c + (i - c) = i
      BY <1>4, <2>5
    <3>2. QED
      BY <1>7, <3>1
  <2>6. ASSUME NEW i \in 1 .. c + n  PROVE stored'[i] = log[i]
    <3>1. CASE i <= c
      <4>1. i \in 1 .. c
        BY <1>4, <3>1
      <4>2. QED
        BY <2>3, <2>4, <3>1, <4>1
    <3>2. CASE i > c
      <4>1. ~(i <= c)
        BY <1>4, <3>2
      <4>2. QED
        BY <2>3, <2>5, <3>2, <4>1
    <3>3. QED
      BY <1>4, <3>1, <3>2
  <2>7. QED
    BY <2>3, <2>6
<1>9. TypeOK'
  <2>1. stored' \in Seq(1 .. MaxEvents) /\ artifact' \in BOOLEAN
    BY <1>1, <1>8 DEF Event
  <2>2. QED
    BY <1>1, <2>1 DEF TypeOK, session, queue, clock, flushes, bounds
<1>10. ContentInv'
  <2>1. Base' = Base /\ batch' = batch /\ state' = state /\ log' = log /\ fresh' = fresh
    BY <1>1 DEF Base, session, queue
  <2>2. BornOnce' /\ WriteIsNonempty' /\ SeedCovers' /\ RewindIsQuiet'
    BY <1>1, <1>2 DEF ContentInv, BornOnce, WriteIsNonempty, SeedCovers, RewindIsQuiet,
                      NoRewind, session, queue
  <2>3. StoredIsPrefix'
    <3>1. stored' # <<>> => artifact'
      <4>1. CASE fresh # <<>>
        BY <1>1, <4>1
      <4>2. CASE fresh = <<>>
        <5>1. n = 0 /\ Len(stored') = Len(stored)
          BY <1>3, <1>4, <1>8, <4>2
        <5>2. stored' # <<>> => stored # <<>>
          BY <1>8, <5>1
        <5>3. QED
          BY <1>1, <5>2 DEF ContentInv, StoredIsPrefix
      <4>3. QED
        BY <4>1, <4>2
    <3>2. Len(stored') <= Len(log') /\ \A i \in 1 .. Len(stored') : stored'[i] = log'[i]
      BY <1>4, <1>6, <1>8, <2>1
    <3>3. QED
      BY <3>1, <3>2 DEF StoredIsPrefix
  <2>4. QueueIsTheEnd'
    BY <1>1 DEF ContentInv, QueueIsTheEnd, Base, EntryAt, session, queue
  <2>5. CursorIsExact'
    <3>1. Len(stored') = state.cursor + Len(fresh)
      BY <1>4, <1>8
    <3>2. QED
      BY <1>1, <1>3, <2>1, <3>1 DEF CursorIsExact
  <2>6. FreshIsNext'
    BY <1>1, <2>1 DEF ContentInv, FreshIsNext, EntryAt
  <2>7. QED
    BY <2>2, <2>3, <2>4, <2>5, <2>6 DEF ContentInv
<1>11. Len(stored') \in Nat /\ Len(stored) <= Len(stored') /\ Len(stored') <= Len(log)
  BY <1>3, <1>4, <1>6, <1>8
<1>12. ControlInv'
  BY <1>1, <1>11, ControlStays DEF session, queue, clock, flushes
<1>13. QED
  BY <1>9, <1>10, <1>11, <1>12

-----------------------------------------------------------------------------
(* The end of a write.                                                     *)

\* A write ends, and the controller is done with its batch.
LEMMA WriteEnds ==
    ASSUME TypeOK, ContentInv, active = "stored",
           UNCHANGED <<log, born, life, stored, artifact, seed, init, rewindTo>>,
           state' = Advanced, fresh' = <<>>,
           \/ batch' = pending /\ pending' = <<>> /\ pending # <<>> /\ active' = "queued"
           \/ batch' = <<>> /\ pending' = pending /\ active' = "none"
    PROVE  /\ ContentInv' /\ state' \in [cursor : Nat, materialized : BOOLEAN]
           /\ pending = <<>> => Len(stored) = Len(log)
<1>. USE DEF ContentInv
<1>1. init = "ready" /\ rewindTo = NoRewind
  BY WritingIsReady
<1>2. Len(stored) = state.cursor + Len(fresh) /\ Len(stored) <= Len(log)
  BY <1>1 DEF CursorIsExact, StoredIsPrefix
<1>3. /\ state.cursor \in Nat /\ Len(fresh) \in Nat /\ Base \in Nat /\ Len(batch) \in Nat
      /\ Len(stored) \in Nat /\ Len(pending) \in Nat
      /\ Len(log) = Base + Len(batch) + Len(pending)
  BY Sizes
<1>4. Base + Len(batch) <= Len(stored)
  BY <1>2, <1>3 DEF FreshIsNext
<1>5. QueueIsTheEnd' /\ Base' = Base + Len(batch)
  BY QueueMoves
<1>6. state'.cursor = Len(stored) /\ state' \in [cursor : Nat, materialized : BOOLEAN]
  <2>1. CASE fresh = <<>>
    <3>1. state' = state /\ Len(fresh) = 0
      BY <2>1 DEF Advanced
    <3>2. QED
      BY <1>2, <1>3, <3>1 DEF TypeOK
  <2>2. CASE fresh # <<>>
    <3>1. state' = [cursor |-> state.cursor + Len(fresh), materialized |-> TRUE]
      BY <2>2 DEF Advanced
    <3>2. QED
      BY <1>2, <1>3, <3>1
  <2>3. QED
    BY <2>1, <2>2
<1>7. BornOnce' /\ StoredIsPrefix'
  BY DEF BornOnce, StoredIsPrefix
<1>8. WriteIsNonempty'
  BY DEF WriteIsNonempty
<1>9. SeedCovers' /\ RewindIsQuiet'
  BY <1>1 DEF SeedCovers, RewindIsQuiet, NoRewind
<1>10. CursorIsExact'
  BY <1>2, <1>4, <1>5, <1>6 DEF CursorIsExact
<1>11. FreshIsNext'
  BY DEF FreshIsNext
<1>12. pending = <<>> => Len(stored) = Len(log)
  BY <1>2, <1>3, <1>4
<1>13. QED
  BY <1>5, <1>6, <1>7, <1>8, <1>9, <1>10, <1>11, <1>12

\* A write that succeeded is followed by another, or it ends the barrier.
LEMMA AcknowledgeKeeps ==
    ASSUME Inv, Acknowledge
    PROVE  Inv'
<1>. USE DEF Inv, ControlInv
<1>1. /\ UNCHANGED <<session, stored, artifact, seed, init, service, rewindTo, goal, bounds>>
      /\ active = "stored" /\ state' = Advanced /\ fresh' = <<>>
      /\ paused' = (paused /\ barrier # "overlap")
  BY DEF Acknowledge
<1>2. UNCHANGED <<log, born, life, stored, artifact, seed, init, rewindTo>>
  BY <1>1 DEF session
<1>3. init = "ready" /\ rewindTo = NoRewind
  BY <1>1, WritingIsReady
<1>4. /\ \A f \in Internal : flusher[f] # "done"
      /\ flusher["teardown"] # "failed" /\ life # "released"
  BY <1>1, <1>3 DEF EndsAreQuiet, EndsAreAsked, Internal
<1>5. fresh' \in Seq(Entry) /\ paused' \in BOOLEAN
  BY <1>1 DEF TypeOK
<1>6. CASE Continues \/ Drains
  <2>1. /\ batch' = pending /\ pending' = <<>> /\ active' = "queued"
        /\ background' = Continues /\ timers' = 0 /\ expired' = FALSE
        /\ barrier' = (IF Drains THEN "draining" ELSE barrier)
        /\ flusher' = flusher
    BY <1>6, CancelDisarms DEF Acknowledge, StartWrite, TimerIsSound
  <2>2. pending # <<>>
    BY <1>6 DEF Continues, Drains
  <2>3. ContentInv' /\ state' \in [cursor : Nat, materialized : BOOLEAN]
    BY <1>1, <1>2, <2>1, <2>2, WriteEnds
  <2>4. TypeOK'
    <3>1. /\ batch' \in Seq(Entry) /\ pending' \in Seq(Entry) /\ background' \in BOOLEAN
          /\ barrier' \in {"none", "overlap", "draining", "failing"} /\ timers' \in Nat
      BY <2>1 DEF TypeOK, Continues
    <3>2. QED
      BY <1>1, <1>5, <2>1, <2>3, <3>1 DEF TypeOK, session, bounds
  <2>5. TimerIsSound' /\ PausedIsUnarmed' /\ GoalsAreLogged'
    BY <1>1, <2>1 DEF TimerIsSound, WorkIsScheduled, OneDeadline, PausedIsUnarmed,
                      GoalsAreLogged, session
  <2>6. BarrierIsBusy'
    BY <1>1, <1>6, <2>1, <2>2 DEF BarrierIsBusy, Joined, Drains
  <2>7. FlushIsBarrier' /\ EndsAreAsked'
    BY <1>1, <2>1 DEF FlushIsBarrier, EndsAreAsked, session
  <2>8. EndsAreQuiet'
    BY <1>4, <2>1 DEF EndsAreQuiet, Waiting
  <2>9. QED
    BY <2>3, <2>4, <2>5, <2>6, <2>7, <2>8
<1>7. CASE ~(Continues \/ Drains)
  <2>1. /\ batch' = <<>> /\ pending' = pending /\ active' = "none" /\ background' = FALSE
        /\ timers' = timers /\ expired' = expired /\ barrier' = "none"
        /\ flusher' = Becomes(Joined, "done")
    BY <1>7 DEF Acknowledge, NoActiveWrite, EndBarrier
  <2>2. /\ \A f \in Flushers : flusher'[f] = IF flusher[f] = "joined" THEN "done" ELSE flusher[f]
        /\ flusher' \in [Flushers -> FlushStates]
    BY <2>1, JoinedMoves DEF FlushStates
  <2>3. ContentInv' /\ state' \in [cursor : Nat, materialized : BOOLEAN]
    BY <1>1, <1>2, <2>1, WriteEnds
  <2>4. pending = <<>> => Len(stored) = Len(log)
    BY <1>1, <1>2, <2>1, WriteEnds
  <2>5. (\E f \in Flushers : flusher[f] = "joined") => pending = <<>>
    BY <1>7 DEF BarrierIsBusy, Joined, Drains
  <2>6. TypeOK'
    <3>1. batch' \in Seq(Entry) /\ pending' \in Seq(Entry)
      BY <2>1 DEF TypeOK
    <3>2. QED
      BY <1>1, <1>5, <2>1, <2>2, <2>3, <3>1 DEF TypeOK, FlushStates, session, bounds
  <2>7. TimerIsSound'
    <3>1. OneDeadline'
      BY <2>1 DEF TimerIsSound, OneDeadline
    <3>2. WorkIsScheduled'
      <4>1. SUFFICES ASSUME pending # <<>>, ~paused', init # "failed"
                     PROVE  timers > 0 \/ \E f \in Flushers : flusher'[f] = "waiting"
        BY <1>1, <2>1 DEF WorkIsScheduled, Waiting
      <4>2. barrier = "none" /\ ~paused /\ ~Continues
        BY <1>1, <1>7, <4>1 DEF Drains
      <4>3. background /\ ~expired
        BY <1>1, <4>1, <4>2 DEF BarrierIsBusy, Continues
      <4>4. timers > 0 \/ Waiting # {}
        BY <4>1, <4>2, <4>3 DEF TimerIsSound, WorkIsScheduled
      <4>5. QED
        BY <2>2, <4>4 DEF Waiting
    <3>3. QED
      BY <3>1, <3>2 DEF TimerIsSound
  <2>8. PausedIsUnarmed' /\ GoalsAreLogged'
    BY <1>1, <2>1 DEF PausedIsUnarmed, GoalsAreLogged, session
  <2>9. BarrierIsBusy'
    BY <2>1, <2>2 DEF BarrierIsBusy, Joined
  <2>10. FlushIsBarrier'
    <3>1. SUFFICES ASSUME NEW f \in Flushers, flusher'[f] = "done"
                   PROVE  goal[f] <= Len(stored)
      BY <1>1, <2>1 DEF FlushIsBarrier
    <3>2. CASE flusher[f] = "joined"
      BY <2>4, <2>5, <3>2 DEF GoalsAreLogged
    <3>3. CASE flusher[f] # "joined"
      BY <1>3, <1>4, <2>2, <3>1, <3>3 DEF FlushIsBarrier
    <3>4. QED
      BY <3>2, <3>3
  <2>11. EndsAreAsked'
    BY <1>1, <1>4, <2>2, InternalFlushers DEF EndsAreAsked, session
  <2>12. EndsAreQuiet'
    BY <1>4, <2>1, <2>2, <2>5, InternalFlushers DEF EndsAreQuiet, Waiting, Internal
  <2>13. QED
    BY <2>3, <2>6, <2>7, <2>8, <2>9, <2>10, <2>11, <2>12
<1>8. QED
  BY <1>6, <1>7

\* A write fails, and the controller keeps its batch.
LEMMA WriteReturns ==
    ASSUME TypeOK, ContentInv, active \in {"queued", "writing"},
           UNCHANGED <<log, born, life, stored, artifact, state, seed, init, rewindTo>>,
           fresh' = <<>>,
           init # "ready" => barrier' = "none",
           \/ batch' = Retained /\ pending' = <<>> /\ active' = "queued"
           \/ batch' = <<>> /\ pending' = Retained /\ active' = "none"
    PROVE  ContentInv' /\ Retained # <<>> /\ Retained \in Seq(Entry)
<1>. USE DEF ContentInv
<1>1. rewindTo = NoRewind
  BY WritingIsReady
<1>2. Retained # <<>> /\ Retained \in Seq(Entry)
  <2>1. batch # <<>> /\ batch \in Seq(Entry) /\ Len(pending) \in Nat
    BY Sizes DEF WriteIsNonempty, TypeOK
  <2>2. Len(batch) \in Nat \ {0}
    BY <2>1
  <2>3. Len(Retained) = Len(batch) + Len(pending) /\ Retained \in Seq(Entry)
    BY RetainedDoes
  <2>4. Len(Retained) # 0
    BY <2>1, <2>2, <2>3
  <2>5. QED
    BY <2>3, <2>4
<1>3. QueueIsTheEnd' /\ Base' = Base
  BY QueueReturns
<1>4. BornOnce' /\ StoredIsPrefix' /\ RewindIsQuiet' /\ FreshIsNext'
  BY <1>1 DEF BornOnce, StoredIsPrefix, RewindIsQuiet, FreshIsNext, NoRewind
<1>5. WriteIsNonempty'
  BY <1>2 DEF WriteIsNonempty
<1>6. SeedCovers' /\ CursorIsExact'
  BY <1>3 DEF SeedCovers, CursorIsExact, NoRewind
<1>7. QED
  BY <1>2, <1>3, <1>4, <1>5, <1>6

\* The barrier that waited for the write tries again; its own write is final.
LEMMA WriteFailsKeeps ==
    ASSUME Inv, WriteFails, failures' \in 0 .. MaxFailures,
           \/ active = "writing"
           \/ active = "queued" /\ init \in {"failed", "ready"}
    PROVE  Inv'
<1>. USE DEF Inv, ControlInv
<1>1. UNCHANGED <<session, store, flushes, rewinds>> /\ fresh' = <<>>
  BY DEF WriteFails
<1>2. /\ UNCHANGED <<log, born, life, stored, artifact, state, seed, init, rewindTo>>
      /\ UNCHANGED <<service, flusher, goal, rewinds>>
  BY <1>1 DEF session, store, flushes
<1>3. /\ active \in {"queued", "writing"}
      /\ init = "failed" => barrier = "none"
      /\ active = "writing" => init = "ready"
  BY WritingIsReady DEF ContentInv, SeedCovers
<1>4. fresh' \in Seq(Entry)
  BY <1>1
<1>5. /\ \A f \in Internal : flusher[f] # "done"
      /\ flusher["teardown"] = "failed" => barrier = "none"
      /\ flusher["teardown"] = "failed" => init = "failed"
  BY <1>3 DEF EndsAreQuiet
<1>6. CASE barrier = "overlap"
  <2>1. /\ batch' = Retained /\ pending' = <<>> /\ active' = "queued" /\ background' = FALSE
        /\ timers' = 0 /\ expired' = FALSE /\ barrier' = "draining" /\ paused' = FALSE
    BY <1>6, CancelDisarms DEF WriteFails, StartWrite, TimerIsSound
  <2>2. ContentInv' /\ Retained \in Seq(Entry)
    <3>1. init = "ready"
      BY <1>3, <1>6
    <3>2. QED
      BY <1>1, <1>2, <1>3, <2>1, <3>1, WriteReturns
  <2>3. TypeOK'
    <3>1. batch' \in Seq(Entry) /\ pending' \in Seq(Entry) /\ timers' \in Nat
      BY <2>1, <2>2
    <3>2. QED
      BY <1>2, <1>4, <2>1, <3>1 DEF TypeOK
  <2>4. TimerIsSound' /\ PausedIsUnarmed' /\ GoalsAreLogged' /\ BarrierIsBusy'
    BY <1>2, <2>1 DEF TimerIsSound, WorkIsScheduled, OneDeadline, PausedIsUnarmed,
                      GoalsAreLogged, BarrierIsBusy
  <2>5. FlushIsBarrier' /\ EndsAreAsked'
    BY <1>2 DEF FlushIsBarrier, EndsAreAsked
  <2>6. EndsAreQuiet'
    BY <1>2, <1>5, <1>6 DEF EndsAreQuiet, Waiting
  <2>7. QED
    BY <2>2, <2>3, <2>4, <2>5, <2>6
<1>7. CASE barrier # "overlap"
  <2>1. /\ batch' = <<>> /\ pending' = Retained /\ active' = "none" /\ background' = FALSE
        /\ timers' = 0 /\ expired' = FALSE /\ paused' = TRUE
        /\ barrier' = (IF barrier = "draining" THEN "failing" ELSE barrier)
    BY <1>7, CancelDisarms DEF WriteFails, NoActiveWrite, TimerIsSound
  <2>2. barrier \in {"none", "draining"} /\ (barrier = "none" => barrier' = "none")
    BY <1>3, <1>7, <2>1 DEF BarrierIsBusy, TypeOK
  <2>3. ContentInv' /\ Retained # <<>> /\ Retained \in Seq(Entry)
    <3>1. init # "ready" => barrier' = "none"
      BY <1>3, <2>2
    <3>2. QED
      BY <1>1, <1>2, <1>3, <2>1, <3>1, WriteReturns
  <2>4. TypeOK'
    <3>1. /\ batch' \in Seq(Entry) /\ pending' \in Seq(Entry) /\ timers' \in Nat
          /\ barrier' \in {"none", "overlap", "draining", "failing"}
      BY <2>1, <2>2, <2>3
    <3>2. QED
      BY <1>2, <1>4, <2>1, <3>1 DEF TypeOK
  <2>5. TimerIsSound' /\ PausedIsUnarmed' /\ GoalsAreLogged'
    BY <1>2, <2>1 DEF TimerIsSound, WorkIsScheduled, OneDeadline, PausedIsUnarmed,
                      GoalsAreLogged
  <2>6. BarrierIsBusy'
    BY <1>2, <1>3, <2>1, <2>2, <2>3 DEF BarrierIsBusy, Joined
  <2>7. FlushIsBarrier' /\ EndsAreAsked'
    BY <1>2 DEF FlushIsBarrier, EndsAreAsked
  <2>8. EndsAreQuiet'
    BY <1>2, <1>5, <2>1, <2>2 DEF EndsAreQuiet, Waiting
  <2>9. QED
    BY <2>3, <2>4, <2>5, <2>6, <2>7, <2>8
<1>8. QED
  BY <1>6, <1>7

\* The backend fails, or the write never reaches it.
LEMMA FailureKeeps ==
    ASSUME Inv, BackendFails \/ Refused
    PROVE  Inv'
<1>1. CASE BackendFails
  <2>1. failures' \in 0 .. MaxFailures
    BY <1>1, ConstantsAreValid DEF BackendFails, Inv, TypeOK
  <2>2. QED
    BY <1>1, <2>1, WriteFailsKeeps DEF BackendFails
<1>2. CASE Refused
  <2>1. active = "queued" /\ WriteFails /\ failures' \in 0 .. MaxFailures
    BY <1>2 DEF Refused, Inv, TypeOK
  <2>2. init \in {"failed", "ready"}
    BY <1>2 DEF Refused
  <2>3. QED
    BY <2>1, <2>2, WriteFailsKeeps
<1>3. QED
  BY <1>1, <1>2

\* Those who wait open a barrier: behind the active write, with a write of
\* their own, or with nothing to do.
LEMMA OpenBarrierKeeps ==
    ASSUME Inv, OpenBarrier
    PROVE  Inv'
<1>. USE DEF Inv, ControlInv
<1>1. /\ UNCHANGED <<session, store, fresh, goal, bounds>>
      /\ Waiting # {} /\ init = "ready" /\ barrier = "none" /\ paused' = FALSE
  BY DEF OpenBarrier
<1>2. flusher["teardown"] # "failed"
  BY <1>1 DEF EndsAreQuiet
<1>3. CASE /\ active # "none" /\ barrier' = "overlap" /\ flusher' = Becomes(Waiting, "joined")
           /\ timers' = Cancelled /\ expired' = FALSE /\ UNCHANGED <<pending, batch, writing>>
  <2>1. /\ timers' = 0 /\ expired' = FALSE /\ barrier' = "overlap"
        /\ UNCHANGED <<pending, batch, active, background>>
    BY <1>1, <1>3, CancelDisarms DEF TimerIsSound, writing
  <2>2. /\ \A f \in Flushers :
              flusher'[f] = IF flusher[f] = "waiting" THEN "joined" ELSE flusher[f]
        /\ flusher' \in [Flushers -> FlushStates]
    BY <1>3, WaitingMoves DEF FlushStates
  <2>3. background
    BY <1>1, <1>3 DEF BarrierIsBusy
  <2>4. TypeOK'
    <3>1. /\ timers' \in Nat /\ expired' \in BOOLEAN /\ paused' \in BOOLEAN
          /\ barrier' \in {"none", "overlap", "draining", "failing"}
      BY <1>1, <2>1
    <3>2. QED
      BY <1>1, <2>1, <2>2, <3>1 DEF TypeOK, FlushStates, session, store, bounds
  <2>5. ContentInv'
    BY <1>1, <2>1, ContentStays DEF ContentInv, RewindIsQuiet, session, store
  <2>6. TimerIsSound' /\ PausedIsUnarmed' /\ GoalsAreLogged' /\ BarrierIsBusy'
    BY <1>1, <1>3, <2>1, <2>3 DEF TimerIsSound, WorkIsScheduled, OneDeadline, PausedIsUnarmed,
                                  GoalsAreLogged, BarrierIsBusy, session
  <2>7. FlushIsBarrier' /\ EndsAreAsked'
    BY <1>1, <2>2, InternalFlushers DEF FlushIsBarrier, EndsAreAsked, session, store
  <2>8. EndsAreQuiet'
    BY <1>2, <2>1, <2>2, InternalFlushers DEF EndsAreQuiet, Waiting, Internal
  <2>9. QED
    BY <2>4, <2>5, <2>6, <2>7, <2>8
<1>4. CASE /\ active = "none" /\ pending # <<>> /\ barrier' = "draining"
           /\ flusher' = Becomes(Waiting, "joined") /\ StartWrite(pending, FALSE)
  <2>1. /\ batch' = pending /\ pending' = <<>> /\ active' = "queued" /\ background' = FALSE
        /\ timers' = 0 /\ expired' = FALSE
    BY <1>4, CancelDisarms DEF StartWrite, TimerIsSound
  <2>2. /\ \A f \in Flushers :
              flusher'[f] = IF flusher[f] = "waiting" THEN "joined" ELSE flusher[f]
        /\ flusher' \in [Flushers -> FlushStates]
    BY <1>4, WaitingMoves DEF FlushStates
  <2>3. TypeOK'
    <3>1. batch' \in Seq(Entry) /\ pending' \in Seq(Entry) /\ timers' \in Nat
      BY <2>1 DEF TypeOK
    <3>2. QED
      BY <1>1, <1>4, <2>1, <2>2, <3>1 DEF TypeOK, FlushStates, session, store, bounds
  <2>4. ContentInv'
    BY <1>1, <1>4, <2>1, QueueTakes DEF session, store
  <2>5. TimerIsSound' /\ PausedIsUnarmed' /\ GoalsAreLogged' /\ BarrierIsBusy'
    BY <1>1, <1>4, <2>1 DEF TimerIsSound, WorkIsScheduled, OneDeadline, PausedIsUnarmed,
                            GoalsAreLogged, BarrierIsBusy, session
  <2>6. FlushIsBarrier' /\ EndsAreAsked'
    BY <1>1, <2>2, InternalFlushers DEF FlushIsBarrier, EndsAreAsked, session, store
  <2>7. EndsAreQuiet'
    BY <1>2, <1>4, <2>1, <2>2, InternalFlushers DEF EndsAreQuiet, Waiting, Internal
  <2>8. QED
    BY <2>3, <2>4, <2>5, <2>6, <2>7
<1>5. CASE /\ active = "none" /\ pending = <<>> /\ flusher' = Becomes(Waiting, "done")
           /\ timers' = Cancelled /\ expired' = FALSE
           /\ UNCHANGED <<barrier, pending, batch, writing>>
  <2>1. /\ timers' = 0 /\ expired' = FALSE /\ barrier' = "none"
        /\ UNCHANGED <<pending, batch, active, background>>
    BY <1>1, <1>5, CancelDisarms DEF TimerIsSound, writing
  <2>2. /\ \A f \in Flushers :
              flusher'[f] = IF flusher[f] = "waiting" THEN "done" ELSE flusher[f]
        /\ flusher' \in [Flushers -> FlushStates]
    BY <1>5, WaitingMoves DEF FlushStates
  <2>3. rewindTo = NoRewind => Len(stored) = Len(log)
    <3>1. batch = <<>> /\ Len(batch) = 0 /\ Len(pending) = 0
      BY <1>5 DEF ContentInv, WriteIsNonempty
    <3>2. Base = Len(log) /\ Len(log) \in Nat /\ Len(stored) \in Nat /\ state.cursor \in Nat
      BY <3>1, Sizes DEF ContentInv
    <3>3. QED
      BY <1>1, <1>5, <3>2 DEF ContentInv, CursorIsExact
  <2>4. TypeOK'
    <3>1. /\ timers' \in Nat /\ expired' \in BOOLEAN /\ paused' \in BOOLEAN
          /\ barrier' \in {"none", "overlap", "draining", "failing"}
      BY <1>1, <2>1
    <3>2. QED
      BY <1>1, <2>1, <2>2, <3>1 DEF TypeOK, FlushStates, session, store, bounds
  <2>5. ContentInv'
    BY <1>1, <2>1, ContentStays DEF ContentInv, RewindIsQuiet, session, store
  <2>6. TimerIsSound' /\ PausedIsUnarmed' /\ GoalsAreLogged'
    BY <1>1, <1>5, <2>1 DEF TimerIsSound, WorkIsScheduled, OneDeadline, PausedIsUnarmed,
                            GoalsAreLogged, session
  <2>7. BarrierIsBusy'
    BY <1>1, <1>5, <2>1, <2>2 DEF BarrierIsBusy, Joined
  <2>8. FlushIsBarrier'
    BY <1>1, <2>2, <2>3 DEF FlushIsBarrier, GoalsAreLogged, session, store
  <2>9. EndsAreAsked'
    BY <1>1, <2>2, InternalFlushers DEF EndsAreAsked, session, store
  <2>10. EndsAreQuiet'
    BY <1>2, <1>5, <2>1, <2>2, InternalFlushers DEF EndsAreQuiet, Waiting, Internal
  <2>11. QED
    BY <2>4, <2>5, <2>6, <2>7, <2>8, <2>9, <2>10
<1>6. QED
  BY <1>3, <1>4, <1>5 DEF OpenBarrier

-----------------------------------------------------------------------------
(* A rewind.                                                               *)

\* Cutting a sequence keeps its beginning.
LEMMA CutDoes ==
    ASSUME NEW s \in Seq(Event), NEW n \in 0 .. Len(s)
    PROVE  /\ SubSeq(s, 1, n) \in Seq(Event) /\ Len(SubSeq(s, 1, n)) = n
           /\ \A i \in 1 .. n : SubSeq(s, 1, n)[i] = s[i]
<1>1. Len(s) \in Nat /\ n \in Int /\ \A i \in 1 .. n : s[i] \in Event
  OBVIOUS
<1>2. /\ SubSeq(s, 1, n) \in Seq(Event)
      /\ Len(SubSeq(s, 1, n)) = IF 1 <= n THEN n - 1 + 1 ELSE 0
      /\ \A i \in 1 .. n - 1 + 1 : SubSeq(s, 1, n)[i] = s[1 + i - 1]
  BY <1>1, SubSeqProperties
<1>3. n - 1 + 1 = n /\ (IF 1 <= n THEN n - 1 + 1 ELSE 0) = n
  BY <1>1
<1>4. \A i \in 1 .. n : 1 + i - 1 = i
  BY <1>1
<1>5. QED
  BY <1>2, <1>3, <1>4

\* A sequence that agrees with the beginning of another is that beginning.
LEMMA PrefixIsCut ==
    ASSUME NEW s \in Seq(Event), NEW t \in Seq(Event), Len(s) <= Len(t),
           \A i \in 1 .. Len(s) : s[i] = t[i]
    PROVE  s = SubSeq(t, 1, Len(s))
<1>1. Len(s) \in 0 .. Len(t)
  OBVIOUS
<1>2. /\ SubSeq(t, 1, Len(s)) \in Seq(Event) /\ Len(SubSeq(t, 1, Len(s))) = Len(s)
      /\ \A i \in 1 .. Len(s) : SubSeq(t, 1, Len(s))[i] = t[i]
  BY <1>1, CutDoes
<1>3. QED
  BY <1>2, SeqEqual

\* A rewind that finds the log durable and quiet cuts storage.
LEMMA RewindKeeps ==
    ASSUME Inv, "busy-rewind" \notin Admitted, NEW n \in 0 .. Len(log) - 1, Rewind(n)
    PROVE  Inv' /\ stored = log /\ n \in 0 .. Len(stored) /\ stored' = SubSeq(stored, 1, n)
<1>. USE DEF Inv, ControlInv
<1>1. /\ UNCHANGED <<session, artifact, state, seed, init, service, queue, writing,
                     clock, barrier, flushes, failures>>
      /\ life = "live" /\ service = "open" /\ rewindTo = NoRewind /\ init = "ready"
      /\ active = "none" /\ pending = <<>> /\ Waiting = {}
      /\ rewinds < MaxRewinds /\ rewinds' = rewinds + 1 /\ rewindTo' = n
      /\ stored' = (IF Len(stored) <= n THEN stored ELSE SubSeq(stored, 1, n))
  BY DEF Rewind, Quiet
<1>2. Len(stored) = Len(log) /\ Len(log) \in Nat /\ n < Len(log) /\ n \in 0 .. Len(stored)
  <2>1. batch = <<>> /\ Len(batch) = 0 /\ Len(pending) = 0
    BY <1>1 DEF ContentInv, WriteIsNonempty
  <2>2. Base = Len(log) /\ Len(log) \in Nat /\ Len(stored) \in Nat /\ state.cursor \in Nat
    BY <2>1, Sizes DEF ContentInv
  <2>3. Len(stored) = Len(log)
    BY <1>1, <2>2 DEF ContentInv, CursorIsExact
  <2>4. QED
    BY <1>1, <2>2, <2>3
<1>3. stored \in Seq(Event) /\ log \in Seq(Event) /\ \A i \in 1 .. Len(stored) : stored[i] = log[i]
  BY DEF TypeOK, Event, ContentInv, StoredIsPrefix
<1>4. stored = log
  BY <1>2, <1>3, SeqEqual
<1>5. stored' = SubSeq(stored, 1, n)
  BY <1>1, <1>2
<1>6. /\ stored' \in Seq(Event) /\ Len(stored') = n
      /\ \A i \in 1 .. n : stored'[i] = stored[i]
  <2>1. n \in 0 .. Len(stored)
    BY <1>2
  <2>2. QED
    BY <1>3, <1>5, <2>1, CutDoes
<1>7. n \in 0 .. NoRewind /\ n # NoRewind /\ n \in Nat
  <2>1. Len(log) \in 0 .. MaxEvents /\ MaxEvents \in Nat
    BY LogIsBounded, ConstantsAreValid DEF ContentInv
  <2>2. QED
    BY <1>2, <2>1 DEF NoRewind
<1>8. TypeOK'
  <2>1. rewinds' \in 0 .. MaxRewinds
    BY <1>1, ConstantsAreValid DEF TypeOK
  <2>2. rewindTo' \in (0 .. NoRewind)'
    BY <1>1, <1>7 DEF NoRewind
  <2>3. QED
    BY <1>1, <1>6, <2>1, <2>2
       DEF TypeOK, Event, session, queue, writing, clock, flushes
<1>9. ContentInv'
  <2>1. Base' = Base
    BY <1>1 DEF Base, session, queue
  <2>2. BornOnce' /\ WriteIsNonempty' /\ SeedCovers'
    BY <1>1 DEF ContentInv, BornOnce, WriteIsNonempty, SeedCovers, session, queue, writing
  <2>3. StoredIsPrefix'
    <3>1. Len(stored') <= Len(log') /\ \A i \in 1 .. Len(stored') : stored'[i] = log'[i]
      BY <1>1, <1>2, <1>3, <1>6 DEF session
    <3>2. artifact'
      BY <1>1, <1>2 DEF ContentInv, StoredIsPrefix
    <3>3. QED
      BY <3>1, <3>2 DEF StoredIsPrefix
  <2>4. QueueIsTheEnd'
    BY <1>1 DEF ContentInv, QueueIsTheEnd, Base, EntryAt, session, queue
  <2>5. CursorIsExact' /\ FreshIsNext'
    BY <1>1, <1>7 DEF CursorIsExact, FreshIsNext, NoRewind, writing
  <2>6. RewindIsQuiet'
    BY <1>1, <1>6, <1>7 DEF RewindIsQuiet, session, writing, queue
  <2>7. QED
    BY <2>2, <2>3, <2>4, <2>5, <2>6 DEF ContentInv
<1>10. ControlInv'
  <2>1. TimerIsSound' /\ PausedIsUnarmed' /\ GoalsAreLogged' /\ BarrierIsBusy' /\ EndsAreQuiet'
    BY <1>1 DEF TimerIsSound, WorkIsScheduled, OneDeadline, PausedIsUnarmed, GoalsAreLogged,
                BarrierIsBusy, EndsAreQuiet, Joined, Waiting,
                session, queue, writing, clock, flushes
  <2>2. FlushIsBarrier'
    BY <1>1, <1>7 DEF FlushIsBarrier, NoRewind
  <2>3. EndsAreAsked'
    BY <1>1 DEF EndsAreAsked, session, flushes
  <2>4. QED
    BY <2>1, <2>2, <2>3
<1>11. QED
  BY <1>2, <1>4, <1>5, <1>8, <1>9, <1>10

\* The cursor and the log follow the cut.
LEMMA FollowKeeps ==
    ASSUME Inv, Follow
    PROVE  Inv' /\ log' = stored
<1>. USE DEF Inv, ControlInv
<1>1. /\ UNCHANGED <<born, life, stored, artifact, seed, init, service, queue, writing,
                     clock, barrier, flusher, bounds>>
      /\ rewindTo # NoRewind /\ rewindTo' = NoRewind
      /\ state' = [cursor |-> rewindTo, materialized |-> rewindTo > 0]
      /\ goal' = [f \in Flushers |-> IF goal[f] < rewindTo THEN goal[f] ELSE rewindTo]
  BY DEF Follow
<1>2. /\ init = "ready" /\ life = "live" /\ active = "none" /\ pending = <<>>
      /\ Len(stored) = rewindTo
  BY <1>1 DEF ContentInv, RewindIsQuiet
<1>3. PICK n \in Nat : n = rewindTo /\ n = Len(stored) /\ n \in 0 .. Len(log)
  <2>1. Len(stored) \in Nat /\ Len(log) \in Nat /\ Len(stored) <= Len(log)
    BY Sizes DEF ContentInv, StoredIsPrefix
  <2>2. QED
    BY <1>2, <2>1
<1>4. stored \in Seq(Event) /\ log \in Seq(Event) /\ \A i \in 1 .. n : stored[i] = log[i]
  BY <1>3 DEF TypeOK, Event, ContentInv, StoredIsPrefix
<1>5. log' = stored
  <2>1. log' = SubSeq(log, 1, n)
    BY <1>2, <1>3 DEF Follow
  <2>2. stored = SubSeq(log, 1, Len(stored))
    BY <1>3, <1>4, PrefixIsCut
  <2>3. QED
    BY <1>3, <2>1, <2>2
<1>6. stored # <<>> => artifact
  BY DEF ContentInv, StoredIsPrefix
<1>7. state'.cursor = n
  BY <1>1, <1>3
<1>8. /\ \A f \in Flushers : goal'[f] <= n /\ goal'[f] \in 0 .. MaxEvents
      /\ goal' \in [Flushers -> 0 .. MaxEvents]
  <2>1. \A f \in Flushers : goal[f] \in 0 .. MaxEvents
    BY DEF TypeOK
  <2>2. Len(log) \in 0 .. MaxEvents
    BY LogIsBounded DEF ContentInv
  <2>3. n \in 0 .. MaxEvents
    <3>1. MaxEvents \in Nat
      BY ConstantsAreValid
    <3>2. QED
      BY <1>3, <2>2, <3>1
  <2>4. \A f \in Flushers : goal'[f] = IF goal[f] < n THEN goal[f] ELSE n
    BY <1>1, <1>3
  <2>5. \A f \in Flushers : goal'[f] <= n /\ goal'[f] \in 0 .. MaxEvents
    BY <2>1, <2>3, <2>4
  <2>6. QED
    BY <1>1, <2>4, <2>5
<1>9. TypeOK'
  <2>1. state' \in [cursor : Nat, materialized : BOOLEAN]
    BY <1>1, <1>3
  <2>2. rewindTo' \in (0 .. NoRewind)'
    BY <1>1, ConstantsAreValid DEF NoRewind
  <2>3. QED
    BY <1>1, <1>4, <1>5, <1>8, <2>1, <2>2
       DEF TypeOK, Event, queue, writing, clock, bounds
<1>10. batch = <<>> /\ Len(batch) = 0 /\ Len(pending) = 0
  BY <1>2 DEF ContentInv, WriteIsNonempty
<1>11. Base' = n
  <2>1. Base' = Len(log') - Len(batch') - Len(pending')
    BY DEF Base
  <2>2. Len(log') = n /\ Len(batch') = 0 /\ Len(pending') = 0
    BY <1>1, <1>3, <1>5, <1>10 DEF queue
  <2>3. QED
    BY <2>1, <2>2
<1>12. ContentInv'
  <2>1. BornOnce'
    BY <1>1, <1>3, <1>5, Sizes DEF ContentInv, BornOnce, TypeOK
  <2>2. StoredIsPrefix'
    BY <1>1, <1>3, <1>5, <1>6 DEF StoredIsPrefix
  <2>3. QueueIsTheEnd'
    <3>1. DOMAIN batch' = {} /\ DOMAIN pending' = {}
      BY <1>1, <1>2, <1>10 DEF queue
    <3>2. QED
      BY <1>11, <3>1 DEF QueueIsTheEnd
  <2>4. WriteIsNonempty'
    BY <1>1 DEF ContentInv, WriteIsNonempty, queue, writing
  <2>5. SeedCovers' /\ FreshIsNext'
    BY <1>1, <1>2 DEF SeedCovers, FreshIsNext, writing
  <2>6. CursorIsExact'
    BY <1>1, <1>2, <1>3, <1>5, <1>7, <1>11 DEF CursorIsExact, writing
  <2>7. RewindIsQuiet'
    BY <1>1 DEF RewindIsQuiet, NoRewind
  <2>8. QED
    BY <2>1, <2>2, <2>3, <2>4, <2>5, <2>6, <2>7 DEF ContentInv
<1>13. ControlInv'
  <2>1. TimerIsSound' /\ PausedIsUnarmed' /\ BarrierIsBusy' /\ EndsAreQuiet'
    BY <1>1 DEF TimerIsSound, WorkIsScheduled, OneDeadline, PausedIsUnarmed,
                BarrierIsBusy, EndsAreQuiet, Joined, Waiting, queue, writing, clock
  <2>2. GoalsAreLogged' /\ FlushIsBarrier'
    BY <1>1, <1>3, <1>5, <1>8 DEF GoalsAreLogged, FlushIsBarrier
  <2>3. EndsAreAsked'
    BY <1>1, <1>2 DEF EndsAreAsked
  <2>4. QED
    BY <2>1, <2>2, <2>3
<1>14. QED
  BY <1>5, <1>9, <1>12, <1>13

-----------------------------------------------------------------------------
(* The specification.                                                      *)

\* The session begins with a seed of which storage holds a prefix.
LEMMA InitInv == Init => Inv
<1> SUFFICES ASSUME Init PROVE Inv
  OBVIOUS
<1>1. PICK n \in Seeds : log = [i \in 1 .. n |-> i]
  BY DEF Init
<1>2. n \in 0 .. MaxEvents /\ n \in Nat /\ MaxEvents \in Nat
  BY ConstantsAreValid
<1>3. /\ log \in Seq(Event) /\ Len(log) = n /\ DOMAIN log = 1 .. n
      /\ \A i \in 1 .. n : log[i] = i
  <2>1. \A i \in 1 .. n : i \in Event
    BY <1>2 DEF Event
  <2>2. log \in [1 .. n -> Event] /\ \A i \in 1 .. n : log[i] = i
    BY <1>1, <2>1
  <2>3. log \in Seq(Event) /\ Len(log) = n
    BY <1>2, <2>2
  <2>4. QED
    BY <1>2, <2>2, <2>3
<1>4. PICK m \in 0 .. n : stored = SubSeq(log, 1, m)
  BY <1>3 DEF Init
<1>5. stored \in Seq(Event) /\ Len(stored) = m /\ \A i \in 1 .. m : stored[i] = log[i]
  <2>1. m \in 0 .. Len(log)
    BY <1>3
  <2>2. QED
    BY <1>3, <1>4, <2>1, CutDoes
<1>6. /\ seed = log /\ init = "adopting" /\ life = "live" /\ service = "open" /\ born = n
      /\ rewindTo = NoRewind /\ active = "none" /\ barrier = "none" /\ ~paused
      /\ batch = <<>> /\ fresh = <<>> /\ artifact = (stored # <<>>)
      /\ \A f \in Flushers : flusher[f] = "idle" /\ goal[f] = 0
  BY <1>3 DEF Init
<1>7. PICK first \in Seq(Entry), q \in {0, 1} :
         /\ pending = first /\ Len(first) = q /\ timers = q /\ q <= n
         /\ q = 1 => first[1] = [seq |-> n - 1, id |-> n]
  <2>1. CASE pending = <<>> /\ timers = 0
    <3>1. <<>> \in Seq(Entry) /\ Len(<<>>) = 0
      OBVIOUS
    <3>2. 0 \in {0, 1} /\ 0 <= n /\ ~(0 = 1)
      BY <1>2
    <3>3. QED
      BY <2>1, <3>1, <3>2
  <2>2. CASE /\ Len(log) > Len(stored) /\ timers = 1
             /\ pending = <<[seq |-> Len(log) - 1, id |-> Len(log)]>>
    <3>1. n >= 1 /\ n - 1 \in 0 .. MaxEvents /\ n \in 1 .. MaxEvents
      <4>1. n > m /\ m \in Nat
        BY <1>2, <1>3, <1>5, <2>2
      <4>2. QED
        BY <1>2, <4>1
    <3>2. [seq |-> n - 1, id |-> n] \in Entry
      BY <3>1 DEF Entry
    <3>3. pending = <<[seq |-> n - 1, id |-> n]>>
      BY <1>3, <2>2
    <3>4. pending \in Seq(Entry) /\ Len(pending) = 1 /\ pending[1] = [seq |-> n - 1, id |-> n]
      BY <3>2, <3>3
    <3>5. QED
      BY <2>2, <3>1, <3>4
  <2>3. QED
    BY <2>1, <2>2 DEF FirstQueued, Init
<1>8. TypeOK
  <2>1. log \in Seq(1 .. MaxEvents) /\ stored \in Seq(1 .. MaxEvents) /\ seed \in Seq(1 .. MaxEvents)
    BY <1>3, <1>5, <1>6 DEF Event
  <2>2. state \in [cursor : Nat, materialized : BOOLEAN]
    BY DEF Init
  <2>3. pending \in Seq(Entry) /\ batch \in Seq(Entry) /\ fresh \in Seq(Entry) /\ timers \in Nat
    BY <1>6, <1>7
  <2>4. rewindTo \in 0 .. NoRewind /\ born \in 0 .. MaxEvents
    <3>1. NoRewind \in Nat
      BY <1>2 DEF NoRewind
    <3>2. QED
      BY <1>2, <1>6, <3>1
  <2>5. /\ flusher \in [Flushers -> {"idle", "waiting", "joined", "done", "failed"}]
        /\ goal \in [Flushers -> 0 .. MaxEvents]
    BY <1>2 DEF Init
  <2>6. /\ failures \in 0 .. MaxFailures /\ rewinds \in 0 .. MaxRewinds
        /\ background = FALSE /\ expired = FALSE /\ paused = FALSE
    BY ConstantsAreValid DEF Init
  <2>7. artifact \in BOOLEAN
    BY <1>6
  <2>8. QED
    BY <1>6, <2>1, <2>2, <2>3, <2>4, <2>5, <2>6, <2>7 DEF TypeOK
<1>9. Len(batch) = 0 /\ DOMAIN batch = {} /\ DOMAIN pending = 1 .. q
  BY <1>6, <1>7
<1>10. Base = n - q
  <2>1. Base = Len(log) - Len(batch) - Len(pending)
    BY DEF Base
  <2>2. QED
    BY <1>2, <1>3, <1>7, <1>9, <2>1
<1>11. ContentInv
  <2>1. BornOnce /\ StoredIsPrefix /\ WriteIsNonempty
    <3>1. stored # <<>> => artifact
      BY <1>6, Zenon
    <3>2. BornOnce /\ WriteIsNonempty
      BY <1>2, <1>3, <1>6 DEF BornOnce, WriteIsNonempty
    <3>3. QED
      BY <1>2, <1>3, <1>5, <3>1, <3>2 DEF StoredIsPrefix
  <2>2. QueueIsTheEnd
    <3>1. \A k \in DOMAIN pending : pending[k] = [seq |-> (n - q + 0 + k) - 1, id |-> log[n - q + 0 + k]]
      <4>1. SUFFICES ASSUME NEW k \in DOMAIN pending
                     PROVE  pending[k] = [seq |-> (n - q + 0 + k) - 1, id |-> log[n - q + 0 + k]]
        OBVIOUS
      <4>2. k = 1 /\ q = 1 /\ n \in 1 .. n
        BY <1>2, <1>7, <1>9
      <4>3. n - q + 0 + k = n
        BY <1>2, <4>2
      <4>4. log[n] = n
        BY <1>3, <4>2
      <4>5. QED
        BY <1>7, <4>2, <4>3, <4>4
    <3>2. n - q >= 0
      BY <1>2, <1>7
    <3>3. QED
      BY <1>9, <1>10, <3>1, <3>2 DEF QueueIsTheEnd, EntryAt
  <2>3. SeedCovers
    BY <1>2, <1>3, <1>5, <1>6, <1>7, <1>10 DEF SeedCovers
  <2>4. CursorIsExact /\ FreshIsNext /\ RewindIsQuiet
    BY <1>6 DEF CursorIsExact, FreshIsNext, RewindIsQuiet
  <2>5. QED
    BY <2>1, <2>2, <2>3, <2>4 DEF ContentInv
<1>12. ControlInv
  <2>1. TimerIsSound
    <3>1. q = 0 => pending = <<>>
      BY <1>7
    <3>2. q = 1 => pending # <<>>
      <4>1. Len(pending) = q /\ Len(<<>>) = 0
        BY <1>7
      <4>2. QED
        BY <4>1
    <3>3. QED
      BY <1>6, <1>7, <3>1, <3>2 DEF TimerIsSound, WorkIsScheduled, OneDeadline
  <2>2. PausedIsUnarmed /\ BarrierIsBusy /\ GoalsAreLogged
    BY <1>2, <1>3, <1>6 DEF PausedIsUnarmed, BarrierIsBusy, GoalsAreLogged, Joined
  <2>3. FlushIsBarrier /\ EndsAreAsked /\ EndsAreQuiet
    BY <1>6, InternalFlushers DEF FlushIsBarrier, EndsAreAsked, EndsAreQuiet, Internal
  <2>4. QED
    BY <2>1, <2>2, <2>3 DEF ControlInv
<1>13. QED
  BY <1>8, <1>11, <1>12 DEF Inv

\* A step that changes nothing.
LEMMA StutterKeeps ==
    ASSUME Inv, UNCHANGED vars
    PROVE  Inv'
<1>. USE DEF Inv, vars, session, store, queue, writing, clock, flushes, bounds
<1>1. TypeOK'
  BY DEF TypeOK
<1>2. ContentInv'
  BY ContentStays DEF ContentInv, RewindIsQuiet, SeedCovers
<1>3. ControlInv'
  <2>1. Len(stored) \in Nat /\ Len(stored) <= Len(log)
    BY Sizes DEF ContentInv, StoredIsPrefix
  <2>2. QED
    BY <2>1, ControlStays
<1>4. QED
  BY <1>1, <1>2, <1>3

\* Every step keeps the invariant, if rewinds wait until the log is durable.
LEMMA NextKeeps ==
    ASSUME "busy-rewind" \notin Admitted, Inv, [Next]_vars
    PROVE  Inv'
<1>1. CASE AppendEvent
  BY <1>1, AppendEventKeeps
<1>2. CASE Deadline
  BY <1>2, DeadlineKeeps
<1>3. CASE Initialise
  BY <1>3, AdoptKeeps, WriteSeedKeeps, InitFailsKeeps DEF Initialise
<1>4. CASE Write
  BY <1>4, BeginWriteKeeps, StoreKeeps, AcknowledgeKeeps, FailureKeeps, BarrierFailsKeeps
     DEF Write
<1>5. CASE Flush
  BY <1>5, JoinKeeps, OpenBarrierKeeps, FlushFailsKeeps DEF Flush
<1>6. CASE \E c \in Callers : FlushCall(c)
  BY <1>6, FlushCallKeeps
<1>7. CASE Dispose
  BY <1>7, DisposeKeeps
<1>8. CASE Retire
  BY <1>8, RetireKeeps
<1>9. CASE Teardown
  BY <1>9, TeardownKeeps
<1>10. CASE Close
  BY <1>10, CloseKeeps
<1>11. CASE \E n \in 0 .. Len(log) - 1 : Rewind(n)
  BY <1>11, RewindKeeps
<1>12. CASE Follow
  BY <1>12, FollowKeeps
<1>13. CASE UNCHANGED vars
  BY <1>13, StutterKeeps
<1>14. QED
  BY <1>1, <1>2, <1>3, <1>4, <1>5, <1>6, <1>7, <1>8, <1>9, <1>10, <1>11, <1>12, <1>13
     DEF Next

\* The inductive invariant holds of every state: what is queued, what is being
\* written and what is on disk are one log, and whoever waits is served.
THEOREM InvHolds ==
    ASSUME "busy-rewind" \notin Admitted
    PROVE  Spec => []Inv
<1>1. Init => Inv
  BY InitInv
<1>2. Inv /\ [Next]_vars => Inv'
  BY NextKeeps
<1>3. QED
  BY <1>1, <1>2, PTL DEF Spec

\* Whatever the log holds has an owner.
LEMMA InvOwns == Inv => NothingLost
<1> SUFFICES ASSUME Inv, rewindTo = NoRewind, NEW i \in DOMAIN log
             PROVE  Owned(i)
  BY DEF NothingLost
<1>. USE DEF Inv
<1>1. PICK b \in Nat, l \in Nat, q \in Nat :
         /\ b = Base /\ l = Len(batch) /\ q = Len(pending) /\ Len(log) = b + l + q
         /\ DOMAIN batch = 1 .. l /\ DOMAIN pending = 1 .. q /\ DOMAIN log = 1 .. b + l + q
  BY Sizes DEF ContentInv
<1>2. i \in Nat /\ i >= 1 /\ i <= b + l + q
  BY <1>1
<1>3. CASE i > b + l
  <2>1. i - (b + l) \in 1 .. q /\ b + l + (i - (b + l)) = i
    BY <1>1, <1>2, <1>3
  <2>2. pending[i - (b + l)] = EntryAt(b + l + (i - (b + l)))
    BY <1>1, <2>1 DEF ContentInv, QueueIsTheEnd
  <2>3. QED
    BY <1>1, <2>1, <2>2 DEF Owned, EntryAt
<1>4. CASE i > b /\ i <= b + l
  <2>1. i - b \in 1 .. l /\ b + (i - b) = i
    BY <1>1, <1>2, <1>4
  <2>2. batch[i - b] = EntryAt(b + (i - b))
    BY <1>1, <2>1 DEF ContentInv, QueueIsTheEnd
  <2>3. QED
    BY <1>1, <2>1, <2>2 DEF Owned, EntryAt
<1>5. CASE i <= b
  <2>1. CASE init # "ready"
    <3>1. b <= Len(seed) /\ Len(seed) \in Nat
      BY <1>1, <2>1, Sizes DEF ContentInv, SeedCovers
    <3>2. QED
      BY <1>2, <1>5, <2>1, <3>1 DEF Owned
  <2>2. CASE init = "ready"
    <3>1. /\ b <= state.cursor /\ state.cursor \in Nat /\ Len(fresh) \in Nat
          /\ Len(stored) \in {state.cursor, state.cursor + Len(fresh)}
      BY <1>1, <2>2, Sizes DEF ContentInv, CursorIsExact
    <3>2. i \in 1 .. Len(stored) /\ i <= Len(stored)
      BY <1>2, <1>5, <3>1
    <3>3. stored[i] = log[i]
      BY <3>2 DEF ContentInv, StoredIsPrefix
    <3>4. QED
      BY <3>2, <3>3 DEF Owned
  <2>3. QED
    BY <2>1, <2>2
<1>6. QED
  BY <1>1, <1>2, <1>3, <1>4, <1>5

\* When storage is as long as the log it is the log.
LEMMA WholeLogIsStored == Inv /\ Len(stored) = Len(log) => stored = log
<1> SUFFICES ASSUME Inv, Len(stored) = Len(log)
             PROVE  stored = log
  OBVIOUS
<1>1. stored \in Seq(Event) /\ log \in Seq(Event)
  BY DEF Inv, TypeOK, Event
<1>2. \A i \in 1 .. Len(stored) : stored[i] = log[i]
  BY DEF Inv, ContentInv, StoredIsPrefix
<1>3. QED
  BY <1>1, <1>2, SeqEqual

\* A session that was released is on disk, and a closed backend is at rest.
LEMMA InvEnds == Inv => EndIsQuiet
<1> SUFFICES ASSUME Inv
             PROVE  EndIsQuiet
  OBVIOUS
<1>1. life = "released" => stored = log
  BY WholeLogIsStored DEF Inv, ControlInv, EndsAreAsked
<1>2. ASSUME service = "closed"
      PROVE  timers = 0 /\ barrier = "none" /\ (active = "none" \/ init = "failed")
  <2>1. flusher["teardown"] \in {"done", "failed"}
    BY <1>2 DEF Inv, ControlInv, EndsAreAsked
  <2>2. CASE flusher["teardown"] = "done"
    <3>1. pending = <<>> /\ active = "none"
      BY <2>2 DEF Inv, ControlInv, EndsAreQuiet, Internal
    <3>2. timers = 0
      BY <3>1 DEF Inv, ControlInv, TimerIsSound, OneDeadline, TypeOK
    <3>3. barrier = "none"
      BY <3>1 DEF Inv, ControlInv, BarrierIsBusy, TypeOK
    <3>4. QED
      BY <3>1, <3>2, <3>3
  <2>3. CASE flusher["teardown"] = "failed"
    BY <2>3 DEF Inv, ControlInv, EndsAreQuiet
  <2>4. QED
    BY <2>1, <2>2, <2>3
<1>3. QED
  BY <1>1, <1>2 DEF EndIsQuiet

\* The coordinator knows whether the session has a log on disk, unless a rewind
\* to the start let it forget the one that is there.
FileIsKnown ==
    /\ rewindTo # NoRewind => rewindTo > 0
    /\ init = "ready" /\ rewindTo = NoRewind =>
          /\ active # "stored" => state.materialized = artifact
          /\ active = "stored" => artifact = (state.materialized \/ fresh # <<>>)

\* Nothing is stored, or known to be, before the session was initialised.
LEMMA FileInit == Init => FileIsKnown
BY DEF Init, FileIsKnown

\* The steps of a write, of an initialisation and of a rewind keep the two in step.
LEMMA FileStep ==
    ASSUME "rewind-to-start" \notin Admitted, Inv, FileIsKnown, [Next]_vars
    PROVE  FileIsKnown'
<1>. USE DEF FileIsKnown
<1>1. CASE UNCHANGED <<init, rewindTo, state, artifact>> /\ active' # "stored" /\ active # "stored"
  BY <1>1 DEF NoRewind
<1>2. CASE UNCHANGED <<init, rewindTo, state, artifact, active, fresh>>
  BY <1>2 DEF NoRewind
<1>3. CASE Adopt
  <2>1. /\ UNCHANGED <<rewindTo, active>> /\ state'.materialized = artifact /\ artifact' = artifact
        /\ rewindTo = NoRewind /\ active # "stored"
    BY <1>3 DEF Adopt, Inv, ContentInv, SeedCovers, writing
  <2>2. QED
    BY <2>1 DEF NoRewind
<1>4. CASE WriteSeed
  <2>1. /\ UNCHANGED <<rewindTo, active>> /\ state'.materialized = TRUE /\ artifact' = TRUE
        /\ rewindTo = NoRewind /\ active # "stored"
    BY <1>4 DEF WriteSeed, Inv, ContentInv, SeedCovers, writing
  <2>2. QED
    BY <2>1 DEF NoRewind
<1>5. CASE InitFails
  BY <1>5 DEF InitFails, Inv, ContentInv, SeedCovers, NoRewind
<1>6. CASE Store
  <2>1. /\ UNCHANGED <<init, rewindTo, state, fresh>> /\ active' = "stored" /\ active = "writing"
        /\ artifact' = (artifact \/ fresh # <<>>)
    BY <1>6 DEF Store, queue
  <2>2. init = "ready" /\ rewindTo = NoRewind
    BY <2>1, WritingIsReady DEF Inv
  <2>3. state.materialized = artifact
    BY <2>1, <2>2
  <2>4. artifact' = (state.materialized \/ fresh # <<>>)
    BY <2>1, <2>3, Zenon
  <2>5. QED
    BY <2>1, <2>2, <2>4 DEF NoRewind
<1>7. CASE Acknowledge
  <2>1. /\ UNCHANGED <<init, rewindTo, artifact>> /\ active = "stored" /\ active' # "stored"
        /\ state' = Advanced
    BY <1>7 DEF Acknowledge, StartWrite, NoActiveWrite
  <2>2. init = "ready" /\ rewindTo = NoRewind
    BY <2>1, WritingIsReady DEF Inv
  <2>3. artifact = (state.materialized \/ fresh # <<>>)
    BY <2>1, <2>2
  <2>4. state'.materialized = artifact
    <3>1. CASE fresh = <<>>
      <4>1. state' = state
        BY <2>1, <3>1 DEF Advanced
      <4>2. artifact = state.materialized
        BY <2>3, <3>1 DEF Inv, TypeOK
      <4>3. QED
        BY <4>1, <4>2
    <3>2. CASE fresh # <<>>
      <4>1. state'.materialized = TRUE
        BY <2>1, <3>2 DEF Advanced
      <4>2. artifact = TRUE
        BY <2>3, <3>2, Zenon
      <4>3. QED
        BY <4>1, <4>2
    <3>3. QED
      BY <3>1, <3>2
  <2>5. QED
    BY <2>1, <2>2, <2>4 DEF NoRewind
<1>8. ASSUME NEW n \in 0 .. Len(log) - 1, Rewind(n)
      PROVE  FileIsKnown'
  <2>1. rewindTo' = n /\ n > 0 /\ n # NoRewind /\ NoRewind' = NoRewind
    <3>1. Len(log) \in 0 .. MaxEvents /\ MaxEvents \in Nat
      BY LogIsBounded, ConstantsAreValid DEF Inv, ContentInv
    <3>2. QED
      BY <1>8, <3>1 DEF Rewind, NoRewind
  <2>2. QED
    BY <2>1
<1>9. CASE Follow
  <2>1. /\ UNCHANGED <<init, artifact, active>> /\ rewindTo # NoRewind /\ rewindTo' = NoRewind
        /\ NoRewind' = NoRewind /\ state'.materialized = (rewindTo > 0)
    BY <1>9 DEF Follow, writing, NoRewind
  <2>2. active = "none" /\ Len(stored) = rewindTo
    BY <2>1 DEF Inv, ContentInv, RewindIsQuiet
  <2>3. rewindTo > 0
    BY <2>1
  <2>4. stored # <<>> /\ artifact = TRUE
    BY <2>2, <2>3 DEF Inv, TypeOK, ContentInv, StoredIsPrefix
  <2>5. state'.materialized = TRUE
    BY <2>1, <2>3
  <2>6. QED
    BY <2>1, <2>2, <2>4, <2>5
<1>10. CASE BeginWrite \/ BackendFails \/ Refused
  <2>1. /\ UNCHANGED <<init, rewindTo, state, artifact>> /\ active # "stored" /\ active' # "stored"
    BY <1>10 DEF BeginWrite, BackendFails, Refused, WriteFails, StartWrite, NoActiveWrite, store
  <2>2. QED
    BY <1>1, <2>1
<1>11. CASE AppendEvent \/ BarrierFails \/ Join \/ FlushFails \/ Dispose \/ Retire \/ Teardown
            \/ Close \/ \E c \in Callers : FlushCall(c)
  <2>1. UNCHANGED <<init, rewindTo, state, artifact, active, fresh>>
    BY <1>11 DEF AppendEvent, BarrierFails, Join, FlushFails, Dispose, Retire, Teardown, Close,
                 FlushCall, store, writing, queue
  <2>2. QED
    BY <1>2, <2>1
<1>12. CASE Deadline \/ OpenBarrier
  <2>1. /\ UNCHANGED <<init, rewindTo, state, artifact, fresh>>
        /\ active' = active \/ (active = "none" /\ active' = "queued")
    BY <1>12 DEF Deadline, OpenBarrier, StartWrite, store, writing, queue
  <2>2. QED
    BY <1>1, <1>2, <2>1
<1>13. CASE UNCHANGED vars
  BY <1>2, <1>13 DEF vars, store, writing, queue
<1>14. QED
  BY <1>3, <1>4, <1>5, <1>6, <1>7, <1>8, <1>9, <1>10, <1>11, <1>12, <1>13
     DEF Next, Initialise, Write, Flush

\* No accepted event slips out of the controller's hands, and the deadline that
\* empties its queue is armed when it has to be, and only once.
THEOREM QueueStaysSound ==
    ASSUME "busy-rewind" \notin Admitted
    PROVE  Spec => []QueueIsSound
<1>1. Inv => QueueIsSound
  BY InvOwns DEF Inv, ControlInv, QueueIsSound
<1>2. QED
  BY <1>1, InvHolds, PTL

\* A flush that succeeded is a barrier, no write whose turn has come is refused,
\* and the end of a session or of the backend is an end.
THEOREM PromisesAreKept ==
    ASSUME "busy-rewind" \notin Admitted, "rewind-to-start" \notin Admitted
    PROVE  Spec => []PromisesHold
<1>1. Inv /\ FileIsKnown => AppendResumes
  BY QueuedIsAccepted DEF AppendResumes, FileIsKnown
<1>2. Inv /\ FileIsKnown => PromisesHold
  BY <1>1, InvEnds DEF Inv, ControlInv, PromisesHold
<1>3. Inv /\ FileIsKnown /\ [Next]_vars => FileIsKnown'
  BY FileStep
<1>4. QED
  BY <1>2, <1>3, InvHolds, FileInit, PTL DEF Spec

-----------------------------------------------------------------------------
(* A rewind in the middle of a write.                                      *)

\* Nothing above holds of a rewind that does not wait: it cuts events that are
\* still queued.  What the controller knows of its own work survives it.

\* A rewind of a live session cuts its log.
RewindIsShort == rewindTo # NoRewind /\ life = "live" => rewindTo < Len(log)

\* Before storage is initialised nothing is written, drained or rewound.
InitIsQuiet ==
    init # "ready" => rewindTo = NoRewind /\ active \in {"none", "queued"} /\ barrier = "none"

\* The coordinator's own flushes belong to the end of the session and of the
\* backend, and were answered when these are over.
EndsAreKnown ==
    /\ flusher["retirement"] = "idle" <=> life = "live"
    /\ flusher["teardown"] = "idle" <=> service = "open"
    /\ life = "released" => flusher["retirement"] = "done"
    /\ service = "closed" => flusher["teardown"] \in {"done", "failed"}

LengthsFit == BornOnce /\ RewindIsShort

WorkIsSound ==
    /\ WriteIsNonempty /\ InitIsQuiet /\ TimerIsSound /\ PausedIsUnarmed
    /\ BarrierIsBusy /\ EndsAreKnown /\ EndsAreQuiet

WorkInv == TypeOK /\ LengthsFit /\ WorkIsSound

\* The log and the cut do not change.
LEMMA LengthsStay ==
    ASSUME WorkInv, UNCHANGED <<log, born, rewindTo>>, life' = "live" => life = "live"
    PROVE  LengthsFit'
BY DEF WorkInv, LengthsFit, BornOnce, RewindIsShort, NoRewind

\* A step of the session, of storage or of the active write that leaves the
\* controller's queue, timer and barrier alone.
LEMMA WorkStays ==
    ASSUME WorkInv,
           UNCHANGED <<pending, batch, background, timers, expired, paused, barrier,
                       flusher, life, service>>,
           active' = "none" <=> active = "none",
           init = "failed" => init' = "failed",
           init' # "ready" => rewindTo' = NoRewind /\ active' \in {"none", "queued"} /\ barrier = "none"
    PROVE  WorkIsSound'
<1>. USE DEF WorkInv, WorkIsSound
<1>1. WriteIsNonempty' /\ InitIsQuiet'
  BY DEF WriteIsNonempty, InitIsQuiet, NoRewind
<1>2. TimerIsSound' /\ PausedIsUnarmed'
  BY DEF TimerIsSound, WorkIsScheduled, OneDeadline, PausedIsUnarmed, Waiting
<1>3. BarrierIsBusy'
  BY DEF BarrierIsBusy, Joined
<1>4. EndsAreKnown'
  BY DEF EndsAreKnown
<1>5. EndsAreQuiet'
  BY DEF EndsAreQuiet, Waiting
<1> QED  BY <1>1, <1>2, <1>3, <1>4, <1>5

\* Every nonempty set of natural numbers has a least element: the form of
\* induction that the proofs about the log use.
LEMMA Least ==
  ASSUME NEW T \in SUBSET Nat, T # {}
  PROVE  \E n \in T : \A m \in T : n <= m
<1> DEFINE R == OpToRel(<, Nat)
<1>1. IsWellFoundedOn(R, Nat)  BY NatLessThanWellFounded
<1>2. \A x, y \in Nat : y < x => <<y, x>> \in R
  BY DEF OpToRel
<1> HIDE DEF R
<1>3. PICK n \in T : \A m \in T : ~(<<m, n>> \in R)
  BY <1>1, WFMin
<1>4. ASSUME NEW m \in T PROVE n <= m
  <2>1. n \in Nat /\ m \in Nat  OBVIOUS
  <2>2. ~(m < n)  BY <2>1, <1>2, <1>3, Zenon
  <2> QED  BY <2>1, <2>2
<1> QED  BY <1>4

\* A set of numbers up to a bound that holds 0 and the successor of each of its

\* The k-th smallest of a set of places.
LEMMA PlaceOfRank ==
    ASSUME NEW n \in Nat, NEW K \in SUBSET (1 .. n), NEW k \in 1 .. Cardinality(K)
    PROVE  \E i \in K : Cardinality({j \in K : j <= i}) = k
<1> DEFINE Below(i) == {j \in K : j <= i}
<1>0. \A j \in K : j \in Nat /\ 1 <= j /\ j <= n
  OBVIOUS
<1>1. IsFiniteSet(K) /\ Cardinality(K) \in Nat
  <2>1. IsFiniteSet(1 .. n)
    BY FS_Interval
  <2>2. QED
    BY <2>1, FS_Subset, FS_CardinalityType
<1>2. \A i : IsFiniteSet(Below(i)) /\ Cardinality(Below(i)) \in Nat
  <2> TAKE i
  <2>1. Below(i) \subseteq K
    OBVIOUS
  <2> HIDE DEF Below
  <2>2. QED
    BY <1>1, <2>1, FS_Subset, FS_CardinalityType
<1>3. \A i, j : j \in Below(i) <=> j \in K /\ j <= i
  OBVIOUS
<1> DEFINE size(i) == Cardinality(Below(i))
<1>4. Below(n) = K
  <2> HIDE DEF Below
  <2>1. \A j : j \in Below(n) <=> j \in K
    BY <1>0, <1>3
  <2>2. QED
    BY <2>1
<1>5. Below(0) = {}
  <2> HIDE DEF Below
  <2>1. \A j : j \in Below(0) <=> j \in K /\ j <= 0
    BY <1>3
  <2>2. \A j \in K : ~(j <= 0)
    BY <1>0
  <2>3. QED
    BY <2>1, <2>2
<1>6. size(n) >= k /\ size(0) = 0 /\ k \in Nat /\ k >= 1
  <2>1. Cardinality(Below(0)) = 0
    BY <1>5, FS_EmptySet
  <2> HIDE DEF Below
  <2>2. QED
    BY <1>1, <1>4, <2>1
<1>7. \A i : size(i) \in Nat
  BY <1>2
<1> DEFINE Reach == {i \in Nat : size(i) >= k}
<1> HIDE DEF Below, size
<1>8. PICK m \in Reach : \A i \in Reach : m <= i
  <2>1. Reach \in SUBSET Nat /\ Reach # {}
    BY <1>6
  <2> HIDE DEF Reach
  <2>2. QED
    BY <2>1, Least
<1>9. m \in Nat /\ m # 0 /\ size(m) >= k
  BY <1>6, <1>7, <1>8
<1>10. m - 1 \in Nat /\ size(m - 1) < k
  <2>1. m - 1 \in Nat /\ ~(m <= m - 1)
    BY <1>9
  <2>2. m - 1 \notin Reach
    BY <1>8, <2>1
  <2>3. QED
    BY <1>6, <1>7, <2>1, <2>2
<1>11. \A j : j \in Below(m) <=> j \in Below(m - 1) \/ (j = m /\ m \in K)
  <2>1. \A j \in K : j <= m <=> j <= m - 1 \/ j = m
    BY <1>0, <1>9
  <2>2. QED
    BY <1>3, <1>9, <2>1
<1>12. m \in K
  <2> SUFFICES ASSUME m \notin K PROVE FALSE
    OBVIOUS
  <2>1. Below(m) = Below(m - 1)
    BY <1>11
  <2>2. size(m) = size(m - 1)
    BY <2>1 DEF size
  <2>3. QED
    BY <1>6, <1>7, <1>9, <1>10, <2>2
<1>13. size(m) = size(m - 1) + 1
  <2>1. Below(m) = Below(m - 1) \cup {m}
    BY <1>11, <1>12
  <2>2. m \notin Below(m - 1)
    BY <1>3, <1>9
  <2>3. IsFiniteSet(Below(m - 1))
    BY <1>2 DEF size
  <2>4. Cardinality(Below(m - 1) \cup {m}) = Cardinality(Below(m - 1)) + 1
    BY <2>2, <2>3, FS_AddElement
  <2>5. QED
    BY <2>1, <2>4 DEF size
<1>14. size(m) = k
  BY <1>6, <1>7, <1>9, <1>10, <1>13
<1>15. Cardinality({j \in K : j <= m}) = k
  BY <1>14 DEF size, Below
<1>16. QED
  BY <1>12, <1>15

\* Filtering takes entries of the batch, whatever they are.
LEMMA FilteredIsTyped ==
    ASSUME TypeOK
    PROVE  Filtered \in Seq(Entry)
<1>1. batch \in Seq(Entry) /\ Len(batch) \in Nat /\ DOMAIN batch = 1 .. Len(batch)
  BY DEF TypeOK
<1>2. Kept \in SUBSET (1 .. Len(batch))
  BY <1>1 DEF Kept
<1>3. Cardinality(Kept) \in Nat
  <2>1. IsFiniteSet(1 .. Len(batch))  BY <1>1, FS_Interval
  <2> QED  BY <1>2, <2>1, FS_Subset, FS_CardinalityType
<1> DEFINE place(k) == CHOOSE i \in Kept : Cardinality({j \in Kept : j <= i}) = k
<1>4. ASSUME NEW k \in 1 .. Cardinality(Kept)
      PROVE  batch[place(k)] \in Entry
  <2>1. \E i \in Kept : Cardinality({j \in Kept : j <= i}) = k
    BY <1>1, <1>2, PlaceOfRank
  <2>2. place(k) \in Kept
    BY <2>1, Zenon
  <2> HIDE DEF place
  <2>3. place(k) \in 1 .. Len(batch)
    BY <1>2, <2>2
  <2>4. QED
    BY <1>1, <2>3
<1>5. Filtered = [k \in 1 .. Cardinality(Kept) |-> batch[place(k)]]
  BY Zenon DEF Filtered
<1> HIDE DEF place
<1>6. Filtered \in [1 .. Cardinality(Kept) -> Entry]
  BY <1>4, <1>5
<1> QED  BY <1>3, <1>6

\* The session appends an event.
LEMMA AppendEventWorks ==
    ASSUME WorkInv, AppendEvent
    PROVE  WorkInv'
<1>. USE DEF WorkInv, WorkIsSound, LengthsFit
<1>1. /\ UNCHANGED <<life, store, batch, fresh, writing, barrier, flushes, bounds>>
      /\ life = "live" /\ service = "open" /\ born < MaxEvents
      /\ log' = Append(log, born + 1) /\ born' = born + 1
      /\ pending' = Append(pending, [seq |-> Len(log), id |-> born + 1])
      /\ timers' = (IF Arms THEN timers + 1 ELSE timers)
      /\ paused' = (paused /\ barrier # "none")
      /\ expired' = (expired /\ ~(paused /\ barrier = "none"))
  BY DEF AppendEvent, Enqueue
<1>2. Len(log) \in 0 .. MaxEvents /\ born \in Nat /\ MaxEvents \in Nat /\ Len(log) <= born
  BY LogIsBounded, ConstantsAreValid DEF TypeOK, BornOnce
<1>3. born + 1 \in 1 .. MaxEvents /\ [seq |-> Len(log), id |-> born + 1] \in Entry
  <2>1. born + 1 \in 1 .. MaxEvents
    BY <1>1, <1>2
  <2>2. QED
    BY <1>2, <2>1 DEF Entry
<1>4. log' \in Seq(1 .. MaxEvents) /\ Len(log') = Len(log) + 1
  <2>1. log \in Seq(1 .. MaxEvents)
    BY DEF TypeOK
  <2>2. QED
    BY <1>1, <1>3, <2>1, AppendProperties
<1>5. pending' \in Seq(Entry) /\ pending' # <<>>
  <2>1. pending \in Seq(Entry) /\ Len(pending) \in Nat
    BY DEF TypeOK
  <2>2. pending' \in Seq(Entry) /\ Len(pending') = Len(pending) + 1
    BY <1>1, <1>3, <2>1, AppendProperties
  <2>3. QED
    BY <2>1, <2>2
<1>6. TypeOK'
  <2>1. /\ StoreTyped' /\ WritingTyped' /\ BarrierTyped' /\ FlushesTyped' /\ BoundsTyped'
    BY <1>1, TypesStay
  <2>2. SessionTyped'
    <3>1. born' \in 0 .. MaxEvents
      BY <1>1, <1>2
    <3>2. QED
      BY <1>1, <1>4, <3>1 DEF SessionTyped
  <2>3. QueueTyped'
    BY <1>1, <1>5 DEF TypeOK, QueueTyped
  <2>4. ClockTyped'
    BY <1>1 DEF TypeOK, ClockTyped
  <2>5. QED
    BY <2>1, <2>2, <2>3, <2>4, TypesJoin
<1>7. LengthsFit'
  <2>1. BornOnce'
    BY <1>1, <1>2, <1>4 DEF BornOnce
  <2>2. rewindTo' = rewindTo /\ (rewindTo # NoRewind => rewindTo < Len(log)) /\ NoRewind' = NoRewind
    BY <1>1 DEF RewindIsShort, store, NoRewind
  <2>3. rewindTo \in Nat
    BY <1>2 DEF TypeOK, NoRewind
  <2>4. QED
    BY <1>2, <1>4, <2>1, <2>2, <2>3 DEF RewindIsShort
<1>8. WorkIsSound'
  <2>1. WriteIsNonempty' /\ InitIsQuiet'
    BY <1>1 DEF WriteIsNonempty, InitIsQuiet, NoRewind, store, writing
  <2>2. OneDeadline' /\ PausedIsUnarmed'
    <3>1. CASE Arms
      <4>1. timers = 0 /\ barrier = "none"
        BY <3>1 DEF Arms, TimerIsSound, OneDeadline, PausedIsUnarmed, TypeOK
      <4>2. ~paused'
        BY <1>1, <4>1, Zenon
      <4>3. timers' = 1 /\ barrier' = "none"
        BY <1>1, <3>1, <4>1
      <4>4. QED
        BY <1>5, <4>2, <4>3 DEF OneDeadline, PausedIsUnarmed
    <3>2. CASE ~Arms
      BY <1>1, <1>5, <3>2 DEF Arms, TimerIsSound, OneDeadline, PausedIsUnarmed
    <3>3. QED
      BY <3>1, <3>2
  <2>3. WorkIsScheduled'
    <3>1. CASE Arms
      BY <1>1, <3>1 DEF WorkIsScheduled, TypeOK
    <3>2. CASE ~Arms
      BY <1>1, <3>2 DEF Arms, TimerIsSound, WorkIsScheduled, Waiting, store, writing, flushes
    <3>3. QED
      BY <3>1, <3>2
  <2>4. BarrierIsBusy'
    BY <1>1, <1>5 DEF BarrierIsBusy, Joined, writing, flushes
  <2>5. EndsAreKnown' /\ EndsAreQuiet'
    BY <1>1 DEF EndsAreKnown, EndsAreQuiet, Internal, store, flushes
  <2>6. QED
    BY <2>1, <2>2, <2>3, <2>4, <2>5 DEF TimerIsSound
<1>9. QED
  BY <1>6, <1>7, <1>8

\* A deadline expires.
LEMMA DeadlineWorks ==
    ASSUME WorkInv, Deadline
    PROVE  WorkInv'
<1>. USE DEF WorkInv, WorkIsSound
<1>1. /\ UNCHANGED <<session, store, fresh, paused, barrier, flushes, bounds>>
      /\ timers > 0
  BY DEF Deadline
<1>2. timers = 1 /\ pending # <<>> /\ barrier = "none" /\ ~paused
  BY <1>1 DEF TimerIsSound, OneDeadline, PausedIsUnarmed
<1>3. LengthsFit'
  BY <1>1, LengthsStay DEF session, store
<1>4. /\ SessionTyped' /\ StoreTyped' /\ BarrierTyped' /\ FlushesTyped' /\ BoundsTyped'
  BY <1>1, TypesStay
<1>5. CASE active # "none"
  <2>1. timers' = 0 /\ expired' = TRUE /\ UNCHANGED <<pending, batch, writing>>
    BY <1>2, <1>5 DEF Deadline
  <2>2. background
    BY <1>2, <1>5 DEF BarrierIsBusy
  <2>3. TypeOK'
    <3>1. QueueTyped' /\ WritingTyped'
      BY <1>1, <2>1, TypesStay DEF queue
    <3>2. ClockTyped'
      BY <1>1, <2>1 DEF TypeOK, ClockTyped
    <3>3. QED
      BY <1>4, <3>1, <3>2, TypesJoin
  <2>4. WriteIsNonempty' /\ InitIsQuiet'
    BY <1>1, <2>1 DEF WriteIsNonempty, InitIsQuiet, NoRewind, store, writing
  <2>5. TimerIsSound' /\ PausedIsUnarmed' /\ BarrierIsBusy'
    BY <1>1, <1>2, <1>5, <2>1, <2>2
       DEF TimerIsSound, WorkIsScheduled, OneDeadline, PausedIsUnarmed, BarrierIsBusy, Joined,
           writing, flushes
  <2>6. EndsAreKnown' /\ EndsAreQuiet'
    BY <1>1, <2>1 DEF EndsAreKnown, EndsAreQuiet, Waiting, session, store, writing, flushes
  <2>7. QED
    BY <1>3, <2>3, <2>4, <2>5, <2>6
<1>6. CASE active = "none"
  <2>1. /\ batch' = pending /\ pending' = <<>> /\ active' = "queued" /\ background' = TRUE
        /\ timers' = 0 /\ expired' = FALSE
    BY <1>6, CancelDisarms DEF Deadline, StartWrite, TimerIsSound
  <2>2. TypeOK'
    <3>0. pending \in Seq(Entry) /\ fresh \in Seq(Entry)
      BY DEF TypeOK
    <3>1. QueueTyped' /\ WritingTyped' /\ ClockTyped'
      <4>1. QueueTyped'
        BY <1>1, <2>1, <3>0 DEF QueueTyped
      <4>2. WritingTyped' /\ ClockTyped'
        BY <1>1, <2>1 DEF TypeOK, WritingTyped, ClockTyped
      <4>3. QED
        BY <4>1, <4>2
    <3>2. QED
      BY <1>4, <3>1, TypesJoin
  <2>3. WriteIsNonempty' /\ InitIsQuiet'
    BY <1>1, <1>2, <2>1 DEF WriteIsNonempty, InitIsQuiet, NoRewind, store
  <2>4. TimerIsSound' /\ PausedIsUnarmed' /\ BarrierIsBusy'
    BY <1>1, <1>2, <2>1
       DEF TimerIsSound, WorkIsScheduled, OneDeadline, PausedIsUnarmed, BarrierIsBusy, Joined, flushes
  <2>5. EndsAreKnown' /\ EndsAreQuiet'
    BY <1>1, <1>2, <2>1 DEF EndsAreKnown, EndsAreQuiet, Waiting, session, store, flushes
  <2>6. QED
    BY <1>3, <2>2, <2>3, <2>4, <2>5
<1>7. QED
  BY <1>5, <1>6

\* Storage is initialised, in one step or two, or never.
LEMMA InitialiseWorks ==
    ASSUME WorkInv, Initialise
    PROVE  WorkInv'
<1>. USE DEF WorkInv, LengthsFit
<1>1. /\ UNCHANGED <<session, seed, service, rewindTo, queue, writing, clock, barrier,
                     flushes, rewinds>>
      /\ init \in {"adopting", "seeding"} /\ init' \in {"ready", "seeding", "failed"}
  BY DEF Initialise, Adopt, WriteSeed, InitFails, bounds
<1>2. /\ stored' \in Seq(1 .. MaxEvents) /\ artifact' \in BOOLEAN
      /\ state' \in [cursor : Nat, materialized : BOOLEAN]
      /\ failures' \in 0 .. MaxFailures
  <2>1. /\ stored \in Seq(1 .. MaxEvents) /\ artifact \in BOOLEAN /\ Len(stored) \in Nat
        /\ seed \in Seq(1 .. MaxEvents) /\ Len(seed) \in Nat
        /\ state \in [cursor : Nat, materialized : BOOLEAN]
        /\ failures \in 0 .. MaxFailures /\ MaxFailures \in Nat
    BY ConstantsAreValid DEF TypeOK
  <2>2. CASE Adopt
    BY <2>1, <2>2 DEF Adopt, bounds
  <2>3. CASE WriteSeed
    <3>1. /\ stored' = stored \o SeedSuffix /\ artifact' = TRUE /\ failures' = failures
          /\ state' = [cursor |-> Len(seed), materialized |-> TRUE]
      BY <2>3 DEF WriteSeed, bounds
    <3>2. SeedSuffix \in Seq(1 .. MaxEvents)
      <4>1. state.cursor + 1 \in Int /\ state.cursor >= 0
        BY <2>1
      <4>2. \A i \in state.cursor + 1 .. Len(seed) : seed[i] \in 1 .. MaxEvents
        <5>1. PICK c \in Nat, m \in Nat : c = state.cursor /\ m = Len(seed)
          BY <2>1
        <5>2. \A i \in c + 1 .. m : i \in 1 .. m
          BY <5>1
        <5>3. \A i \in 1 .. m : seed[i] \in 1 .. MaxEvents
          <6>1. seed \in Seq(1 .. MaxEvents)
            BY <2>1
          <6>2. \A i \in 1 .. Len(seed) : seed[i] \in 1 .. MaxEvents
            BY <6>1, ElementOfSeq
          <6>3. QED
            BY <5>1, <6>2
        <5>4. QED
          BY <5>1, <5>2, <5>3
      <4>3. QED
        BY <2>1, <4>1, <4>2, SubSeqProperties DEF SeedSuffix
    <3>3. stored \o SeedSuffix \in Seq(1 .. MaxEvents)
      BY <2>1, <3>2, ConcatProperties
    <3>4. QED
      BY <2>1, <3>1, <3>3
  <2>4. CASE InitFails
    BY <2>1, <2>4 DEF InitFails
  <2>5. QED
    BY <2>2, <2>3, <2>4 DEF Initialise
<1>3. TypeOK'
  <2>1. /\ SessionTyped' /\ QueueTyped' /\ WritingTyped' /\ ClockTyped' /\ BarrierTyped'
        /\ FlushesTyped'
    BY <1>1, TypesStay
  <2>2. StoreTyped' /\ BoundsTyped'
    BY <1>1, <1>2 DEF TypeOK, StoreTyped, BoundsTyped, NoRewind
  <2>3. QED
    BY <2>1, <2>2, TypesJoin
<1>4. LengthsFit'
  BY <1>1, LengthsStay DEF session
<1>5. WorkIsSound'
  <2>1. rewindTo' = NoRewind /\ active' \in {"none", "queued"} /\ barrier = "none"
    BY <1>1 DEF WorkIsSound, InitIsQuiet, writing
  <2>2. QED
    BY <1>1, <2>1, WorkStays DEF session, queue, writing, clock, flushes
<1>6. QED
  BY <1>3, <1>4, <1>5

\* A write begins, or its events are stored.
LEMMA SinkWorks ==
    ASSUME WorkInv, BeginWrite \/ Store
    PROVE  WorkInv'
<1>. USE DEF WorkInv
<1>1. /\ UNCHANGED <<session, state, seed, init, service, rewindTo, pending, batch, background,
                     clock, barrier, flushes, bounds>>
      /\ active # "none" /\ active' \in {"writing", "stored"}
  BY DEF BeginWrite, Store, store, queue
<1>2. init = "ready"
  BY DEF BeginWrite, Store, WorkIsSound, InitIsQuiet
<1>3. fresh' \in Seq(Entry) /\ stored' \in Seq(1 .. MaxEvents) /\ artifact' \in BOOLEAN
  <2>1. CASE BeginWrite
    BY <2>1, FilteredIsTyped DEF BeginWrite, TypeOK, store
  <2>2. CASE Store
    <3>1. fresh \in Seq(Entry) /\ stored \in Seq(1 .. MaxEvents) /\ artifact \in BOOLEAN
      BY DEF TypeOK
    <3>2. \A k \in DOMAIN fresh : fresh[k].id \in 1 .. MaxEvents
      <4>1. \A k \in DOMAIN fresh : fresh[k] \in Entry
        BY <3>1
      <4>2. \A e \in Entry : e.id \in 1 .. MaxEvents
        BY DEF Entry
      <4>3. QED
        BY <4>1, <4>2
    <3>3. [k \in DOMAIN fresh |-> fresh[k].id] \in Seq(1 .. MaxEvents)
      <4>1. Len(fresh) \in Nat /\ DOMAIN fresh = 1 .. Len(fresh)
        BY <3>1
      <4>2. [k \in DOMAIN fresh |-> fresh[k].id] \in [1 .. Len(fresh) -> 1 .. MaxEvents]
        BY <3>2, <4>1
      <4>3. QED
        BY <4>1, <4>2
    <3>4. stored \o [k \in DOMAIN fresh |-> fresh[k].id] \in Seq(1 .. MaxEvents)
      BY <3>1, <3>3, ConcatProperties
    <3>5. QED
      BY <2>2, <3>1, <3>4 DEF Store, queue
  <2>3. QED
    BY <2>1, <2>2
<1>4. TypeOK'
  <2>1. /\ SessionTyped' /\ ClockTyped' /\ BarrierTyped' /\ FlushesTyped' /\ BoundsTyped'
    BY <1>1, TypesStay
  <2>2. StoreTyped'
    BY <1>1, <1>3 DEF TypeOK, StoreTyped, NoRewind
  <2>3. QueueTyped' /\ WritingTyped'
    BY <1>1, <1>3 DEF TypeOK, QueueTyped, WritingTyped
  <2>4. QED
    BY <2>1, <2>2, <2>3, TypesJoin
<1>5. LengthsFit'
  BY <1>1, LengthsStay DEF session
<1>6. WorkIsSound'
  BY <1>1, <1>2, WorkStays DEF session, clock, flushes
<1>7. QED
  BY <1>4, <1>5, <1>6

\* A write ends: the queue is written next, or the barrier ends with it.
LEMMA AcknowledgeWorks ==
    ASSUME WorkInv, Acknowledge
    PROVE  WorkInv'
<1>. USE DEF WorkInv, WorkIsSound
<1>1. /\ UNCHANGED <<session, stored, artifact, seed, init, service, rewindTo, goal, bounds>>
      /\ active = "stored" /\ state' = Advanced /\ fresh' = <<>>
      /\ paused' = (paused /\ barrier # "overlap")
  BY DEF Acknowledge
<1>2. init = "ready"
  BY <1>1 DEF InitIsQuiet
<1>3. /\ \A f \in Internal : flusher[f] # "done"
      /\ flusher["teardown"] # "failed" /\ life # "released"
  BY <1>1, <1>2 DEF EndsAreQuiet, EndsAreKnown, Internal
<1>4. /\ SessionTyped' /\ StoreTyped' /\ BoundsTyped'
  <2>1. state' \in [cursor : Nat, materialized : BOOLEAN]
    <3>1. state \in [cursor : Nat, materialized : BOOLEAN] /\ Len(fresh) \in Nat
      BY DEF TypeOK
    <3>2. state.cursor + Len(fresh) \in Nat
      BY <3>1
    <3>3. QED
      BY <1>1, <3>1, <3>2 DEF Advanced
  <2>2. StoreTyped'
    BY <1>1, <2>1 DEF TypeOK, StoreTyped, NoRewind
  <2>3. QED
    BY <1>1, <2>2, TypesStay
<1>5. LengthsFit'
  BY <1>1, LengthsStay DEF session
<1>6. fresh' \in Seq(Entry) /\ paused' \in BOOLEAN
  BY <1>1 DEF TypeOK
<1>7. CASE Continues \/ Drains
  <2>1. /\ batch' = pending /\ pending' = <<>> /\ active' = "queued"
        /\ background' = Continues /\ timers' = 0 /\ expired' = FALSE
        /\ barrier' = (IF Drains THEN "draining" ELSE barrier)
        /\ flusher' = flusher
    BY <1>7, CancelDisarms DEF Acknowledge, StartWrite, TimerIsSound
  <2>2. pending # <<>>
    BY <1>7 DEF Continues, Drains
  <2>3. TypeOK'
    <3>0. pending \in Seq(Entry)
      BY DEF TypeOK
    <3>1. QueueTyped' /\ ClockTyped'
      <4>1. QueueTyped'
        BY <1>6, <2>1, <3>0 DEF QueueTyped
      <4>2. ClockTyped'
        BY <1>6, <2>1 DEF TypeOK, ClockTyped
      <4>3. QED
        BY <4>1, <4>2
    <3>2. WritingTyped' /\ BarrierTyped'
      BY <2>1 DEF TypeOK, WritingTyped, BarrierTyped, Continues
    <3>3. FlushesTyped'
      BY <1>1, <2>1, TypesStay DEF flushes
    <3>4. QED
      BY <1>4, <3>1, <3>2, <3>3, TypesJoin
  <2>4. WriteIsNonempty' /\ InitIsQuiet'
    BY <1>1, <1>2, <2>1, <2>2 DEF WriteIsNonempty, InitIsQuiet
  <2>5. TimerIsSound' /\ PausedIsUnarmed'
    BY <1>1, <2>1 DEF TimerIsSound, WorkIsScheduled, OneDeadline, PausedIsUnarmed
  <2>6. BarrierIsBusy'
    BY <1>1, <1>7, <2>1, <2>2 DEF BarrierIsBusy, Joined, Drains
  <2>7. EndsAreKnown'
    BY <1>1, <2>1 DEF EndsAreKnown, session
  <2>8. EndsAreQuiet'
    BY <1>3, <2>1 DEF EndsAreQuiet, Waiting
  <2>9. QED
    BY <1>5, <2>3, <2>4, <2>5, <2>6, <2>7, <2>8
<1>8. CASE ~(Continues \/ Drains)
  <2>1. /\ batch' = <<>> /\ pending' = pending /\ active' = "none" /\ background' = FALSE
        /\ timers' = timers /\ expired' = expired /\ barrier' = "none"
        /\ flusher' = Becomes(Joined, "done")
    BY <1>8 DEF Acknowledge, NoActiveWrite, EndBarrier
  <2>2. /\ \A f \in Flushers : flusher'[f] = IF flusher[f] = "joined" THEN "done" ELSE flusher[f]
        /\ flusher' \in [Flushers -> FlushStates]
    BY <2>1, JoinedMoves DEF FlushStates
  <2>3. (\E f \in Flushers : flusher[f] = "joined") => pending = <<>>
    BY <1>8 DEF BarrierIsBusy, Joined, Drains
  <2>4. TypeOK'
    <3>0. pending \in Seq(Entry)
      BY DEF TypeOK
    <3>1. QueueTyped' /\ ClockTyped'
      <4>1. QueueTyped'
        BY <1>6, <2>1, <3>0 DEF QueueTyped
      <4>2. ClockTyped'
        BY <1>6, <2>1 DEF TypeOK, ClockTyped
      <4>3. QED
        BY <4>1, <4>2
    <3>2. WritingTyped' /\ BarrierTyped'
      BY <2>1 DEF TypeOK, WritingTyped, BarrierTyped
    <3>3. FlushesTyped'
      BY <1>1, <2>2 DEF TypeOK, FlushesTyped, FlushStates
    <3>4. QED
      BY <1>4, <3>1, <3>2, <3>3, TypesJoin
  <2>5. WriteIsNonempty' /\ InitIsQuiet'
    BY <1>1, <1>2, <2>1 DEF WriteIsNonempty, InitIsQuiet
  <2>6. OneDeadline'
    BY <2>1 DEF TimerIsSound, OneDeadline
  <2>7. WorkIsScheduled'
    <3>1. SUFFICES ASSUME pending # <<>>, ~paused', init # "failed"
                   PROVE  timers > 0 \/ \E f \in Flushers : flusher'[f] = "waiting"
      BY <1>1, <2>1 DEF WorkIsScheduled, Waiting
    <3>2. barrier = "none" /\ ~paused /\ ~Continues
      BY <1>1, <1>8, <3>1 DEF Drains
    <3>3. background /\ ~expired
      BY <1>1, <3>1, <3>2 DEF BarrierIsBusy, Continues
    <3>4. timers > 0 \/ Waiting # {}
      BY <3>1, <3>2, <3>3 DEF TimerIsSound, WorkIsScheduled
    <3>5. QED
      BY <2>2, <3>4 DEF Waiting
  <2>8. PausedIsUnarmed'
    BY <1>1, <2>1 DEF PausedIsUnarmed
  <2>9. BarrierIsBusy'
    BY <2>1, <2>2 DEF BarrierIsBusy, Joined
  <2>10. EndsAreKnown'
    BY <1>1, <1>3, <2>2, InternalFlushers DEF EndsAreKnown, session
  <2>11. EndsAreQuiet'
    BY <1>3, <2>1, <2>2, <2>3, InternalFlushers DEF EndsAreQuiet, Waiting, Internal
  <2>12. QED
    BY <1>5, <2>4, <2>5, <2>6, <2>7, <2>8, <2>9, <2>10, <2>11 DEF TimerIsSound
<1>9. QED
  BY <1>7, <1>8

\* A write fails, and what it took is queued again or written again.
LEMMA FailureWorks ==
    ASSUME WorkInv, BackendFails \/ Refused
    PROVE  WorkInv'
<1>. USE DEF WorkInv, WorkIsSound
<1>1. /\ WriteFails /\ UNCHANGED <<session, store, flushes, rewinds>> /\ fresh' = <<>>
      /\ failures' \in 0 .. MaxFailures
      /\ active \in {"queued", "writing"}
      /\ active = "queued" => init \in {"failed", "ready"}
  <2>1. failures \in 0 .. MaxFailures /\ MaxFailures \in Nat
    BY ConstantsAreValid DEF TypeOK
  <2>2. CASE BackendFails
    <3>1. /\ active = "writing" /\ failures < MaxFailures /\ failures' = failures + 1
          /\ WriteFails
      BY <2>2 DEF BackendFails
    <3>2. failures' \in 0 .. MaxFailures
      BY <2>1, <3>1
    <3>3. UNCHANGED <<session, store, flushes, rewinds>> /\ fresh' = <<>>
      BY <3>1 DEF WriteFails
    <3>4. QED
      BY <3>1, <3>2, <3>3
  <2>3. CASE Refused
    BY <2>1, <2>3 DEF Refused, WriteFails
  <2>4. QED
    BY <2>2, <2>3
<1>2. /\ init = "failed" => barrier = "none"
      /\ active = "writing" => init = "ready"
      /\ batch # <<>>
  BY <1>1 DEF InitIsQuiet, WriteIsNonempty
<1>3. Retained \in Seq(Entry) /\ Retained # <<>>
  <2>1. batch \in Seq(Entry) /\ pending \in Seq(Entry)
    BY DEF TypeOK
  <2>2. Retained \in Seq(Entry) /\ Len(Retained) = Len(batch) + Len(pending)
    BY <2>1, ConcatProperties DEF Retained
  <2>3. Len(batch) \in Nat /\ Len(batch) # 0 /\ Len(pending) \in Nat
    BY <1>2, <2>1
  <2>4. QED
    BY <2>2, <2>3
<1>4. /\ \A f \in Internal : flusher[f] # "done"
      /\ flusher["teardown"] = "failed" => barrier = "none" /\ init = "failed"
  BY <1>1 DEF EndsAreQuiet
<1>5. SessionTyped' /\ StoreTyped' /\ FlushesTyped' /\ BoundsTyped'
  <2>1. BoundsTyped'
    BY <1>1 DEF TypeOK, BoundsTyped
  <2>2. QED
    BY <1>1, <2>1, TypesStay
<1>6. LengthsFit'
  BY <1>1, LengthsStay DEF session, store
<1>7. EndsAreKnown'
  BY <1>1 DEF EndsAreKnown, session, store, flushes
<1>8. CASE barrier = "overlap"
  <2>1. /\ batch' = Retained /\ pending' = <<>> /\ active' = "queued" /\ background' = FALSE
        /\ timers' = 0 /\ expired' = FALSE /\ barrier' = "draining" /\ paused' = FALSE
    BY <1>1, <1>8, CancelDisarms DEF WriteFails, StartWrite, TimerIsSound
  <2>2. init = "ready"
    BY <1>1, <1>2, <1>8
  <2>3. TypeOK'
    <3>1. QueueTyped'
      BY <1>1, <1>3, <2>1 DEF QueueTyped
    <3>2. WritingTyped' /\ ClockTyped' /\ BarrierTyped'
      BY <2>1 DEF WritingTyped, ClockTyped, BarrierTyped
    <3>3. QED
      BY <1>5, <3>1, <3>2, TypesJoin
  <2>4. WriteIsNonempty' /\ InitIsQuiet'
    BY <1>1, <1>3, <2>1, <2>2 DEF WriteIsNonempty, InitIsQuiet, store
  <2>5. TimerIsSound' /\ PausedIsUnarmed' /\ BarrierIsBusy'
    BY <2>1 DEF TimerIsSound, WorkIsScheduled, OneDeadline, PausedIsUnarmed, BarrierIsBusy
  <2>6. EndsAreQuiet'
    BY <1>1, <1>4, <1>8 DEF EndsAreQuiet, Waiting, flushes
  <2>7. QED
    BY <1>6, <1>7, <2>3, <2>4, <2>5, <2>6
<1>9. CASE barrier # "overlap"
  <2>1. /\ batch' = <<>> /\ pending' = Retained /\ active' = "none" /\ background' = FALSE
        /\ timers' = 0 /\ expired' = FALSE /\ paused' = TRUE
        /\ barrier' = (IF barrier = "draining" THEN "failing" ELSE barrier)
    BY <1>1, <1>9, CancelDisarms DEF WriteFails, NoActiveWrite, TimerIsSound
  <2>2. barrier \in {"none", "draining"} /\ (barrier = "none" => barrier' = "none")
    BY <1>1, <1>9, <2>1 DEF BarrierIsBusy, TypeOK
  <2>3. TypeOK'
    <3>1. QueueTyped'
      BY <1>1, <1>3, <2>1 DEF QueueTyped
    <3>2. WritingTyped' /\ ClockTyped' /\ BarrierTyped'
      BY <2>1, <2>2 DEF WritingTyped, ClockTyped, BarrierTyped
    <3>3. QED
      BY <1>5, <3>1, <3>2, TypesJoin
  <2>4. WriteIsNonempty' /\ InitIsQuiet'
    BY <1>1, <2>1, <2>2 DEF WriteIsNonempty, InitIsQuiet, NoRewind, store
  <2>5. TimerIsSound' /\ PausedIsUnarmed'
    BY <2>1 DEF TimerIsSound, WorkIsScheduled, OneDeadline, PausedIsUnarmed
  <2>6. BarrierIsBusy'
    BY <1>1, <1>3, <2>1, <2>2 DEF BarrierIsBusy, Joined, flushes
  <2>7. EndsAreQuiet'
    BY <1>1, <1>4, <2>1, <2>2 DEF EndsAreQuiet, Waiting, flushes
  <2>8. QED
    BY <1>6, <1>7, <2>3, <2>4, <2>5, <2>6, <2>7
<1>10. QED
  BY <1>8, <1>9

\* A barrier whose own write failed tells those who joined it.
LEMMA BarrierFailsWorks ==
    ASSUME WorkInv, BarrierFails
    PROVE  WorkInv'
<1>. USE DEF WorkInv, WorkIsSound
<1>1. /\ UNCHANGED <<session, store, queue, writing, clock, goal, bounds>>
      /\ barrier = "failing" /\ barrier' = "none"
  BY DEF BarrierFails, EndBarrier
<1>2. /\ \A f \in Flushers : flusher'[f] = IF flusher[f] = "joined" THEN "failed" ELSE flusher[f]
      /\ flusher' \in [Flushers -> FlushStates]
  BY JoinedMoves DEF BarrierFails, EndBarrier, FlushStates
<1>3. paused /\ timers = 0 /\ active = "none" /\ init = "ready"
  BY <1>1 DEF BarrierIsBusy, PausedIsUnarmed, InitIsQuiet
<1>4. TypeOK'
  <2>1. /\ SessionTyped' /\ StoreTyped' /\ QueueTyped' /\ WritingTyped' /\ ClockTyped'
        /\ BoundsTyped'
    BY <1>1, TypesStay
  <2>2. BarrierTyped' /\ FlushesTyped'
    BY <1>1, <1>2 DEF TypeOK, BarrierTyped, FlushesTyped, FlushStates
  <2>3. QED
    BY <2>1, <2>2, TypesJoin
<1>5. LengthsFit'
  BY <1>1, LengthsStay DEF session, store
<1>6. WriteIsNonempty' /\ InitIsQuiet'
  BY <1>1, <1>3 DEF WriteIsNonempty, InitIsQuiet, store, queue, writing
<1>7. TimerIsSound' /\ PausedIsUnarmed'
  BY <1>1, <1>3 DEF TimerIsSound, WorkIsScheduled, OneDeadline, PausedIsUnarmed, TypeOK, clock
<1>8. BarrierIsBusy'
  BY <1>1, <1>2, <1>3 DEF BarrierIsBusy, Joined, writing
<1>9. EndsAreKnown'
  BY <1>1, <1>2, InternalFlushers DEF EndsAreKnown, session, store
<1>10. EndsAreQuiet'
  BY <1>1, <1>2, <1>3, InternalFlushers
     DEF EndsAreQuiet, Waiting, store, queue, writing, clock
<1>11. QED
  BY <1>4, <1>5, <1>6, <1>7, <1>8, <1>9, <1>10

\* Those who wait join a barrier, or are refused with the initialisation.
LEMMA WaitersWork ==
    ASSUME WorkInv, Join \/ FlushFails
    PROVE  WorkInv'
<1>. USE DEF WorkInv, WorkIsSound
<1>1. /\ UNCHANGED <<session, store, queue, writing, paused, barrier, goal, bounds>>
      /\ \/ Join /\ barrier # "none" /\ timers' = timers /\ expired' = expired
         \/ /\ FlushFails /\ init = "failed" /\ barrier = "none"
            /\ timers' = 0 /\ expired' = FALSE
  BY CancelDisarms DEF Join, FlushFails, InitIsQuiet, TimerIsSound, clock
<1>2. PICK what \in {"joined", "failed"} :
         /\ \A f \in Flushers : flusher'[f] = IF flusher[f] = "waiting" THEN what ELSE flusher[f]
         /\ flusher' \in [Flushers -> FlushStates]
         /\ what = "joined" => Join
         /\ what = "failed" => FlushFails
  <2>1. CASE Join
    BY <2>1, WaitingMoves DEF Join, FlushStates
  <2>2. CASE FlushFails
    BY <2>2, WaitingMoves DEF FlushFails, FlushStates
  <2>3. QED
    BY <2>1, <2>2
<1>3. ~(Join /\ FlushFails)
  BY DEF Join, FlushFails
<1>4. TypeOK'
  <2>1. /\ SessionTyped' /\ StoreTyped' /\ QueueTyped' /\ WritingTyped'
        /\ BarrierTyped' /\ BoundsTyped'
    BY <1>1, TypesStay
  <2>2. ClockTyped'
    <3>1. timers \in Nat /\ expired \in BOOLEAN /\ paused \in BOOLEAN
      BY DEF TypeOK
    <3>2. timers' = timers \/ timers' = 0
      BY <1>1, Zenon
    <3>3. expired' = expired \/ expired' = FALSE
      BY <1>1, Zenon
    <3>4. timers' \in Nat
      BY <3>1, <3>2
    <3>5. expired' \in BOOLEAN
      BY <3>1, <3>3, Zenon
    <3>6. paused' \in BOOLEAN
      BY <1>1, <3>1, Zenon
    <3>7. QED
      BY <3>4, <3>5, <3>6 DEF ClockTyped
  <2>3. FlushesTyped'
    BY <1>1, <1>2 DEF TypeOK, FlushesTyped, FlushStates
  <2>4. QED
    BY <2>1, <2>2, <2>3, TypesJoin
<1>5. LengthsFit'
  BY <1>1, LengthsStay DEF session, store
<1>6. WriteIsNonempty' /\ InitIsQuiet'
  BY <1>1 DEF WriteIsNonempty, InitIsQuiet, NoRewind, store, queue, writing
<1>7. TimerIsSound' /\ PausedIsUnarmed'
  BY <1>1 DEF TimerIsSound, WorkIsScheduled, OneDeadline, PausedIsUnarmed, store, queue
<1>8. BarrierIsBusy'
  BY <1>1, <1>2, <1>3 DEF BarrierIsBusy, Joined, queue, writing
<1>9. EndsAreKnown'
  BY <1>1, <1>2, InternalFlushers DEF EndsAreKnown, session, store
<1>10. EndsAreQuiet'
  <2>1. UNCHANGED <<pending, active, init, barrier>>
    BY <1>1 DEF store, queue, writing
  <2>2. \A f \in Internal : flusher'[f] = "done" => pending' = <<>> /\ active' = "none"
    BY <1>2, <2>1, InternalFlushers DEF EndsAreQuiet
  <2>3. flusher'["teardown"] = "failed" =>
           timers' = 0 /\ barrier' = "none" /\ (active' = "none" \/ init' = "failed")
    BY <1>1, <1>2, <1>3, <2>1, InternalFlushers DEF EndsAreQuiet
  <2>4. Waiting' = {}
    BY <1>2 DEF Waiting
  <2>5. QED
    BY <2>2, <2>3, <2>4 DEF EndsAreQuiet
<1>11. QED
  BY <1>4, <1>5, <1>6, <1>7, <1>8, <1>9, <1>10

\* Those who wait open a barrier.
LEMMA OpenBarrierWorks ==
    ASSUME WorkInv, OpenBarrier
    PROVE  WorkInv'
<1>. USE DEF WorkInv, WorkIsSound
<1>1. /\ UNCHANGED <<session, store, fresh, goal, bounds>>
      /\ Waiting # {} /\ init = "ready" /\ barrier = "none" /\ paused' = FALSE
  BY DEF OpenBarrier
<1>2. flusher["teardown"] # "failed"
  BY <1>1 DEF EndsAreQuiet
<1>3. SessionTyped' /\ StoreTyped' /\ BoundsTyped'
  BY <1>1, TypesStay
<1>4. LengthsFit'
  BY <1>1, LengthsStay DEF session, store
<1>5. PICK what \in {"joined", "done"} :
         /\ \A f \in Flushers : flusher'[f] = IF flusher[f] = "waiting" THEN what ELSE flusher[f]
         /\ flusher' \in [Flushers -> FlushStates]
         /\ what = "joined" => barrier' # "none"
         /\ what = "done" => active = "none" /\ pending = <<>> /\ active' = "none" /\ pending' = <<>>
  <2>1. CASE flusher' = Becomes(Waiting, "joined") /\ barrier' # "none"
    <3>1. /\ \A f \in Flushers :
                flusher'[f] = IF flusher[f] = "waiting" THEN "joined" ELSE flusher[f]
          /\ flusher' \in [Flushers -> FlushStates]
      BY <2>1, WaitingMoves DEF FlushStates
    <3>2. QED
      BY <2>1, <3>1
  <2>2. CASE /\ flusher' = Becomes(Waiting, "done")
             /\ active = "none" /\ pending = <<>> /\ active' = "none" /\ pending' = <<>>
    <3>1. /\ \A f \in Flushers :
                flusher'[f] = IF flusher[f] = "waiting" THEN "done" ELSE flusher[f]
          /\ flusher' \in [Flushers -> FlushStates]
      BY <2>2, WaitingMoves DEF FlushStates
    <3>2. QED
      BY <2>2, <3>1
  <2>3. QED
    BY <2>1, <2>2 DEF OpenBarrier, writing
<1>6. FlushesTyped'
  BY <1>1, <1>5 DEF TypeOK, FlushesTyped, FlushStates
<1>7. EndsAreKnown'
  BY <1>1, <1>5, InternalFlushers DEF EndsAreKnown, session, store
<1>8. CASE /\ active # "none" /\ barrier' = "overlap" /\ flusher' = Becomes(Waiting, "joined")
           /\ timers' = Cancelled /\ expired' = FALSE /\ UNCHANGED <<pending, batch, writing>>
  <2>1. /\ timers' = 0 /\ expired' = FALSE /\ barrier' = "overlap"
        /\ UNCHANGED <<pending, batch, active, background>>
    BY <1>1, <1>8, CancelDisarms DEF TimerIsSound, writing
  <2>2. background
    BY <1>1, <1>8 DEF BarrierIsBusy
  <2>3. TypeOK'
    <3>1. QueueTyped' /\ WritingTyped'
      BY <1>1, <1>8, TypesStay DEF queue
    <3>2. ClockTyped' /\ BarrierTyped'
      BY <1>1, <2>1 DEF ClockTyped, BarrierTyped
    <3>3. QED
      BY <1>3, <1>6, <3>1, <3>2, TypesJoin
  <2>4. WriteIsNonempty' /\ InitIsQuiet'
    BY <1>1, <2>1 DEF WriteIsNonempty, InitIsQuiet, store
  <2>5. TimerIsSound' /\ PausedIsUnarmed' /\ BarrierIsBusy'
    BY <1>1, <1>8, <2>1, <2>2 DEF TimerIsSound, WorkIsScheduled, OneDeadline, PausedIsUnarmed,
                                  BarrierIsBusy
  <2>6. EndsAreQuiet'
    BY <1>2, <1>5, <2>1, InternalFlushers DEF EndsAreQuiet, Waiting, Internal
  <2>7. QED
    BY <1>4, <1>7, <2>3, <2>4, <2>5, <2>6
<1>9. CASE /\ active = "none" /\ pending # <<>> /\ barrier' = "draining"
           /\ flusher' = Becomes(Waiting, "joined") /\ StartWrite(pending, FALSE)
  <2>1. /\ batch' = pending /\ pending' = <<>> /\ active' = "queued" /\ background' = FALSE
        /\ timers' = 0 /\ expired' = FALSE /\ barrier' = "draining"
    BY <1>9, CancelDisarms DEF StartWrite, TimerIsSound
  <2>2. TypeOK'
    <3>1. QueueTyped'
      BY <1>1, <2>1 DEF TypeOK, QueueTyped
    <3>2. WritingTyped' /\ ClockTyped' /\ BarrierTyped'
      BY <1>1, <2>1 DEF WritingTyped, ClockTyped, BarrierTyped
    <3>3. QED
      BY <1>3, <1>6, <3>1, <3>2, TypesJoin
  <2>3. WriteIsNonempty' /\ InitIsQuiet'
    BY <1>1, <1>9, <2>1 DEF WriteIsNonempty, InitIsQuiet, store
  <2>4. TimerIsSound' /\ PausedIsUnarmed' /\ BarrierIsBusy'
    BY <1>1, <2>1 DEF TimerIsSound, WorkIsScheduled, OneDeadline, PausedIsUnarmed,
                      BarrierIsBusy
  <2>5. EndsAreQuiet'
    BY <1>2, <1>5, <1>9, <2>1, InternalFlushers DEF EndsAreQuiet, Waiting, Internal
  <2>6. QED
    BY <1>4, <1>7, <2>2, <2>3, <2>4, <2>5
<1>10. CASE /\ active = "none" /\ pending = <<>> /\ flusher' = Becomes(Waiting, "done")
            /\ timers' = Cancelled /\ expired' = FALSE
            /\ UNCHANGED <<barrier, pending, batch, writing>>
  <2>1. /\ timers' = 0 /\ expired' = FALSE /\ barrier' = "none"
        /\ UNCHANGED <<pending, batch, active, background>>
    BY <1>1, <1>10, CancelDisarms DEF TimerIsSound, writing
  <2>2. TypeOK'
    <3>1. QueueTyped' /\ WritingTyped' /\ BarrierTyped'
      BY <1>1, <1>10, TypesStay DEF queue
    <3>2. ClockTyped'
      BY <1>1, <2>1 DEF ClockTyped
    <3>3. QED
      BY <1>3, <1>6, <3>1, <3>2, TypesJoin
  <2>3. WriteIsNonempty' /\ InitIsQuiet'
    BY <1>1, <2>1 DEF WriteIsNonempty, InitIsQuiet, store
  <2>4. TimerIsSound' /\ PausedIsUnarmed'
    BY <1>1, <1>10, <2>1 DEF TimerIsSound, WorkIsScheduled, OneDeadline, PausedIsUnarmed
  <2>5. BarrierIsBusy'
    BY <1>1, <1>5, <1>10, <2>1 DEF BarrierIsBusy, Joined
  <2>6. EndsAreQuiet'
    BY <1>2, <1>5, <1>10, <2>1, InternalFlushers DEF EndsAreQuiet, Waiting, Internal
  <2>7. QED
    BY <1>4, <1>7, <2>2, <2>3, <2>4, <2>5, <2>6
<1>11. QED
  BY <1>8, <1>9, <1>10 DEF OpenBarrier

\* Somebody asks for a flush: a caller, or the coordinator for an end that is
\* not over.
LEMMA AskWorks ==
    ASSUME WorkInv, NEW f \in Flushers, AskFlush(f), flusher[f] = "idle",
           UNCHANGED <<stored, artifact, state, seed, init, rewindTo,
                       queue, writing, barrier, bounds, log, born>>,
           service' \in {"open", "closing", "closed"},
           life' \in {"live", "disposed", "released", "kept"}, life' = "live" => life = "live",
           flusher["teardown"] \notin {"joined", "failed"},
           EndsAreKnown'
    PROVE  WorkInv'
<1>. USE DEF WorkInv, WorkIsSound
<1>1. UNCHANGED <<stored, artifact, state, seed, init, rewindTo, queue, writing, barrier,
                  bounds, log, born>>
  OBVIOUS
<1>2. /\ \A g \in Flushers : flusher'[g] = IF g = f THEN "waiting" ELSE flusher[g]
      /\ flusher' \in [Flushers -> FlushStates]
      /\ timers' = 0 /\ expired' = FALSE /\ paused' = paused
      /\ goal' \in [Flushers -> 0 .. MaxEvents]
  BY AskDoes, LogIsBounded DEF LengthsFit, TimerIsSound
<1>3. TypeOK'
  <2>1. QueueTyped' /\ WritingTyped' /\ BarrierTyped' /\ BoundsTyped'
    BY <1>1, TypesStay
  <2>2. SessionTyped'
    BY <1>1 DEF TypeOK, SessionTyped
  <2>3. StoreTyped'
    BY <1>1 DEF TypeOK, StoreTyped, NoRewind
  <2>4. ClockTyped'
    BY <1>2 DEF TypeOK, ClockTyped
  <2>5. FlushesTyped'
    BY <1>2 DEF FlushesTyped, FlushStates
  <2>6. QED
    BY <2>1, <2>2, <2>3, <2>4, <2>5, TypesJoin
<1>4. LengthsFit'
  BY <1>1, LengthsStay
<1>5. WriteIsNonempty' /\ InitIsQuiet'
  BY <1>1 DEF WriteIsNonempty, InitIsQuiet, NoRewind, queue, writing
<1>6. TimerIsSound' /\ PausedIsUnarmed'
  <2>1. Waiting' # {}
    BY <1>2 DEF Waiting
  <2>2. QED
    BY <1>2, <2>1 DEF TimerIsSound, WorkIsScheduled, OneDeadline, PausedIsUnarmed
<1>7. BarrierIsBusy'
  BY <1>1, <1>2 DEF BarrierIsBusy, Joined, queue, writing
<1>8. EndsAreQuiet'
  BY <1>1, <1>2, InternalFlushers DEF EndsAreQuiet, Internal, queue, writing
<1>9. QED
  BY <1>3, <1>4, <1>5, <1>6, <1>7, <1>8

\* A caller flushes, the session is disposed, or the backend is torn down.
LEMMA RequestsWork ==
    ASSUME WorkInv, Dispose \/ Teardown \/ \E c \in Callers : FlushCall(c)
    PROVE  WorkInv'
<1>. USE DEF WorkInv, WorkIsSound
<1>1. ASSUME NEW c \in Callers, FlushCall(c)
      PROVE  WorkInv'
  <2>1. /\ c \in Flushers /\ c # "retirement" /\ c # "teardown" /\ flusher[c] = "idle"
        /\ service = "open" /\ AskFlush(c)
        /\ UNCHANGED <<session, store, queue, writing, barrier, bounds>>
    BY <1>1, InternalFlushers DEF FlushCall, Idle
  <2>2. \A g \in Flushers : flusher'[g] = IF g = c THEN "waiting" ELSE flusher[g]
    BY <2>1, AskDoes DEF TimerIsSound
  <2>3. EndsAreKnown'
    BY <2>1, <2>2, InternalFlushers DEF EndsAreKnown, session, store
  <2>4. flusher["teardown"] = "idle"
    BY <2>1 DEF EndsAreKnown
  <2>5. /\ UNCHANGED <<stored, artifact, state, seed, init, rewindTo, life, log, born>>
        /\ life' \in {"live", "disposed", "released", "kept"}
        /\ service' \in {"open", "closing", "closed"}
    BY <2>1 DEF session, store, TypeOK
  <2>6. QED
    BY <2>1, <2>3, <2>4, <2>5, AskWorks
<1>2. ASSUME Dispose
      PROVE  WorkInv'
  <2>1. /\ AskFlush("retirement") /\ life = "live" /\ life' = "disposed" /\ service = "open"
        /\ UNCHANGED <<log, born, store, queue, writing, barrier, bounds>>
    BY <1>2 DEF Dispose
  <2>2. /\ "retirement" \in Flushers /\ flusher["retirement"] = "idle"
        /\ flusher["teardown"] = "idle"
    BY <2>1, InternalFlushers DEF EndsAreKnown
  <2>3. \A g \in Flushers : flusher'[g] = IF g = "retirement" THEN "waiting" ELSE flusher[g]
    BY <2>1, <2>2, AskDoes DEF TimerIsSound
  <2>4. EndsAreKnown'
    BY <2>1, <2>2, <2>3, InternalFlushers DEF EndsAreKnown, store
  <2>5. /\ UNCHANGED <<stored, artifact, state, seed, init, rewindTo>>
        /\ service' \in {"open", "closing", "closed"}
    BY <2>1 DEF store
  <2>6. QED
    BY <2>1, <2>2, <2>4, <2>5, AskWorks
<1>3. ASSUME Teardown, life # "released"
      PROVE  WorkInv'
  <2>1. /\ AskFlush("teardown") /\ service = "open" /\ service' = "closing"
        /\ UNCHANGED <<session, stored, artifact, state, seed, init, rewindTo,
                       queue, writing, barrier, bounds>>
    BY <1>3 DEF Teardown
  <2>2. "teardown" \in Flushers /\ flusher["teardown"] = "idle"
    BY <2>1, InternalFlushers DEF EndsAreKnown
  <2>3. \A g \in Flushers : flusher'[g] = IF g = "teardown" THEN "waiting" ELSE flusher[g]
    BY <2>1, <2>2, AskDoes DEF TimerIsSound
  <2>4. EndsAreKnown'
    BY <1>3, <2>1, <2>2, <2>3, InternalFlushers DEF EndsAreKnown, session
  <2>5. /\ UNCHANGED <<life, log, born>> /\ life' \in {"live", "disposed", "released", "kept"}
        /\ service' \in {"open", "closing", "closed"}
    BY <2>1 DEF session, TypeOK
  <2>6. QED
    BY <2>1, <2>2, <2>4, <2>5, AskWorks
<1>4. ASSUME Teardown, life = "released"
      PROVE  WorkInv'
  <2>1. /\ flusher' = [flusher EXCEPT !["teardown"] = "done"] /\ UNCHANGED <<goal, clock>>
        /\ service = "open" /\ service' = "closing"
        /\ UNCHANGED <<session, stored, artifact, state, seed, init, rewindTo,
                       queue, writing, barrier, bounds>>
    BY <1>4 DEF Teardown
  <2>2. /\ \A g \in Flushers : flusher'[g] = IF g = "teardown" THEN "done" ELSE flusher[g]
        /\ flusher' \in [Flushers -> FlushStates]
    BY <2>1 DEF TypeOK, FlushStates
  <2>3. /\ flusher["teardown"] = "idle" /\ pending = <<>> /\ active = "none"
    BY <1>4, <2>1 DEF EndsAreKnown, EndsAreQuiet, Internal
  <2>4. TypeOK'
    <3>1. /\ SessionTyped' /\ QueueTyped' /\ WritingTyped' /\ ClockTyped' /\ BarrierTyped'
          /\ BoundsTyped'
      BY <2>1, TypesStay
    <3>2. StoreTyped'
      BY <2>1 DEF TypeOK, StoreTyped, NoRewind
    <3>3. FlushesTyped'
      BY <2>1, <2>2 DEF TypeOK, FlushesTyped, FlushStates
    <3>4. QED
      BY <3>1, <3>2, <3>3, TypesJoin
  <2>5. LengthsFit'
    BY <2>1, LengthsStay DEF session
  <2>6. WriteIsNonempty' /\ InitIsQuiet'
    BY <2>1 DEF WriteIsNonempty, InitIsQuiet, NoRewind, queue, writing
  <2>7. TimerIsSound' /\ PausedIsUnarmed'
    BY <2>1, <2>3 DEF TimerIsSound, WorkIsScheduled, OneDeadline, PausedIsUnarmed, queue, clock
  <2>8. BarrierIsBusy'
    BY <2>1, <2>2 DEF BarrierIsBusy, Joined, queue, writing, clock
  <2>9. EndsAreKnown'
    BY <1>4, <2>1, <2>2, <2>3, InternalFlushers DEF EndsAreKnown, session
  <2>10. EndsAreQuiet'
    BY <2>1, <2>2, <2>3, InternalFlushers DEF EndsAreQuiet, Internal, queue, writing
  <2>11. QED
    BY <2>4, <2>5, <2>6, <2>7, <2>8, <2>9, <2>10
<1>5. QED
  BY <1>1, <1>2, <1>3, <1>4

\* A retirement ends, or the backend closes.
LEMMA EndsWork ==
    ASSUME WorkInv, Retire \/ Close
    PROVE  WorkInv'
<1>. USE DEF WorkInv, WorkIsSound
<1>1. /\ UNCHANGED <<log, born, stored, artifact, state, seed, init, rewindTo, queue, writing,
                     clock, barrier, flushes, bounds>>
      /\ life' \in {"live", "disposed", "released", "kept"}
      /\ service' \in {"open", "closing", "closed"}
      /\ life' = "live" <=> life = "live"
      /\ service' = "open" <=> service = "open"
      /\ life' = "released" => flusher["retirement"] = "done"
      /\ service' = "closed" => flusher["teardown"] \in {"done", "failed"}
  BY DEF Retire, Retired, Close, EndsAreKnown, TypeOK, session, store
<1>2. TypeOK'
  <2>1. /\ QueueTyped' /\ WritingTyped' /\ ClockTyped' /\ BarrierTyped' /\ FlushesTyped'
        /\ BoundsTyped'
    BY <1>1, TypesStay
  <2>2. SessionTyped' /\ StoreTyped'
    BY <1>1 DEF TypeOK, SessionTyped, StoreTyped, NoRewind
  <2>3. QED
    BY <2>1, <2>2, TypesJoin
<1>3. LengthsFit'
  BY <1>1, LengthsStay
<1>4. WriteIsNonempty' /\ InitIsQuiet'
  BY <1>1 DEF WriteIsNonempty, InitIsQuiet, NoRewind, queue, writing
<1>5. TimerIsSound' /\ PausedIsUnarmed' /\ BarrierIsBusy' /\ EndsAreQuiet'
  BY <1>1 DEF TimerIsSound, WorkIsScheduled, OneDeadline, PausedIsUnarmed, BarrierIsBusy,
              EndsAreQuiet, Joined, Waiting, queue, writing, clock, flushes
<1>6. EndsAreKnown'
  BY <1>1 DEF EndsAreKnown, flushes
<1>7. QED
  BY <1>2, <1>3, <1>4, <1>5, <1>6

\* Storage is cut, whatever is being written.
LEMMA RewindWorks ==
    ASSUME WorkInv, NEW n \in 0 .. Len(log) - 1, Rewind(n)
    PROVE  WorkInv'
<1>. USE DEF WorkInv
<1>1. /\ UNCHANGED <<session, artifact, state, seed, init, service, queue, writing,
                     clock, barrier, flushes, failures>>
      /\ init = "ready" /\ rewinds < MaxRewinds /\ rewinds' = rewinds + 1 /\ rewindTo' = n
      /\ stored' = (IF Len(stored) <= n THEN stored ELSE SubSeq(stored, 1, n))
  BY DEF Rewind
<1>2. Len(log) \in Nat /\ Len(log) <= MaxEvents /\ n < Len(log) /\ n \in Nat /\ MaxEvents \in Nat
  BY LogIsBounded, ConstantsAreValid DEF LengthsFit
<1>3. stored' \in Seq(1 .. MaxEvents)
  <2>1. stored \in Seq(Event) /\ Len(stored) \in Nat
    BY DEF TypeOK, Event
  <2>2. CASE Len(stored) <= n
    BY <1>1, <2>1, <2>2 DEF Event
  <2>3. CASE ~(Len(stored) <= n)
    <3>1. n \in 0 .. Len(stored)
      BY <1>2, <2>1, <2>3
    <3>2. SubSeq(stored, 1, n) \in Seq(Event)
      BY <2>1, <3>1, CutDoes
    <3>3. QED
      BY <1>1, <2>3, <3>2 DEF Event
  <2>4. QED
    BY <2>2, <2>3
<1>4. TypeOK'
  <2>1. /\ SessionTyped' /\ QueueTyped' /\ WritingTyped' /\ ClockTyped' /\ BarrierTyped'
        /\ FlushesTyped'
    BY <1>1, TypesStay
  <2>2. rewindTo' \in 0 .. MaxEvents + 1 /\ rewinds' \in 0 .. MaxRewinds
    BY <1>1, <1>2, ConstantsAreValid DEF TypeOK
  <2>3. StoreTyped' /\ BoundsTyped'
    BY <1>1, <1>3, <2>2 DEF TypeOK, StoreTyped, BoundsTyped, NoRewind
  <2>4. QED
    BY <2>1, <2>3, TypesJoin
<1>5. LengthsFit'
  BY <1>1, <1>2 DEF LengthsFit, BornOnce, RewindIsShort, session
<1>6. WorkIsSound'
  BY <1>1, WorkStays DEF session, queue, writing, clock, flushes
<1>7. QED
  BY <1>4, <1>5, <1>6

\* The cursor and the log of a live session follow the cut.
LEMMA FollowWorks ==
    ASSUME WorkInv, Follow
    PROVE  WorkInv'
<1>. USE DEF WorkInv
<1>1. /\ UNCHANGED <<born, life, stored, artifact, seed, init, service, queue, writing,
                     clock, barrier, flusher, bounds>>
      /\ rewindTo # NoRewind /\ rewindTo' = NoRewind
      /\ state' = [cursor |-> rewindTo, materialized |-> rewindTo > 0]
      /\ log' = IF life = "live" THEN SubSeq(log, 1, rewindTo) ELSE log
      /\ goal' = [f \in Flushers |-> IF goal[f] < rewindTo THEN goal[f] ELSE rewindTo]
  BY DEF Follow
<1>2. /\ rewindTo \in Nat /\ rewindTo <= MaxEvents /\ MaxEvents \in Nat
      /\ log \in Seq(Event) /\ Len(log) \in Nat /\ Len(log) <= born /\ born \in 0 .. MaxEvents
  <2>1. MaxEvents \in Nat
    BY ConstantsAreValid
  <2>2. rewindTo \in Nat /\ rewindTo <= MaxEvents
    BY <1>1, <2>1 DEF TypeOK, NoRewind
  <2>3. QED
    BY <2>1, <2>2 DEF TypeOK, Event, LengthsFit, BornOnce
<1>3. log' \in Seq(Event) /\ Len(log') <= born
  <2>1. CASE life = "live"
    <3>1. rewindTo < Len(log)
      BY <1>1, <2>1 DEF LengthsFit, RewindIsShort
    <3>2. rewindTo \in 0 .. Len(log)
      BY <1>2, <3>1
    <3>3. SubSeq(log, 1, rewindTo) \in Seq(Event) /\ Len(SubSeq(log, 1, rewindTo)) = rewindTo
      BY <1>2, <3>2, CutDoes
    <3>4. rewindTo <= born
      BY <1>2, <3>1
    <3>5. QED
      BY <1>1, <2>1, <3>3, <3>4
  <2>2. CASE life # "live"
    BY <1>1, <1>2, <2>2
  <2>3. QED
    BY <2>1, <2>2
<1>4. goal' \in [Flushers -> 0 .. MaxEvents]
  <2>1. goal \in [Flushers -> 0 .. MaxEvents]
    BY DEF TypeOK
  <2>2. \A f \in Flushers : (IF goal[f] < rewindTo THEN goal[f] ELSE rewindTo) \in 0 .. MaxEvents
    BY <1>2, <2>1
  <2>3. QED
    BY <1>1, <2>2
<1>5. TypeOK'
  <2>1. /\ QueueTyped' /\ WritingTyped' /\ ClockTyped' /\ BarrierTyped' /\ BoundsTyped'
    BY <1>1, TypesStay
  <2>2. SessionTyped'
    BY <1>1, <1>2, <1>3 DEF TypeOK, SessionTyped, Event
  <2>3. StoreTyped'
    <3>1. state' \in [cursor : Nat, materialized : BOOLEAN]
      BY <1>1, <1>2
    <3>2. rewindTo' \in 0 .. MaxEvents + 1
      BY <1>1, <1>2 DEF NoRewind
    <3>3. QED
      BY <1>1, <3>1, <3>2 DEF TypeOK, StoreTyped, NoRewind
  <2>4. FlushesTyped'
    BY <1>1, <1>4 DEF TypeOK, FlushesTyped
  <2>5. QED
    BY <2>1, <2>2, <2>3, <2>4, TypesJoin
<1>6. LengthsFit'
  BY <1>1, <1>3 DEF LengthsFit, BornOnce, RewindIsShort, NoRewind
<1>7. WorkIsSound'
  <2>1. init' = "ready"
    BY <1>1 DEF WorkIsSound, InitIsQuiet
  <2>2. init = "failed" => init' = "failed"
    BY <1>1
  <2>3. QED
    BY <1>1, <2>1, <2>2, WorkStays DEF queue, writing, clock
<1>8. QED
  BY <1>5, <1>6, <1>7

\* The invariant holds at first.
LEMMA InitWorks == Init => WorkInv
<1> SUFFICES ASSUME Init PROVE WorkInv
  OBVIOUS
<1>1. TypeOK /\ BornOnce /\ WriteIsNonempty /\ TimerIsSound /\ PausedIsUnarmed /\ BarrierIsBusy
      /\ EndsAreAsked /\ EndsAreQuiet
  BY InitInv DEF Inv, ContentInv, ControlInv
<1>2. rewindTo = NoRewind /\ active = "none" /\ barrier = "none"
  BY DEF Init
<1>3. QED
  BY <1>1, <1>2 DEF WorkInv, WorkIsSound, LengthsFit, RewindIsShort, InitIsQuiet, EndsAreKnown,
                    EndsAreAsked

\* Every step keeps it, wherever a rewind falls.
LEMMA NextWorks ==
    ASSUME WorkInv, [Next]_vars
    PROVE  WorkInv'
<1>1. CASE AppendEvent \/ Deadline \/ Initialise
  BY <1>1, AppendEventWorks, DeadlineWorks, InitialiseWorks
<1>2. CASE Write
  BY <1>2, SinkWorks, AcknowledgeWorks, FailureWorks, BarrierFailsWorks DEF Write
<1>3. CASE Flush
  BY <1>3, WaitersWork, OpenBarrierWorks DEF Flush
<1>4. CASE Dispose \/ Teardown \/ \E c \in Callers : FlushCall(c)
  BY <1>4, RequestsWork
<1>5. CASE Retire \/ Close
  BY <1>5, EndsWork
<1>6. CASE \E n \in 0 .. Len(log) - 1 : Rewind(n)
  BY <1>6, RewindWorks
<1>7. CASE Follow
  BY <1>7, FollowWorks
<1>8. CASE UNCHANGED vars
  <2>1. UNCHANGED <<session, store, queue, writing, clock, barrier, flushes, bounds>>
    BY <1>8 DEF vars
  <2>2. TypeOK'
    BY <2>1, TypesStay, TypesJoin DEF WorkInv
  <2>3. LengthsFit'
    BY <2>1, LengthsStay DEF session, store
  <2>4. WorkIsSound'
    BY <2>1, WorkStays DEF WorkInv, WorkIsSound, InitIsQuiet, NoRewind, session, store, queue,
                           writing, clock, flushes
  <2>5. QED
    BY <2>2, <2>3, <2>4 DEF WorkInv
<1>9. QED
  BY <1>1, <1>2, <1>3, <1>4, <1>5, <1>6, <1>7, <1>8 DEF Next

\* A backend that was closed is asked for nothing more.
ClosedIsQuiet ==
    service = "closed" => timers = 0 /\ barrier = "none" /\ (active = "none" \/ init = "failed")

\* A released session has nothing queued and nothing being written.
ReleasedIsIdle == life = "released" => pending = <<>> /\ active = "none"

\* A rewind in the middle of a write, which the program does not keep from
\* happening, loses queued events; but it never costs the controller its timer
\* or a queued event its turn, and it leaves no work behind a released session
\* or a closed backend.
THEOREM WorkSurvivesRewinds ==
    Spec => [](TypeOK /\ TimerIsSound /\ ClosedIsQuiet /\ ReleasedIsIdle)
<1>1. WorkInv => TypeOK /\ TimerIsSound /\ ClosedIsQuiet /\ ReleasedIsIdle
  <2> SUFFICES ASSUME WorkInv
               PROVE  TypeOK /\ TimerIsSound /\ ClosedIsQuiet /\ ReleasedIsIdle
    OBVIOUS
  <2>. USE DEF WorkInv, WorkIsSound
  <2>1. ReleasedIsIdle
    BY DEF ReleasedIsIdle, EndsAreKnown, EndsAreQuiet, Internal
  <2>2. CASE flusher["teardown"] = "done"
    <3>1. pending = <<>> /\ active = "none"
      BY <2>2 DEF EndsAreQuiet, Internal
    <3>2. timers = 0
      BY <3>1 DEF TimerIsSound, OneDeadline, TypeOK
    <3>3. barrier = "none"
      BY <3>1 DEF BarrierIsBusy, TypeOK
    <3>4. QED
      BY <2>1, <3>1, <3>2, <3>3 DEF ClosedIsQuiet
  <2>3. CASE flusher["teardown"] = "failed"
    BY <2>1, <2>3 DEF ClosedIsQuiet, EndsAreQuiet
  <2>4. CASE service # "closed"
    BY <2>1, <2>4 DEF ClosedIsQuiet
  <2>5. QED
    BY <2>2, <2>3, <2>4 DEF EndsAreKnown
<1>2. WorkInv /\ [Next]_vars => WorkInv'
  BY NextWorks
<1>3. QED
  BY <1>1, <1>2, InitWorks, PTL DEF Spec

-----------------------------------------------------------------------------
(* The write path implements the durable log.                              *)

\* A step that leaves the log alone and adds the next events to storage, or
\* none, is a step of the durable log.
LEMMA GrowthPersists ==
    ASSUME Inv, Inv', log' = log, rewindTo = NoRewind, rewindTo' = NoRewind,
           Len(stored) <= Len(stored')
    PROVE  [Abstract!Next]_<<log, stored, rewindTo # NoRewind>>
<1>1. /\ stored \in Seq(Event) /\ stored' \in Seq(Event) /\ log \in Seq(Event)
      /\ Len(stored) \in Nat /\ Len(stored') \in Nat /\ Len(log) \in Nat
  <2>1. log \in Seq(1 .. MaxEvents) /\ stored \in Seq(1 .. MaxEvents)
    BY DEF Inv, TypeOK
  <2>2. stored' \in Seq(1 .. MaxEvents)
    BY DEF Inv, TypeOK
  <2>3. QED
    BY <2>1, <2>2 DEF Event
<1>2. /\ \A i \in 1 .. Len(stored) : stored[i] = log[i]
      /\ \A i \in 1 .. Len(stored') : stored'[i] = log[i]
      /\ Len(stored') <= Len(log)
  BY DEF Inv, ContentInv, StoredIsPrefix
<1>3. (rewindTo # NoRewind)' = (rewindTo # NoRewind)
  BY DEF NoRewind
<1>4. CASE Len(stored') = Len(stored)
  <2>1. \A i \in 1 .. Len(stored) : stored'[i] = stored[i]
    BY <1>2, <1>4
  <2>2. stored' = stored
    BY <1>1, <1>4, <2>1, SeqEqual
  <2>3. QED
    BY <1>3, <2>2
<1>5. CASE Len(stored') # Len(stored)
  <2>1. stored' = SubSeq(log, 1, Len(stored'))
    BY <1>1, <1>2, PrefixIsCut
  <2>2. Len(stored') \in Len(stored) + 1 .. Len(log)
    BY <1>1, <1>2, <1>5
  <2>3. Abstract!Persist
    BY <1>3, <2>1, <2>2 DEF Abstract!Persist
  <2>4. QED
    BY <2>3 DEF Abstract!Next
<1>6. QED
  BY <1>4, <1>5

\* What is accepted becomes durable in order and only a rewind takes it back,
\* after storage and the log agreed: every step of the write path is a step of
\* the durable log or none.
THEOREM WritePathIsDurable ==
    ASSUME "busy-rewind" \notin Admitted
    PROVE  Spec => StorageFollowsLog
<1>1. Init => Abstract!Init
  <2> SUFFICES ASSUME Init PROVE Abstract!Init
    OBVIOUS
  <2>1. Inv
    BY InitInv
  <2>2. rewindTo = NoRewind
    BY DEF Init
  <2>3. /\ stored \in Seq(Event) /\ log \in Seq(Event) /\ Len(stored) <= Len(log)
        /\ \A i \in 1 .. Len(stored) : stored[i] = log[i]
    BY <2>1 DEF Inv, TypeOK, Event, ContentInv, StoredIsPrefix
  <2>4. stored = SubSeq(log, 1, Len(stored))
    BY <2>3, PrefixIsCut
  <2>5. QED
    BY <2>2, <2>3, <2>4 DEF Abstract!Init, Abstract!IsPrefixOf, Event
<1>2. Inv /\ Inv' /\ [Next]_vars => [Abstract!Next]_<<log, stored, rewindTo # NoRewind>>
  <2> SUFFICES ASSUME Inv, Inv', [Next]_vars
               PROVE  [Abstract!Next]_<<log, stored, rewindTo # NoRewind>>
    OBVIOUS
  <2>1. CASE UNCHANGED <<log, stored, rewindTo>>
    BY <2>1 DEF NoRewind
  <2>2. CASE AppendEvent
    <3>1. /\ rewindTo = NoRewind /\ rewindTo' = NoRewind /\ stored' = stored
          /\ log' = Append(log, born + 1) /\ born < MaxEvents
      BY <2>2 DEF AppendEvent, store, NoRewind
    <3>2. born + 1 \in 1 .. MaxEvents
      BY <3>1, ConstantsAreValid DEF Inv, TypeOK
    <3>3. Abstract!Accept
      BY <3>1, <3>2 DEF Abstract!Accept, NoRewind
    <3>4. QED
      BY <3>3 DEF Abstract!Next
  <2>3. CASE WriteSeed
    <3>1. rewindTo = NoRewind /\ rewindTo' = NoRewind /\ log' = log
      BY <2>3 DEF WriteSeed, Inv, ContentInv, SeedCovers, session
    <3>2. Len(stored') = Len(seed) /\ Len(stored) <= Len(seed)
      BY <2>3, WriteSeedKeeps
    <3>3. QED
      BY <3>1, <3>2, GrowthPersists
  <2>4. CASE Store
    <3>1. rewindTo = NoRewind /\ rewindTo' = NoRewind /\ log' = log
      BY <2>4, WritingIsReady DEF Store, Inv, session
    <3>2. Len(stored) <= Len(stored')
      BY <2>4, StoreKeeps
    <3>3. QED
      BY <3>1, <3>2, GrowthPersists
  <2>5. ASSUME NEW n \in 0 .. Len(log) - 1, Rewind(n)
        PROVE  [Abstract!Next]_<<log, stored, rewindTo # NoRewind>>
    <3>1. stored = log /\ n \in 0 .. Len(stored) /\ stored' = SubSeq(stored, 1, n)
      BY <2>5, RewindKeeps
    <3>2. rewindTo = NoRewind /\ rewindTo' = n /\ log' = log
      BY <2>5 DEF Rewind, session
    <3>3. n \in 0 .. Len(stored) /\ n # NoRewind
      <4>1. Len(stored) \in 0 .. MaxEvents /\ MaxEvents \in Nat
        BY <3>1, LogIsBounded, ConstantsAreValid DEF Inv, ContentInv
      <4>2. QED
        BY <3>1, <4>1 DEF NoRewind
    <3>4. Abstract!Cut
      BY <3>1, <3>2, <3>3 DEF Abstract!Cut, NoRewind
    <3>5. QED
      BY <3>4 DEF Abstract!Next
  <2>6. CASE Follow
    <3>1. log' = stored /\ stored' = stored /\ rewindTo # NoRewind /\ rewindTo' = NoRewind
      BY <2>6, FollowKeeps DEF Follow
    <3>2. Abstract!Follow
      BY <3>1 DEF Abstract!Follow, NoRewind
    <3>3. QED
      BY <3>2 DEF Abstract!Next
  <2>7. QED
    <3>1. CASE Deadline \/ Flush \/ Retire \/ Dispose \/ Teardown \/ Close
      BY <2>1, <3>1 DEF Deadline, Flush, Join, OpenBarrier, FlushFails, Retire, Dispose,
                        Teardown, Close, session, store
    <3>2. CASE \E c \in Callers : FlushCall(c)
      BY <2>1, <3>2 DEF FlushCall, session, store
    <3>3. CASE Initialise
      BY <2>1, <2>3, <3>3 DEF Initialise, Adopt, InitFails, session
    <3>4. CASE Write
      BY <2>1, <2>4, <3>4 DEF Write, BeginWrite, Acknowledge, BackendFails, Refused, WriteFails,
                              BarrierFails, session, store
    <3>5. CASE UNCHANGED vars
      BY <2>1, <3>5 DEF vars, session, store
    <3>6. QED
      BY <2>2, <2>5, <2>6, <3>1, <3>2, <3>3, <3>4, <3>5 DEF Next
<1>3. QED
  BY <1>1, <1>2, InvHolds, PTL DEF Spec, StorageFollowsLog, Abstract!Spec
=============================================================================
