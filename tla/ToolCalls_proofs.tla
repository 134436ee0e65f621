--------------------------- MODULE ToolCalls_proofs ---------------------------
(***************************************************************************)
(* Proofs about the tool-call scheduler, for every number of calls, every  *)
(* size of the pool and every way the registry classifies the calls.       *)
(***************************************************************************)
EXTENDS ToolCalls, FiniteSetTheorems, TLAPS

\* The places of runGroup's loop, and those before, between and after groups.
InGroup == {"fill", "prepare", "commit", "finalize", "race"}
Between == {"group", "leave", "skip", "skipped", "done"}

\* The calls that were started, or skipped, and have a tool/call event: the
\* call at the cursor is recorded before the cursor moves over it.
Recorded == IF at \in {"prepare", "skipped"} THEN 1 .. cursor ELSE 1 .. cursor - 1

\* The cursors of runGroup stand in order within the group.
CursorsInOrder ==
    /\ at \in InGroup => base <= committed /\ committed <= cursor /\ cursor <= last + 1
    /\ at = "prepare" => cursor <= last
    /\ at = "finalize" => committed < cursor
    /\ at \in {"commit", "finalize", "race"} => base < cursor
    /\ at = "skipped" => cursor <= N
    /\ at = "done" => cursor = N + 1

\* What the log holds follows from where the scheduler is.
LogIsAligned ==
    /\ trace.openStep = 1
    /\ at \in InGroup \cup Between => logged = Recorded
    /\ at \in InGroup => trace.pending = Recorded \ 1 .. committed - 1
    /\ at \in {"group", "leave", "skip", "done"} => trace.pending = {}
    /\ at = "skipped" => trace.pending = {cursor}

\* The pool: only calls the cursor has passed ran, a running body is counted,
\* and a call that ran without an outcome is the failure's.
PoolIsAligned ==
    /\ \A c \in Calls : c >= cursor => body[c] = "none" /\ slot[c] = "none"
    /\ Running \subseteq inFlight
    /\ inFlight \subseteq 1 .. cursor - 1
    /\ at \in InGroup => inFlight \subseteq base .. cursor - 1
    /\ at \in InGroup => \A c \in base .. cursor - 1 :
           (body[c] # "running" /\ slot[c] = "none" => failed)
    /\ at = "fill" => committed = cursor \/ slot[committed] = "none"
    /\ at \in Between => inFlight = {}
    /\ at = "thrown" => Running = {}

\* A group with an exclusive call is that call alone.
ModesAreAligned ==
    /\ at \in InGroup => \A c \in base .. cursor - 1 : (mode[c] = "exclusive" => last = base)
    /\ at \in {"prepare", "fill"} /\ mode[base] = "exclusive" => last = base
    /\ at = "prepare" /\ mode[cursor] = "exclusive" => last = base
    /\ at = "fill" => base \in Calls
    /\ \A c \in Running : (mode[c] = "exclusive" => Running = {c})

PoolHasRoom ==
    /\ Cardinality(inFlight) <= MaxParallel
    /\ at = "prepare" => Cardinality(inFlight) < MaxParallel

\* A stop is seen before anything else is started.
StopsAreSeen ==
    /\ at = "fill" /\ signal => stopping
    /\ at \in Between \cup {"fill"} => ~failed
    /\ at \in {"drain", "thrown"} => failed

\* The inductive invariant.
Inv ==
    /\ TypeOK /\ CursorsInOrder /\ LogIsAligned /\ PoolIsAligned
    /\ ModesAreAligned /\ PoolHasRoom /\ StopsAreSeen

-----------------------------------------------------------------------------
(* The operators.                                                          *)

\* What startCall and the synthetic results append: the trace stays a trace, and
\* the call is pending (applyTransition).
LEMMA AppendCallEffect ==
  ASSUME TypeOK, NEW c \in Calls, AppendCall(c)
  PROVE  /\ trace' \in Log!Trace /\ trace'.openStep = trace.openStep
         /\ trace'.pending = trace.pending \cup {c}
         /\ logged' = logged \cup {c}
  <1>1. trace \in Log!Trace  BY DEF TypeOK
  <1>2. trace' = [trace EXCEPT !.pending = trace.pending \cup {c},
                   !.last = [type |-> "tool/call", turn |-> trace.openTurn,
                             step |-> trace.openStep]]
    BY <1>1 DEF AppendCall, Log!AfterToolCall, Log!Event, Log!Trace
  <1>3. trace'.openStep = trace.openStep /\ trace'.pending = trace.pending \cup {c}
    BY <1>1, <1>2 DEF Log!Trace
  <1>4. trace' \in Log!Trace
    BY <1>1, <1>2 DEF Log!Trace, Log!Types
  <1> QED  BY <1>3, <1>4 DEF AppendCall

\* What commitReady appends: the call is no longer pending.
LEMMA AppendResultEffect ==
  ASSUME TypeOK, NEW c \in Calls, AppendResult(c)
  PROVE  /\ trace' \in Log!Trace /\ trace'.openStep = trace.openStep
         /\ trace'.pending = trace.pending \ {c}
         /\ logged' = logged
  <1>1. trace \in Log!Trace  BY DEF TypeOK
  <1>2. trace' = [trace EXCEPT !.pending = trace.pending \ {c},
                   !.last = [type |-> "tool/result", turn |-> trace.openTurn,
                             step |-> trace.openStep]]
    BY <1>1 DEF AppendResult, Log!AfterToolResult, Log!Event, Log!Trace
  <1>3. trace'.openStep = trace.openStep /\ trace'.pending = trace.pending \ {c}
    BY <1>1, <1>2 DEF Log!Trace
  <1>4. trace' \in Log!Trace
    BY <1>1, <1>2 DEF Log!Trace, Log!Types
  <1> QED  BY <1>3, <1>4 DEF AppendResult

\* The pool is finite, and counts as its dispatches do.
LEMMA PoolIsFinite ==
  ASSUME NEW S \in SUBSET Calls
  PROVE  /\ IsFiniteSet(S) /\ Cardinality(S) \in Nat
         /\ \A c \in Calls : Cardinality(S \cup {c}) <= Cardinality(S) + 1
         /\ \A c \in Calls : Cardinality(S \ {c}) <= Cardinality(S)
         /\ \A T \in SUBSET S : Cardinality(T) <= Cardinality(S)
  <1>1. IsFiniteSet(Calls)
    BY FS_Interval, ConstantsAreValid DEF Calls
  <1>2. IsFiniteSet(S) /\ Cardinality(S) \in Nat
    BY <1>1, FS_Subset, FS_CardinalityType
  <1>3. ASSUME NEW c \in Calls
        PROVE  Cardinality(S \cup {c}) <= Cardinality(S) + 1
    <2>1. Cardinality(S \cup {c}) = IF c \in S THEN Cardinality(S) ELSE Cardinality(S) + 1
      BY <1>2, FS_AddElement
    <2> QED  BY <1>2, <2>1
  <1>4. ASSUME NEW T \in SUBSET S
        PROVE  Cardinality(T) <= Cardinality(S)
    BY <1>2, <1>4, FS_Subset
  <1>5. ASSUME NEW c \in Calls
        PROVE  Cardinality(S \ {c}) <= Cardinality(S)
    BY <1>4
  <1> QED  BY <1>2, <1>3, <1>4, <1>5

-----------------------------------------------------------------------------
(* Initially.                                                              *)

\* The assistant message of the first step opens a trace without calls.
LEMMA FirstTrace ==
  ASSUME Init
  PROVE  trace \in Log!Trace /\ trace.openStep = 1 /\ trace.pending = {}
  <1> DEFINE fresh == Log!FreshTrace(0)
  <1> DEFINE opened == Log!AfterTurnStart(fresh, 1)
  <1> DEFINE stepping == Log!AfterStepStart(opened, 1, 1)
  <1>1. trace = Log!AfterMessage(stepping, 1, 1)  BY DEF Init
  <1>2. fresh \in Log!Trace /\ fresh.pending = {}
    BY DEF Log!FreshTrace, Log!NoEvent, Log!None, Log!Trace, Log!Types
  <1> HIDE DEF fresh
  <1>3. opened \in Log!Trace /\ opened.pending = {}
    BY <1>2 DEF Log!AfterTurnStart, Log!Event, Log!None, Log!Trace, Log!Types
  <1> HIDE DEF opened
  <1>4. stepping \in Log!Trace /\ stepping.pending = {} /\ stepping.openStep = 1
    BY <1>3 DEF Log!AfterStepStart, Log!Event, Log!Trace, Log!Types
  <1> HIDE DEF stepping
  <1> QED  BY <1>1, <1>4 DEF Log!AfterMessage, Log!Event, Log!Trace, Log!Types

\* The invariant holds when the step begins.
LEMMA InvInit == Init => Inv
  <1> SUFFICES ASSUME Init PROVE Inv  OBVIOUS
  <1>1. Running = {}  BY DEF Init, Running
  <1>2. TypeOK
    <2>1. /\ base \in 1 .. N + 1 /\ last \in 0 .. N
          /\ cursor \in 1 .. N + 1 /\ committed \in 1 .. N + 1
      BY ConstantsAreValid DEF Init
    <2> QED  BY <2>1, FirstTrace DEF Init, TypeOK
  <1>3. CursorsInOrder /\ StopsAreSeen /\ ModesAreAligned
    BY <1>1 DEF Init, CursorsInOrder, StopsAreSeen, ModesAreAligned, InGroup
  <1>4. LogIsAligned
    <2>1. Recorded = {}  BY DEF Init, Recorded
    <2> QED  BY <2>1, FirstTrace DEF Init, LogIsAligned, InGroup
  <1>5. PoolIsAligned
    BY <1>1 DEF Init, PoolIsAligned, InGroup
  <1>6. PoolHasRoom
    BY FS_EmptySet, ConstantsAreValid DEF Init, PoolHasRoom
  <1> QED  BY <1>2, <1>3, <1>4, <1>5, <1>6 DEF Inv

-----------------------------------------------------------------------------
(* What the invariant says where an action is taken.                       *)

\* The cursors are numbers, and the calls of a group are calls of the step.
LEMMA CursorsAreNumbers ==
  ASSUME TypeOK
  PROVE  /\ base \in Nat /\ last \in Nat /\ cursor \in Nat /\ committed \in Nat
         /\ base >= 1 /\ last <= N /\ cursor >= 1 /\ cursor <= N + 1 /\ committed >= 1 /\ N \in Nat
  BY ConstantsAreValid DEF TypeOK

\* A result is appended only of a call that was started and is not answered.
LEMMA CommitIsDue ==
  ASSUME Inv, Commit
  PROVE  /\ at \in InGroup /\ at' = "commit"
         /\ committed \in Calls /\ committed < cursor /\ base <= committed
  <1>1. /\ at \in InGroup /\ at' = "commit" /\ base <= committed /\ committed <= cursor
        /\ cursor <= last + 1
    BY DEF Inv, Commit, CursorsInOrder, InGroup
  <1>2. committed < cursor
    <2>1. CASE at = "finalize"  BY <2>1 DEF Inv, CursorsInOrder
    <2>2. CASE Ready
      <3>1. committed \in Calls  BY <2>2, CursorsAreNumbers DEF Ready, Inv, Calls
      <3>2. ~(committed >= cursor)  BY <2>2, <3>1 DEF Ready, Inv, PoolIsAligned
      <3> QED  BY <3>2, CursorsAreNumbers DEF Inv
    <2> QED  BY <2>1, <2>2 DEF Commit
  <1> QED  BY <1>1, <1>2, CursorsAreNumbers DEF Inv, Calls

\* A pool that is empty when no further call may start has committed what it
\* started: the group can be left.
LEMMA EmptyPoolIsCommitted ==
  ASSUME Inv, at = "fill", inFlight = {}
  PROVE  committed = cursor
  <1> SUFFICES ASSUME committed # cursor PROVE FALSE  OBVIOUS
  <1>1. base <= committed /\ committed < cursor /\ committed \in Calls
    BY CursorsAreNumbers DEF Inv, CursorsInOrder, InGroup, Calls
  <1>2. slot[committed] = "none" /\ body[committed] # "running"
    BY <1>1 DEF Inv, PoolIsAligned, Running
  <1>3. committed \in base .. cursor - 1  BY <1>1, CursorsAreNumbers DEF Inv
  <1> QED  BY <1>2, <1>3 DEF Inv, PoolIsAligned, StopsAreSeen, InGroup, Between

\* The body that is started runs in a pool that is empty, or shares it with
\* calls that are all parallel.
LEMMA StartKeepsBarriers ==
  ASSUME Inv, at = "prepare"
  PROVE  /\ cursor \in Calls /\ cursor \notin inFlight
         /\ mode[cursor] = "exclusive" => inFlight = {}
         /\ \A c \in Running : mode[c] # "exclusive"
  <1>1. /\ cursor <= last /\ base <= cursor /\ inFlight \subseteq base .. cursor - 1
        /\ Running \subseteq base .. cursor - 1
    BY CursorsAreNumbers DEF Inv, CursorsInOrder, PoolIsAligned, InGroup
  <1>2. ASSUME last = base PROVE inFlight = {} /\ Running = {}
    BY <1>1, <1>2, CursorsAreNumbers DEF Inv
  <1>3. mode[cursor] = "exclusive" => inFlight = {}
    BY <1>2 DEF Inv, ModesAreAligned
  <1>4. ASSUME NEW c \in Running PROVE mode[c] # "exclusive"
    BY <1>1, <1>2 DEF Inv, ModesAreAligned, InGroup
  <1> QED  BY <1>1, <1>3, <1>4, CursorsAreNumbers DEF Inv, Calls

-----------------------------------------------------------------------------
(* Every step keeps the invariant, conjunct by conjunct.                   *)

\* Types are kept.
LEMMA TypeStep == Inv /\ [Next]_vars => TypeOK'
  <1> SUFFICES ASSUME Inv, [Next]_vars PROVE TypeOK'  OBVIOUS
  <1> USE DEF group, pool, log
  <1>0. TypeOK  BY DEF Inv
  <1>1. CASE Abort  BY <1>0, <1>1 DEF Abort, TypeOK
  <1>2. ASSUME NEW c \in Calls, Settle(c) \/ DispatchFails(c) PROVE TypeOK'
    <2>1. CASE Settle(c)  BY <1>0, <2>1 DEF Settle, TypeOK
    <2>2. CASE DispatchFails(c)  BY <1>0, <2>2 DEF DispatchFails, TypeOK
    <2> QED  BY <1>2, <2>1, <2>2
  <1>3. CASE NextGroup
    BY <1>0, <1>3, CursorsAreNumbers DEF NextGroup, TypeOK, Calls
  <1>4. CASE Finish \/ Full \/ PrepareThrows \/ Finalize \/ FinalizeThrows \/ Throw \/ SkippedAll
    BY <1>0, <1>4
       DEF Finish, Full, Rest, PrepareThrows, Finalize, FinalizeThrows, Throw, SkippedAll, TypeOK
  <1>5. CASE Start
    <2>1. cursor \in Calls  BY <1>0, <1>5, CursorsAreNumbers DEF Start, MayStart, Calls
    <2> QED  BY <1>0, <1>5, <2>1, AppendCallEffect DEF Start, TypeOK
  <1>6. CASE Prepared
    <2>1. cursor \in Calls /\ cursor + 1 \in 1 .. N + 1
      BY <1>6, StartKeepsBarriers, CursorsAreNumbers DEF Prepared, Inv, Calls
    <2> QED  BY <1>0, <1>6, <2>1 DEF Prepared, Dispatches, Decides, TypeOK
  <1>7. CASE Commit
    <2>1. committed \in Calls /\ committed + 1 \in 1 .. N + 1
      BY <1>7, CommitIsDue, CursorsAreNumbers DEF Inv, Calls
    <2> QED  BY <1>0, <1>7, <2>1, AppendResultEffect DEF Commit, TypeOK
  <1>8. CASE Committed  BY <1>0, <1>8 DEF Committed, Stops, TypeOK
  <1>9. CASE Race \/ Leave  BY <1>0, <1>9 DEF Race, Leave, TypeOK
  <1>10. CASE SkipCall  BY <1>0, <1>10, AppendCallEffect DEF SkipCall, TypeOK
  <1>11. CASE SkipResult
    <2>1. cursor \in Calls /\ cursor + 1 \in 1 .. N + 1
      BY <1>11, CursorsAreNumbers DEF SkipResult, Inv, CursorsInOrder, Calls
    <2> QED  BY <1>0, <1>11, <2>1, AppendResultEffect DEF SkipResult, TypeOK
  <1>12. CASE UNCHANGED vars  BY <1>0, <1>12 DEF vars, TypeOK
  <1> QED  BY <1>1, <1>2, <1>3, <1>4, <1>5, <1>6, <1>7, <1>8, <1>9, <1>10, <1>11, <1>12
           DEF Next, Bodies, Scheduler

\* No cursor overtakes another.
LEMMA CursorsStep == Inv /\ [Next]_vars => CursorsInOrder'
  <1> SUFFICES ASSUME Inv, [Next]_vars PROVE CursorsInOrder'  OBVIOUS
  <1> USE CursorsAreNumbers DEF group, pool, log
  <1>0. TypeOK /\ CursorsInOrder  BY DEF Inv
  <1>1. CASE Abort \/ Bodies \/ UNCHANGED vars
    BY <1>0, <1>1 DEF Abort, Bodies, Settle, DispatchFails, vars, CursorsInOrder
  <1>2. CASE NextGroup
    BY <1>0, <1>2 DEF NextGroup, Calls, CursorsInOrder, InGroup
  <1>3. CASE Finish \/ Full \/ PrepareThrows \/ Finalize \/ FinalizeThrows \/ Throw \/ SkippedAll
    <2>1. Finalize => committed < cursor
      <3>1. ASSUME Finalize PROVE ~(committed >= cursor) \/ committed \notin Calls
        BY <3>1 DEF Finalize, Ready, Inv, PoolIsAligned
      <3> QED  BY <1>0, <3>1 DEF Finalize, Ready, Calls
    <2>2. Full => at' = "leave" \/ base < cursor
      <3> SUFFICES ASSUME Full, inFlight # {} PROVE base < cursor
        BY DEF Full, Rest
      <3>1. inFlight \subseteq base .. cursor - 1
        BY DEF Inv, PoolIsAligned, Full, InGroup
      <3>2. PICK c : c \in inFlight  OBVIOUS
      <3>3. base \in Nat /\ cursor \in Nat  BY <1>0
      <3> QED  BY <3>1, <3>2, <3>3
    <2> QED  BY <1>0, <1>3, <2>1, <2>2
          DEF Finish, Full, Rest, PrepareThrows, Finalize, FinalizeThrows, Throw, SkippedAll,
              CursorsInOrder, InGroup
  <1>4. CASE Start  BY <1>0, <1>4 DEF Start, MayStart, CursorsInOrder, InGroup
  <1>5. CASE Prepared  BY <1>0, <1>5 DEF Prepared, CursorsInOrder, InGroup
  <1>6. CASE Commit
    BY <1>0, <1>6, CommitIsDue DEF Commit, CursorsInOrder
  <1>7. CASE Committed \/ Race  BY <1>0, <1>7 DEF Committed, Race, CursorsInOrder, InGroup
  <1>8. CASE Leave \/ SkipCall \/ SkipResult
    BY <1>0, <1>8 DEF Leave, SkipCall, SkipResult, Calls, CursorsInOrder, InGroup
  <1> QED  BY <1>1, <1>2, <1>3, <1>4, <1>5, <1>6, <1>7, <1>8 DEF Next, Scheduler

\* Each move of the scheduler writes the events its new place stands for.
LEMMA LogStep == Inv /\ [Next]_vars => LogIsAligned'
  <1> SUFFICES ASSUME Inv, [Next]_vars PROVE LogIsAligned'  OBVIOUS
  <1> USE DEF group, pool, log
  <1>0. TypeOK /\ CursorsInOrder /\ LogIsAligned  BY DEF Inv
  <1>1. CASE Abort \/ Bodies \/ UNCHANGED vars
    BY <1>0, <1>1 DEF Abort, Bodies, Settle, DispatchFails, vars, LogIsAligned, Recorded
  <1>2. CASE NextGroup
    <2>1. logged = 1 .. cursor - 1 /\ trace.pending = {} /\ trace.openStep = 1
      BY <1>0, <1>2 DEF NextGroup, LogIsAligned, Recorded, Between
    <2>2. /\ at' = "fill" /\ logged' = logged /\ trace' = trace /\ Recorded' = 1 .. cursor - 1
          /\ committed' = cursor
      BY <1>2 DEF NextGroup, Recorded
    <2> QED  BY <2>1, <2>2 DEF LogIsAligned
  <1>3. CASE Finish \/ PrepareThrows \/ Finalize \/ FinalizeThrows \/ Throw \/ SkippedAll
    BY <1>0, <1>3 DEF Finish, PrepareThrows, Finalize, FinalizeThrows, Throw, SkippedAll,
                      LogIsAligned, Recorded, InGroup, Between
  <1>4. CASE Full
    <2>1. /\ UNCHANGED <<cursor, committed, logged, trace>> /\ at = "fill" /\ at' \in {"leave", "race"}
          /\ Recorded' = Recorded
      BY <1>4 DEF Full, Rest, Recorded
    <2>2. at' = "leave" => trace.pending = {}
      <3> SUFFICES ASSUME at' = "leave" PROVE trace.pending = {}  OBVIOUS
      <3>1. committed = cursor  BY <1>4, <2>1, EmptyPoolIsCommitted DEF Full, Rest
      <3> QED  BY <1>0, <2>1, <3>1 DEF LogIsAligned, Recorded, InGroup
    <2> QED  BY <1>0, <2>1, <2>2 DEF LogIsAligned, InGroup, Between
  <1>5. CASE Start
    <2>1. cursor \in Calls  BY <1>0, <1>5, CursorsAreNumbers DEF Start, MayStart, Calls
    <2>2. /\ trace'.openStep = 1 /\ trace'.pending = trace.pending \cup {cursor}
          /\ logged' = logged \cup {cursor}
      BY <1>0, <1>5, <2>1, AppendCallEffect DEF Start, LogIsAligned
    <2>3. /\ at = "fill" /\ at' = "prepare" /\ UNCHANGED <<cursor, committed>>
          /\ Recorded = 1 .. cursor - 1 /\ Recorded' = 1 .. cursor
      BY <1>5 DEF Start, Recorded
    <2>4. /\ 1 .. cursor = (1 .. cursor - 1) \cup {cursor}
          /\ cursor \notin 1 .. committed - 1
      BY <1>0, <2>3, CursorsAreNumbers DEF CursorsInOrder, InGroup
    <2> QED  BY <1>0, <2>2, <2>3, <2>4 DEF LogIsAligned, InGroup
  <1>6. CASE Prepared
    <2>1. /\ at = "prepare" /\ at' = "commit" /\ UNCHANGED <<committed, logged, trace>>
          /\ Recorded' = Recorded
      BY <1>0, <1>6, CursorsAreNumbers DEF Prepared, Recorded
    <2> QED  BY <1>0, <2>1 DEF LogIsAligned, InGroup
  <1>7. CASE Commit
    <2>1. /\ trace'.openStep = 1 /\ trace'.pending = trace.pending \ {committed}
          /\ logged' = logged
      BY <1>0, <1>7, CommitIsDue, AppendResultEffect DEF Commit, LogIsAligned
    <2>2. /\ at \in InGroup /\ at' = "commit" /\ committed' = committed + 1
          /\ Recorded' = Recorded
      BY <1>7, CommitIsDue DEF Commit, Recorded
    <2>3. 1 .. committed' - 1 = (1 .. committed - 1) \cup {committed}
      BY <1>0, <2>2, CursorsAreNumbers
    <2> QED  BY <1>0, <2>1, <2>2, <2>3 DEF LogIsAligned
  <1>8. CASE Committed \/ Race
    <2>1. /\ at \in InGroup /\ at' \in {"fill", "drain", "commit"}
          /\ UNCHANGED <<committed, logged, trace>> /\ Recorded' = Recorded
      BY <1>8 DEF Committed, Race, Recorded, InGroup
    <2> QED  BY <1>0, <2>1 DEF LogIsAligned, InGroup, Between
  <1>9. CASE Leave
    BY <1>0, <1>9 DEF Leave, LogIsAligned, Recorded, InGroup, Between
  <1>10. CASE SkipCall
    <2>1. /\ trace'.openStep = 1 /\ trace'.pending = trace.pending \cup {cursor}
          /\ logged' = logged \cup {cursor}
      BY <1>0, <1>10, AppendCallEffect DEF SkipCall, LogIsAligned
    <2>2. /\ at = "skip" /\ at' = "skipped" /\ UNCHANGED cursor
          /\ Recorded = 1 .. cursor - 1 /\ Recorded' = 1 .. cursor
      BY <1>10 DEF SkipCall, Recorded
    <2>3. 1 .. cursor = (1 .. cursor - 1) \cup {cursor}  BY <1>0, CursorsAreNumbers
    <2> QED  BY <1>0, <2>1, <2>2, <2>3 DEF LogIsAligned, InGroup, Between
  <1>11. CASE SkipResult
    <2>1. cursor \in Calls
      BY <1>0, <1>11, CursorsAreNumbers DEF SkipResult, CursorsInOrder, Calls
    <2>2. /\ trace'.openStep = 1 /\ trace'.pending = trace.pending \ {cursor}
          /\ logged' = logged
      BY <1>0, <1>11, <2>1, AppendResultEffect DEF SkipResult, LogIsAligned
    <2>3. at = "skipped" /\ at' = "skip" /\ Recorded' = Recorded
      BY <1>0, <1>11, CursorsAreNumbers DEF SkipResult, Recorded
    <2> QED  BY <1>0, <2>2, <2>3 DEF LogIsAligned, InGroup, Between
  <1> QED  BY <1>1, <1>2, <1>3, <1>4, <1>5, <1>6, <1>7, <1>8, <1>9, <1>10, <1>11
           DEF Next, Scheduler

\* The conjuncts of PoolIsAligned one by one are what each action disturbs:
\* starting and settling a call, taking a dispatch out, and entering the loop.
LEMMA PoolStep == Inv /\ [Next]_vars => PoolIsAligned'
  <1> SUFFICES ASSUME Inv, [Next]_vars PROVE PoolIsAligned'  OBVIOUS
  <1> USE DEF group, pool, log
  <1>0. TypeOK /\ CursorsInOrder /\ PoolIsAligned /\ StopsAreSeen  BY DEF Inv
  <1>n. /\ base \in Nat /\ last \in Nat /\ cursor \in Nat /\ committed \in Nat
        /\ base >= 1 /\ cursor >= 1 /\ cursor <= N + 1 /\ N \in Nat
    BY <1>0, CursorsAreNumbers
  <1>1. CASE Abort \/ UNCHANGED vars
    <2>1. /\ UNCHANGED <<at, base, cursor, committed, body, slot, inFlight, failed>>
          /\ Running' = Running
      BY <1>1 DEF Abort, vars, Running
    <2> QED  BY <1>0, <2>1 DEF PoolIsAligned
  <1>2. ASSUME NEW c \in Calls, Settle(c) \/ DispatchFails(c) PROVE PoolIsAligned'
    <2>1. /\ UNCHANGED <<at, base, cursor, committed, inFlight>> /\ at # "fill"
          /\ body[c] = "running" /\ body' = [body EXCEPT ![c] = "settled"]
          /\ \A d \in Calls \ {c} : slot'[d] = slot[d]
          /\ failed' \/ slot'[c] # "none"
          /\ failed => failed'
      BY <1>0, <1>2 DEF Settle, DispatchFails, Waits, TypeOK
    <2>2. c \in inFlight /\ c \in 1 .. cursor - 1
      BY <1>0, <2>1 DEF PoolIsAligned, Running
    <2>3. Running' \subseteq Running
      BY <1>0, <2>1 DEF Running, TypeOK
    <2>4. \A d \in Calls : d >= cursor => body'[d] = "none" /\ slot'[d] = "none"
      BY <1>0, <1>n, <2>1, <2>2 DEF PoolIsAligned, TypeOK
    <2>5. at \in InGroup => \A d \in base .. cursor - 1 :
              (body'[d] # "running" /\ slot'[d] = "none" => failed')
      <3> SUFFICES ASSUME at \in InGroup, NEW d \in base .. cursor - 1,
                          body'[d] # "running", slot'[d] = "none"
                   PROVE  failed'
        OBVIOUS
      <3>1. d \in Calls  BY <1>n DEF Calls
      <3>2. CASE d = c  BY <2>1, <3>2
      <3>3. CASE d # c
        <4>1. body'[d] = body[d] /\ slot'[d] = slot[d]
          BY <1>0, <2>1, <3>1, <3>3 DEF TypeOK
        <4> QED  BY <1>0, <2>1, <4>1 DEF PoolIsAligned
      <3> QED  BY <3>2, <3>3
    <2> QED  BY <1>0, <2>1, <2>2, <2>3, <2>4, <2>5 DEF PoolIsAligned
  <1>3. CASE NextGroup
    <2>1. /\ at = "group" /\ at' = "fill" /\ base' = cursor /\ committed' = cursor
          /\ UNCHANGED <<cursor, body, slot, inFlight>>
      BY <1>3 DEF NextGroup
    <2>2. inFlight = {} /\ Running' = {}
      BY <1>0, <2>1 DEF PoolIsAligned, Between, Running
    <2>3. base' .. cursor' - 1 = {}  BY <1>n, <2>1
    <2> QED  BY <1>0, <2>1, <2>2, <2>3 DEF PoolIsAligned, Between
  <1>4. CASE Finish \/ Full \/ Start \/ PrepareThrows \/ Finalize \/ FinalizeThrows \/ Throw
             \/ Committed \/ Leave \/ SkipCall \/ SkippedAll
    <2>1. UNCHANGED <<base, cursor, committed, body, slot, inFlight>> /\ Running' = Running
      BY <1>4 DEF Finish, Full, Start, PrepareThrows, Finalize, FinalizeThrows, Throw,
                  Committed, Leave, SkipCall, SkippedAll, Running
    <2>2. at' \in InGroup => at \in InGroup /\ failed' = failed
      BY <1>4 DEF Finish, Full, Rest, Start, PrepareThrows, Finalize, FinalizeThrows, Throw,
                  Committed, Leave, SkipCall, SkippedAll, InGroup
    <2>3. at' \in Between => inFlight = {}
      BY <1>0, <1>4
         DEF Finish, Full, Rest, Start, PrepareThrows, Finalize, FinalizeThrows, Throw,
             Committed, Leave, SkipCall, SkippedAll, PoolIsAligned, Between
    <2>4. at' = "fill" => committed = cursor \/ slot[committed] = "none"
      <3> SUFFICES ASSUME at' = "fill" PROVE committed = cursor \/ slot[committed] = "none"
        OBVIOUS
      <3>1. at = "commit" /\ ~Ready
        BY <1>4 DEF Finish, Full, Rest, Start, PrepareThrows, Finalize, FinalizeThrows, Throw,
                    Committed, Leave, SkipCall, SkippedAll
      <3> QED  BY <1>0, <1>n, <3>1 DEF Ready, CursorsInOrder, InGroup
    <2>5. at' = "thrown" => Running = {}
      <3> SUFFICES ASSUME at' = "thrown" PROVE Running = {}  OBVIOUS
      <3>1. Drained
        BY <1>4 DEF Finish, Full, Rest, Start, PrepareThrows, Finalize, FinalizeThrows, Throw,
                    Committed, Leave, SkipCall, SkippedAll
      <3> QED  BY <1>0, <3>1 DEF Drained, PoolIsAligned, Running
    <2> QED  BY <1>0, <2>1, <2>2, <2>3, <2>4, <2>5 DEF PoolIsAligned
  <1>5. CASE Prepared
    <2>1. /\ at = "prepare" /\ at' = "commit" /\ cursor' = cursor + 1
          /\ UNCHANGED <<base, committed, failed>> /\ (Dispatches \/ Decides)
      BY <1>5 DEF Prepared
    <2>2. cursor \in Calls /\ base <= cursor
      BY <1>0, <1>n, <2>1, StartKeepsBarriers DEF CursorsInOrder, InGroup
    <2>3. /\ \A d \in Calls \ {cursor} : body'[d] = body[d] /\ slot'[d] = slot[d]
          /\ body'[cursor] = "running" \/ slot'[cursor] # "none"
          /\ Running' \subseteq inFlight'
          /\ inFlight \subseteq inFlight' /\ inFlight' \subseteq inFlight \cup {cursor}
      <3>1. CASE Dispatches
        BY <1>0, <2>2, <3>1 DEF Dispatches, TypeOK, Running, PoolIsAligned
      <3>2. CASE Decides
        BY <1>0, <2>2, <3>2 DEF Decides, TypeOK, Running, PoolIsAligned
      <3> QED  BY <2>1, <3>1, <3>2
    <2>4. \A d \in Calls : d >= cursor' => d >= cursor /\ d # cursor
      BY <1>n, <2>1 DEF Calls
    <2>5. inFlight' \subseteq base' .. cursor' - 1 /\ inFlight' \subseteq 1 .. cursor' - 1
      <3>1. inFlight \subseteq base .. cursor - 1
        BY <1>0, <2>1 DEF PoolIsAligned, InGroup
      <3> QED  BY <1>n, <2>1, <2>2, <2>3, <3>1
    <2>6. \A d \in base .. cursor : (body'[d] # "running" /\ slot'[d] = "none" => failed)
      <3> SUFFICES ASSUME NEW d \in base .. cursor, body'[d] # "running", slot'[d] = "none"
                   PROVE  failed
        OBVIOUS
      <3>1. d # cursor  BY <2>3
      <3>2. d \in base .. cursor - 1 /\ d \in Calls
        <4>1. d \in Nat /\ base <= d /\ d <= cursor /\ cursor <= N
          BY <1>n, <2>2 DEF Calls
        <4> QED  BY <1>n, <3>1, <4>1 DEF Calls
      <3> QED  BY <1>0, <2>1, <2>3, <3>1, <3>2 DEF PoolIsAligned, InGroup
    <2>7. base' .. cursor' - 1 = base .. cursor  BY <1>n, <2>1
    <2> QED  BY <1>0, <2>1, <2>3, <2>4, <2>5, <2>6, <2>7 DEF PoolIsAligned, Between
  <1>6. CASE Commit \/ SkipResult
    <2>1. /\ UNCHANGED <<base, body, slot, inFlight, failed>> /\ Running' = Running
          /\ at' \in {"commit", "skip"}
      BY <1>6 DEF Commit, SkipResult, Running
    <2>2. CASE Commit
      <3>1. at \in InGroup /\ at' = "commit" /\ cursor' = cursor
        BY <2>2, CommitIsDue DEF Commit
      <3> QED  BY <1>0, <2>1, <3>1 DEF PoolIsAligned, Between
    <2>3. CASE SkipResult
      <3>1. at = "skipped" /\ at' = "skip" /\ cursor' = cursor + 1 /\ inFlight = {}
        BY <1>0, <2>3 DEF SkipResult, PoolIsAligned, Between
      <3> QED  BY <1>0, <1>n, <2>1, <3>1 DEF PoolIsAligned, InGroup, Calls
    <2> QED  BY <1>6, <2>2, <2>3
  <1>7. CASE Race
    <2>1. PICK c \in inFlight : body[c] = "settled" /\ inFlight' = inFlight \ {c}
      BY <1>7 DEF Race
    <2>2. /\ at = "race" /\ at' \in {"drain", "commit"} /\ Running' = Running
          /\ UNCHANGED <<base, cursor, committed, body, slot, failed>>
      BY <1>7 DEF Race, Running
    <2>3. c \notin Running  BY <2>1 DEF Running
    <2> QED  BY <1>0, <2>1, <2>2, <2>3 DEF PoolIsAligned, InGroup, Between
  <1> QED  BY <1>1, <1>2, <1>3, <1>4, <1>5, <1>6, <1>7 DEF Next, Bodies, Scheduler

\* A group is formed, and filled, so that an exclusive call runs by itself.
LEMMA ModesStep == Inv /\ [Next]_vars => ModesAreAligned'
  <1> SUFFICES ASSUME Inv, [Next]_vars PROVE ModesAreAligned'  OBVIOUS
  <1> USE DEF group, pool, log
  <1>0. TypeOK /\ CursorsInOrder /\ PoolIsAligned /\ ModesAreAligned  BY DEF Inv
  <1>n. /\ base \in Nat /\ last \in Nat /\ cursor \in Nat /\ base >= 1 /\ cursor <= N + 1
        /\ N \in Nat /\ last <= N
    BY <1>0, CursorsAreNumbers
  <1>1. CASE Abort \/ UNCHANGED vars
    <2>1. UNCHANGED <<at, base, last, cursor, mode>> /\ Running' = Running
      BY <1>1 DEF Abort, vars, Running
    <2> QED  BY <1>0, <2>1 DEF ModesAreAligned
  <1>2. ASSUME NEW c \in Calls, Settle(c) \/ DispatchFails(c) PROVE ModesAreAligned'
    <2>1. UNCHANGED <<at, base, last, cursor, mode>> /\ Running' = Running \ {c}
      BY <1>0, <1>2 DEF Settle, DispatchFails, Running, TypeOK
    <2> QED  BY <1>0, <2>1 DEF ModesAreAligned
  <1>3. CASE NextGroup
    <2>1. /\ at = "group" /\ at' = "fill" /\ base' = cursor /\ cursor' = cursor
          /\ cursor \in Calls /\ UNCHANGED <<body, inFlight>>
      BY <1>3 DEF NextGroup
    <2>2. mode'[cursor] = "exclusive" => last' = cursor
      BY <1>0, <1>3, <2>1 DEF NextGroup, TypeOK
    <2>3. Running' = {}
      BY <1>0, <2>1 DEF PoolIsAligned, Between, Running
    <2>4. base' .. cursor' - 1 = {}  BY <1>n, <2>1
    <2> QED  BY <2>1, <2>2, <2>3, <2>4 DEF ModesAreAligned
  <1>4. CASE Start
    <2>1. /\ at = "fill" /\ at' = "prepare" /\ cursor \in Calls /\ base \in Calls
          /\ UNCHANGED <<base, last, cursor, body>> /\ Running' = Running
      <3>1. /\ at = "fill" /\ at' = "prepare" /\ cursor <= last
            /\ UNCHANGED <<base, last, cursor, body>>
        BY <1>4 DEF Start, MayStart
      <3> QED  BY <1>0, <1>n, <3>1, CursorsAreNumbers DEF Calls, ModesAreAligned, Running
    <2>2. PICK m \in {"parallel", "exclusive"} :
              Reads(m) /\ Joins(m) /\ mode' = [mode EXCEPT ![cursor] = m]
      BY <1>4 DEF Start
    <2>3. \A c \in Calls \ {cursor} : mode'[c] = mode[c]
      BY <1>0, <2>2 DEF TypeOK
    <2>4. m = "exclusive" => last = base
      BY <1>0, <2>1, <2>2 DEF Reads, Joins, ModesAreAligned
    <2>5. mode'[cursor] = m  BY <1>0, <2>1, <2>2 DEF TypeOK
    <2>6. Running \subseteq Calls \ {cursor} /\ base .. cursor - 1 \subseteq Calls \ {cursor}
      BY <1>0, <1>n, <2>1 DEF PoolIsAligned, Calls
    <2>7. mode'[base] = "exclusive" => last = base
      BY <1>0, <2>1, <2>3, <2>4, <2>5 DEF ModesAreAligned
    <2>8. \A c \in base .. cursor - 1 : (mode'[c] = "exclusive" => last = base)
      BY <1>0, <2>1, <2>3, <2>6 DEF ModesAreAligned, InGroup
    <2>9. \A c \in Running : (mode'[c] = "exclusive" => Running = {c})
      BY <1>0, <2>3, <2>6 DEF ModesAreAligned
    <2> QED  BY <2>1, <2>4, <2>5, <2>7, <2>8, <2>9 DEF ModesAreAligned
  <1>5. CASE Prepared
    <2>1. /\ at = "prepare" /\ at' = "commit" /\ cursor' = cursor + 1
          /\ UNCHANGED <<base, last, mode>> /\ (Dispatches \/ Decides)
      BY <1>5 DEF Prepared
    <2>2. /\ cursor \in Calls /\ mode[cursor] = "exclusive" => inFlight = {}
          /\ \A c \in Running : mode[c] # "exclusive"
      BY <2>1, StartKeepsBarriers
    <2>3. Running' \subseteq Running \cup {cursor}
      <3>1. cursor \in Calls  BY <2>1, StartKeepsBarriers
      <3> QED  BY <1>0, <2>1, <3>1 DEF Dispatches, Decides, Running, TypeOK
    <2>4. \A c \in Running' : (mode[c] = "exclusive" => Running' = {c})
      <3> SUFFICES ASSUME NEW c \in Running', mode[c] = "exclusive" PROVE Running' = {c}
        OBVIOUS
      <3>1. c = cursor  BY <2>2, <2>3
      <3>2. inFlight = {}  BY <3>1, <2>1, StartKeepsBarriers
      <3>3. Running = {}  BY <1>0, <3>2 DEF PoolIsAligned
      <3> QED  BY <2>3, <3>1, <3>3
    <2>5. \A c \in base .. cursor : (mode[c] = "exclusive" => last = base)
      <3> SUFFICES ASSUME NEW c \in base .. cursor, mode[c] = "exclusive" PROVE last = base
        OBVIOUS
      <3>1. c = cursor \/ c \in base .. cursor - 1  BY <1>n
      <3> QED  BY <1>0, <2>1, <3>1 DEF ModesAreAligned, InGroup
    <2>6. base' .. cursor' - 1 = base .. cursor  BY <1>n, <2>1
    <2> QED  BY <2>1, <2>4, <2>5, <2>6 DEF ModesAreAligned
  <1>6. CASE SkipResult
    <2>1. at' = "skip" /\ UNCHANGED mode /\ Running' = Running
      BY <1>6 DEF SkipResult, Running
    <2> QED  BY <1>0, <2>1 DEF ModesAreAligned, InGroup
  <1>7. CASE \/ Finish \/ Full \/ PrepareThrows \/ Finalize \/ Commit \/ FinalizeThrows
             \/ Committed \/ Race \/ Throw \/ Leave \/ SkipCall \/ SkippedAll
    <2> USE DEF Finish, Full, Rest, PrepareThrows, Finalize, Commit, FinalizeThrows, Committed,
                Race, Throw, Leave, SkipCall, SkippedAll
    <2>1. UNCHANGED <<base, last, cursor, mode, body>>  BY <1>7
    <2>2. Running' = Running  BY <2>1 DEF Running
    <2>3. at' # "prepare" /\ (at' \in InGroup => at \in InGroup)
      BY <1>7 DEF InGroup
    <2>4. at' = "fill" => base \in Calls /\ (mode[base] = "exclusive" => last = base)
      <3> SUFFICES ASSUME at' = "fill"
                   PROVE  base \in Calls /\ (mode[base] = "exclusive" => last = base)
        OBVIOUS
      <3>1. at = "commit" /\ ~Ready  BY <1>7
      <3>2. base < cursor  BY <1>0, <3>1 DEF CursorsInOrder
      <3>3. base \in base .. cursor - 1 /\ base \in Calls  BY <1>n, <3>2 DEF Calls
      <3> QED  BY <1>0, <3>1, <3>3 DEF ModesAreAligned, InGroup
    <2> HIDE DEF Finish, Full, PrepareThrows, Finalize, Commit, FinalizeThrows, Committed,
                 Race, Throw, Leave, SkipCall, SkippedAll
    <2> QED  BY <1>0, <2>1, <2>2, <2>3, <2>4 DEF ModesAreAligned
  <1> QED  BY <1>1, <1>2, <1>3, <1>4, <1>5, <1>6, <1>7 DEF Next, Bodies, Scheduler

\* A call is admitted only while the pool has room for it.
LEMMA RoomStep == Inv /\ [Next]_vars => PoolHasRoom'
  <1> SUFFICES ASSUME Inv, [Next]_vars PROVE PoolHasRoom'  OBVIOUS
  <1> USE DEF group, pool, log
  <1>0. TypeOK /\ PoolHasRoom  BY DEF Inv
  <1>1. /\ inFlight \in SUBSET Calls /\ Cardinality(inFlight) \in Nat
        /\ MaxParallel \in Nat
    BY <1>0, PoolIsFinite, ConstantsAreValid DEF TypeOK
  <1>2. CASE Prepared
    <2>1. at = "prepare" /\ at' = "commit" /\ cursor \in Calls
      BY <1>2, StartKeepsBarriers DEF Prepared
    <2>2. inFlight' = inFlight \/ inFlight' = inFlight \cup {cursor}
      BY <1>2 DEF Prepared, Dispatches, Decides
    <2>3. Cardinality(inFlight \cup {cursor}) <= Cardinality(inFlight) + 1
      BY <1>1, <2>1, PoolIsFinite
    <2>4. Cardinality(inFlight \cup {cursor}) \in Nat
      <3>1. inFlight \cup {cursor} \in SUBSET Calls  BY <1>1, <2>1
      <3> QED  BY <3>1, PoolIsFinite
    <2>5. Cardinality(inFlight) < MaxParallel  BY <1>0, <2>1 DEF PoolHasRoom
    <2>6. Cardinality(inFlight') <= MaxParallel
      <3>1. CASE inFlight' = inFlight  BY <1>1, <2>5, <3>1
      <3>2. CASE inFlight' = inFlight \cup {cursor}
        BY <1>1, <2>3, <2>4, <2>5, <3>2
      <3> QED  BY <2>2, <3>1, <3>2
    <2> QED  BY <2>1, <2>6 DEF PoolHasRoom
  <1>3. CASE Race
    <2>1. PICK c \in inFlight : inFlight' = inFlight \ {c}  BY <1>3 DEF Race
    <2>2. at' # "prepare"  BY <1>3 DEF Race
    <2>3. Cardinality(inFlight') <= Cardinality(inFlight) /\ Cardinality(inFlight') \in Nat
      BY <1>1, <2>1, PoolIsFinite
    <2> QED  BY <1>0, <1>1, <2>2, <2>3 DEF PoolHasRoom
  <1>4. CASE Start
    BY <1>0, <1>4 DEF Start, MayStart, HasRoom, PoolHasRoom
  <1>5. CASE \/ Finish \/ NextGroup \/ Full \/ PrepareThrows \/ Finalize \/ Commit
             \/ FinalizeThrows \/ Committed \/ Throw \/ Leave \/ SkipCall \/ SkipResult
             \/ SkippedAll
    <2>1. UNCHANGED inFlight /\ at' # "prepare"
      BY <1>5 DEF Finish, NextGroup, Full, Rest, PrepareThrows, Finalize, Commit,
         FinalizeThrows, Committed, Throw, Leave, SkipCall, SkipResult, SkippedAll
    <2> QED  BY <1>0, <2>1 DEF PoolHasRoom
  <1>6. CASE Abort \/ Bodies \/ UNCHANGED vars
    <2>1. UNCHANGED <<inFlight, at>>
      BY <1>6 DEF Abort, Bodies, Settle, DispatchFails, vars
    <2> QED  BY <1>0, <2>1 DEF PoolHasRoom
  <1> QED  BY <1>2, <1>3, <1>4, <1>5, <1>6 DEF Next, Scheduler

\* A stop, once there, is seen before the pool is filled again.
LEMMA StopsStep == Inv /\ [Next]_vars => StopsAreSeen'
  <1> SUFFICES ASSUME Inv, [Next]_vars PROVE StopsAreSeen'  OBVIOUS
  <1> USE DEF group, pool, log
  <1>0. TypeOK /\ StopsAreSeen /\ PoolIsAligned  BY DEF Inv
  <1>1. CASE Abort \/ UNCHANGED vars
    BY <1>0, <1>1 DEF Abort, Waits, vars, StopsAreSeen
  <1>2. ASSUME NEW c \in Calls, Settle(c) PROVE StopsAreSeen'
    BY <1>0, <1>2 DEF Settle, StopsAreSeen
  <1>3. ASSUME NEW c \in Calls, DispatchFails(c) PROVE StopsAreSeen'
    \* a running body means that the scheduler is within a group
    <2>1. c \in inFlight  BY <1>0, <1>3 DEF DispatchFails, PoolIsAligned, Running
    <2>2. at \notin Between \cup {"fill"}
      BY <1>0, <1>3, <2>1 DEF DispatchFails, Waits, PoolIsAligned
    <2> QED  BY <1>3, <2>2 DEF DispatchFails, StopsAreSeen, Between
  <1>4. CASE NextGroup \/ Finish \/ Start \/ Full \/ Leave \/ SkipCall \/ SkipResult \/ SkippedAll
    BY <1>0, <1>4 DEF NextGroup, Finish, Start, Full, Rest, Leave, SkipCall, SkipResult,
                      SkippedAll, StopsAreSeen, Between
  <1>5. CASE Prepared \/ PrepareThrows \/ Finalize \/ Commit \/ FinalizeThrows
    BY <1>0, <1>5 DEF Prepared, PrepareThrows, Finalize, Commit, FinalizeThrows,
                      StopsAreSeen, Between
  <1>6. CASE Committed \/ Race \/ Throw
    BY <1>0, <1>6 DEF Committed, Stops, Race, Throw, StopsAreSeen, Between, TypeOK
  <1> QED  BY <1>1, <1>2, <1>3, <1>4, <1>5, <1>6 DEF Next, Bodies, Scheduler

\* The scheduler keeps its invariant.
THEOREM InvHolds == Spec => []Inv
  <1>1. Inv /\ [Next]_vars => Inv'
    BY TypeStep, CursorsStep, LogStep, PoolStep, ModesStep, RoomStep, StopsStep DEF Inv
  <1> QED  BY <1>1, InvInit, PTL DEF Spec

-----------------------------------------------------------------------------
(* What it promises.                                                       *)

\* However bodies settle, calls are reclassified, and the signal or a failure
\* stops the step: exclusive calls run alone, the pool keeps its limit, and the
\* scheduler returns only with every call answered and no body left behind.
THEOREM BodiesStayContained == Spec => []BodiesAreContained
  <1>1. Inv => BodiesAreContained
    <2> SUFFICES ASSUME Inv PROVE BodiesAreContained  OBVIOUS
    <2>1. ExclusiveRunsAlone  BY DEF Inv, ModesAreAligned, ExclusiveRunsAlone
    <2>2. PoolIsBounded
      <3>1. /\ inFlight \in SUBSET Calls /\ Running \subseteq inFlight
            /\ Cardinality(inFlight) <= MaxParallel /\ MaxParallel \in Nat
        BY ConstantsAreValid DEF Inv, TypeOK, PoolIsAligned, PoolHasRoom
      <3>2. /\ Cardinality(Running) <= Cardinality(inFlight)
            /\ Cardinality(inFlight) \in Nat /\ Cardinality(Running) \in Nat
        BY <3>1, PoolIsFinite
      <3> QED  BY <3>1, <3>2 DEF PoolIsBounded
    <2>3. at = "done" => logged = Calls /\ trace.pending = {} /\ ~failed
      <3> SUFFICES ASSUME at = "done" PROVE logged = Calls /\ trace.pending = {} /\ ~failed
        OBVIOUS
      <3>1. cursor - 1 = N  BY ConstantsAreValid DEF Inv, CursorsInOrder
      <3>2. logged = 1 .. cursor - 1  BY DEF Inv, LogIsAligned, Recorded, Between
      <3> QED  BY <3>1, <3>2 DEF Inv, LogIsAligned, StopsAreSeen, Between, Calls
    <2>4. (at = "thrown" => failed) /\ (at \in {"done", "thrown"} => Running = {})
      BY DEF Inv, PoolIsAligned, StopsAreSeen, Between
    <2> QED  BY <2>1, <2>2, <2>3, <2>4
             DEF BodiesAreContained, BodiesKeepApart, NothingOutlivesTheStep, Inv
  <1> QED  BY <1>1, InvHolds, PTL

\* What the scheduler may append: a call at the cursor, or the result of the
\* oldest call that is recorded and not answered.
LEMMA AppendedIsDue ==
  ASSUME Inv, [Next]_vars, trace' # trace
  PROVE  \/ Log!ToolCall(cursor) /\ cursor \in Calls /\ trace.pending \subseteq trace'.pending
         \/ \E c \in Calls : /\ Log!ToolResult(c)
                             /\ trace'.pending = trace.pending \ {c}
                             /\ \A d \in trace.pending : c <= d
  <1> USE DEF log
  <1>0. TypeOK /\ CursorsInOrder /\ trace.openStep # Log!None
    BY DEF Inv, LogIsAligned, Log!None
  <1>n. cursor \in Nat /\ committed \in Nat /\ N \in Nat /\ last <= N /\ last \in Nat /\ cursor >= 1
        /\ committed >= 1
    BY <1>0, CursorsAreNumbers
  <1>1. Start \/ SkipCall \/ Commit \/ SkipResult
    BY DEF Next, Bodies, Scheduler, vars, Abort, Settle, DispatchFails, NextGroup, Finish, Full,
           Prepared, PrepareThrows, Finalize, FinalizeThrows, Committed, Race, Throw, Leave,
           SkippedAll
  <1>2. CASE Start \/ SkipCall
    <2>1. cursor \in Calls /\ AppendCall(cursor)
      BY <1>n, <1>2 DEF Start, MayStart, SkipCall, Calls
    <2>2. Log!ToolCall(cursor)  BY <1>0, <2>1 DEF AppendCall, Log!ToolCall
    <2>3. trace.pending \subseteq trace'.pending  BY <1>0, <2>1, AppendCallEffect
    <2> QED  BY <2>1, <2>2, <2>3
  <1>3. CASE Commit
    <2>1. committed \in Calls /\ AppendResult(committed) /\ committed < cursor /\ at \in InGroup
      BY <1>3, CommitIsDue DEF Commit
    <2>2. trace.pending = Recorded \ 1 .. committed - 1
      BY <2>1 DEF Inv, LogIsAligned
    <2>3. committed \in trace.pending
      BY <1>n, <2>1, <2>2 DEF Recorded
    <2>4. \A d \in trace.pending : committed <= d
      BY <1>n, <2>2 DEF Recorded
    <2>5. trace'.pending = trace.pending \ {committed}
      BY <1>0, <2>1, AppendResultEffect
    <2>6. Log!ToolResult(committed)  BY <1>0, <2>1, <2>3 DEF AppendResult, Log!ToolResult
    <2> QED  BY <2>1, <2>4, <2>5, <2>6
  <1>4. CASE SkipResult
    <2>1. cursor \in Calls /\ AppendResult(cursor) /\ trace.pending = {cursor}
      BY <1>0, <1>n, <1>4 DEF SkipResult, CursorsInOrder, Calls, Inv, LogIsAligned
    <2>2. trace'.pending = trace.pending \ {cursor}
      BY <1>0, <2>1, AppendResultEffect
    <2>3. Log!ToolResult(cursor)  BY <1>0, <2>1 DEF AppendResult, Log!ToolResult
    <2> QED  BY <1>n, <2>1, <2>2, <2>3
  <1> QED  BY <1>1, <1>2, <1>3, <1>4

\* Once the scheduler failed it dispatches nothing, not even the call whose
\* policy hooks were running when the failure came.
LEMMA FailureStops ==
  Inv /\ [Next]_vars =>
      [failed => \A c \in Calls : body'[c] = "running" => body[c] = "running"]_vars
  <1> SUFFICES ASSUME Inv, Next, failed, NEW c \in Calls, body'[c] = "running"
               PROVE  body[c] = "running"
    OBVIOUS
  <1>0. TypeOK  BY DEF Inv
  <1>1. ASSUME Bodies PROVE body[c] = "running"
    BY <1>0, <1>1 DEF Bodies, Settle, DispatchFails, TypeOK
  <1>2. ASSUME ~Bodies PROVE body' = body
    BY <1>2 DEF Next, Scheduler, Abort, NextGroup, Finish, Start, Full, Prepared, MayDispatch,
                PrepareThrows, Finalize, Commit, FinalizeThrows, Committed, Race, Throw, Leave,
                SkipCall, SkipResult, SkippedAll, pool, group
  <1> QED  BY <1>1, <1>2

\* Once the signal is aborted only the calls that get their synthetic result
\* next are recorded.
LEMMA AbortStops ==
  Inv /\ [Next]_vars => [signal /\ logged' # logged => at' = "skipped"]_vars
  <1> SUFFICES ASSUME Inv, Next, signal, logged' # logged
               PROVE  at' = "skipped"
    OBVIOUS
  <1>1. Start \/ SkipCall
    BY DEF Next, Bodies, Scheduler, Abort, Settle, DispatchFails, NextGroup, Finish, Full,
           Prepared, PrepareThrows, Finalize, Commit, AppendResult, FinalizeThrows, Committed,
           Race, Throw, Leave, SkipResult, SkippedAll, log
  <1>2. ~Start  BY DEF Inv, StopsAreSeen, Start, MayStart
  <1> QED  BY <1>1, <1>2 DEF SkipCall

\* Whatever order bodies settle, stop or fail in, the scheduler appends only what
\* the log allows, records results in model order, and starts nothing after the
\* signal or a failure.
THEOREM StepStaysOrderly == Spec => StepIsOrderly
  <1>1. Inv /\ [Next]_vars => [\E c \in Calls : Log!ToolCall(c) \/ Log!ToolResult(c)]_trace
    BY AppendedIsDue
  <1>2. Inv /\ [Next]_vars =>
          [\A c \in trace.pending \ trace'.pending : \A d \in trace.pending : c <= d]_trace
    BY AppendedIsDue
  <1>3. Spec => LogAllows  BY <1>1, InvHolds, PTL DEF Spec, LogAllows
  <1>4. Spec => ResultsInModelOrder  BY <1>2, InvHolds, PTL DEF Spec, ResultsInModelOrder
  <1>5. Spec => FailureStartsNothing
    BY FailureStops, InvHolds, PTL DEF Spec, FailureStartsNothing
  <1>6. Spec => AbortStartsNothing
    BY AbortStops, InvHolds, PTL DEF Spec, AbortStartsNothing
  <1> QED  BY <1>3, <1>4, <1>5, <1>6 DEF StepIsOrderly, StopStartsNothing
=============================================================================
