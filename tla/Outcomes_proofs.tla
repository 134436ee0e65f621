--------------------------- MODULE Outcomes_proofs ---------------------------
(***************************************************************************)
(* Proofs about the two records of what became of a piece of work: the     *)
(* registry of background tasks, for every set of tasks, of task_output    *)
(* calls and of owners; and the session log across crashes, for every      *)
(* number of calls, turns, steps and crashes.  What a rewind of that log   *)
(* leaves true is proved apart.                                            *)
(***************************************************************************)
EXTENDS Tasks, CrashRecovery, FiniteSetTheorems, FunctionTheorems, SequenceTheorems,
        WellFoundedInduction, TLAPS

-----------------------------------------------------------------------------
(* Background tasks: the inductive invariant.                              *)

\* A task_output call that has begun is about a task, and only such a call is
\* ever cancelled.
ReadsAreAligned ==
    \A r \in Reads : IF read[r].at = "none" THEN ~read[r].cancelled
                                            ELSE read[r].task \in TaskIds

\* A live task's producer is still to report; a settled task's has reported,
\* or was given up when its cancel threw.
WorkMatchesStatus ==
    \A t \in TaskIds : /\ status[t] = "absent" => work[t] = "none"
                       /\ status[t] \in Live => work[t] \in {"running", "ended"}
                       /\ status[t] \in Terminal => work[t] # "running"

\* A disposal waits for tasks that were started, and an owner's for its own.
AwaitedAreOwned ==
    \A d \in Disposers : \A t \in awaited[d] :
        status[t] # "absent" /\ (d \in Owners => owner[t] = d)

\* A task stays in the registry as long as its owner and the service are there.
StoreIsKept ==
    \A t \in TaskIds :
        (/\ status[t] # "absent"
         /\ owner[t] \in Owners /\ phase[owner[t]] = "idle" /\ phase[Service] = "idle")
        => t \in store

\* A task that is not settled is marked reported by a kill only.
ReportsAreOwed ==
    \A t \in TaskIds : reported[t] /\ status[t] \notin Terminal => told[t] # {}

\* The inductive invariant.
Inv ==
    /\ TypeOK /\ ReadsAreAligned /\ WorkMatchesStatus /\ AwaitedAreOwned
    /\ StoreIsKept /\ ReportsAreOwed
    /\ SettlementReleasesWaits /\ TeardownIsSound /\ OutcomeReachesOwner

\* A task_output call, as the type invariant has it.
ReadState == [at : {"none", "waiting", "resolved", "returned", "holding", "finished"},
              task : TaskIds \cup {Nobody}, final : BOOLEAN, cancelled : BOOLEAN]

\* The steps of one task_output call and of its caller.
Reading(r) == \/ \E t \in TaskIds : Poll(r, t) \/ Wait(r, t)
              \/ Timeout(r) \/ AbortWait(r) \/ Return(r)
              \/ Read(r) \/ Deliver(r) \/ LateCancel(r)

-----------------------------------------------------------------------------
(* What the operators do.                                                  *)

\* A step of a task_output call changes that call only, keeps the task it is
\* about, begins a wait on a live task only, and marks settled tasks only.
LEMMA ReadEffect ==
  ASSUME TypeOK, ReadsAreAligned, NEW r \in Reads, Reading(r)
  PROVE  /\ UNCHANGED <<status, work, owner, store, phase, awaited>>
         /\ \A q \in Reads \ {r} : read'[q] = read[q]
         /\ read' \in [Reads -> ReadState]
         /\ read'[r].at # "none" /\ read'[r].task \in TaskIds
         /\ read[r].at # "none" => read'[r].task = read[r].task
         /\ read'[r].at = "waiting" => read[r].at = "none" /\ status[read'[r].task] \in Live
         /\ read[r].cancelled => read'[r].cancelled
  <1> USE DEF ReadState
  <1>0. read \in [Reads -> ReadState]  BY DEF TypeOK
  <1>1. CASE \E t \in TaskIds : Poll(r, t) \/ Wait(r, t)
    <2>1. PICK t \in TaskIds : Poll(r, t) \/ Wait(r, t)  BY <1>1
    <2>2. \E at \in {"returned", "waiting"} :
             /\ read' = [read EXCEPT ![r] = [at |-> at, task |-> t, final |-> FALSE,
                                             cancelled |-> FALSE]]
             /\ at = "waiting" => status[t] \in Live
      BY <2>1 DEF Poll, Wait, NoRead
    <2>3. read[r].at = "none" /\ ~read[r].cancelled
      BY <2>1 DEF Poll, Wait, ReadsAreAligned
    <2>4. UNCHANGED <<status, work, owner, store, phase, awaited>>
      BY <2>1 DEF Poll, Wait, disposal
    <2> QED  BY <1>0, <2>2, <2>3, <2>4
  <1>2. CASE Timeout(r) \/ AbortWait(r) \/ Return(r) \/ Read(r) \/ Deliver(r) \/ LateCancel(r)
    <2>1. read[r].at # "none" /\ read[r].task \in TaskIds
      BY <1>2 DEF Timeout, AbortWait, Return, Read, Deliver, LateCancel, ReadsAreAligned
    <2>2. UNCHANGED <<status, work, owner, store, phase, awaited>>
      BY <1>2 DEF Timeout, AbortWait, Return, Read, Deliver, LateCancel, disposal
    <2>3. PICK at \in {"resolved", "returned", "holding", "finished"},
               final \in BOOLEAN, cancelled \in BOOLEAN :
            /\ read' = [read EXCEPT ![r].at = at, ![r].final = final, ![r].cancelled = cancelled]
            /\ read[r].cancelled => cancelled
      <3>1. read[r] \in ReadState  BY <1>0
      <3>2. CASE \E at \in {"resolved", "returned", "finished"} : At(r, at)
        <4>1. PICK at \in {"resolved", "returned", "finished"} : At(r, at)  BY <3>2
        <4>2. read' = [read EXCEPT ![r].at = at, ![r].final = read[r].final,
                                   ![r].cancelled = read[r].cancelled]
          BY <1>0, <3>1, <4>1 DEF At
        <4>3. read[r].final \in BOOLEAN /\ read[r].cancelled \in BOOLEAN  BY <3>1
        <4>4. /\ at \in {"resolved", "returned", "holding", "finished"}
              /\ read[r].cancelled => read[r].cancelled
          BY <4>1
        <4> QED  BY <4>2, <4>3, <4>4, Zenon
      <3>3. CASE Read(r)
        <4> DEFINE ends == status[read[r].task] \in Terminal
        <4>1. CASE At(r, "finished")  BY <3>2, <4>1
        <4>2. CASE read' = [read EXCEPT ![r].at = "holding", ![r].final = ends]
          <5>1. ends \in BOOLEAN  OBVIOUS
          <5> HIDE DEF ends
          <5>2. read' = [read EXCEPT ![r].at = "holding", ![r].final = ends,
                                     ![r].cancelled = read[r].cancelled]
            BY <1>0, <3>1, <4>2, <5>1
          <5>3. read[r].cancelled \in BOOLEAN  BY <3>1
          <5> QED  BY <5>1, <5>2, <5>3
        <4> QED  BY <3>3, <4>1, <4>2 DEF Read
      <3>4. CASE LateCancel(r)
        <4>1. read' = [read EXCEPT ![r].at = read[r].at, ![r].final = read[r].final,
                                   ![r].cancelled = TRUE]
          BY <1>0, <3>1, <3>4 DEF LateCancel
        <4> QED  BY <3>1, <3>4, <4>1 DEF LateCancel
      <3> QED  BY <1>2, <3>2, <3>3, <3>4 DEF Timeout, AbortWait, Return, Deliver
    <2> DEFINE new == [read[r] EXCEPT !.at = at, !.final = final, !.cancelled = cancelled]
    <2>4. /\ new \in ReadState /\ new.at = at /\ new.task = read[r].task
          /\ new.cancelled = cancelled
      <3>1. read[r] \in ReadState  BY <1>0
      <3> QED  BY <3>1
    <2>5. read' = [read EXCEPT ![r] = new]  BY <1>0, <2>3
    <2>6. at \notin {"none", "waiting"}  OBVIOUS
    <2>7. read[r].cancelled => cancelled  BY <2>3
    <2> HIDE DEF new
    <2>8. /\ read' \in [Reads -> ReadState] /\ read'[r] = new
          /\ \A q \in Reads \ {r} : read'[q] = read[q]
      BY <1>0, <2>4, <2>5
    <2> QED  BY <2>1, <2>2, <2>4, <2>6, <2>7, <2>8
  <1> QED  BY <1>1, <1>2 DEF Reading

\* A call marks settled tasks only, and tells of an outcome only as a reader.
LEMMA ReadTells ==
  ASSUME TypeOK, ReadsAreAligned, NEW r \in Reads, Reading(r)
  PROVE  /\ reported' \in [TaskIds -> BOOLEAN]
         /\ told' \in [TaskIds -> SUBSET {"notice", "reader", "killer"}]
         /\ \A t \in TaskIds : /\ reported'[t] => reported[t] \/ status[t] \in Terminal
                               /\ told[t] \subseteq told'[t]
                               /\ "notice" \in told'[t] => "notice" \in told[t]
  <1>1. CASE \E t \in TaskIds : Poll(r, t) \/ Wait(r, t)
    BY <1>1 DEF Poll, Wait, outcome, TypeOK
  <1>2. CASE Timeout(r) \/ AbortWait(r) \/ LateCancel(r)
    BY <1>2 DEF Timeout, AbortWait, LateCancel, outcome, TypeOK
  <1>3. CASE Return(r) \/ Read(r)
    <2> DEFINE t == read[r].task
    <2>1. t \in TaskIds  BY <1>3 DEF Return, Read, ReadsAreAligned
    <2>2. \/ reported' = [reported EXCEPT ![t] = reported[t] \/ status[t] \in Terminal]
          \/ reported' = reported
      BY <1>3 DEF Return, Read
    <2>3. told' = told  BY <1>3 DEF Return, Read
    <2>4. reported \in [TaskIds -> BOOLEAN]  BY DEF TypeOK
    <2> HIDE DEF t
    <2> QED  BY <2>1, <2>2, <2>3, <2>4 DEF TypeOK
  <1>4. CASE Deliver(r)
    <2>1. read[r].task \in TaskIds  BY <1>4 DEF Deliver, ReadsAreAligned
    <2> QED  BY <1>4, <2>1 DEF Deliver, TypeOK
  <1> QED  BY <1>1, <1>2, <1>3, <1>4 DEF Reading

\* Settling a set of tasks resolves the waits on them and no other call, and
\* leaves the other tasks alone (notifySettled).
LEMMA AnnounceEffect ==
  ASSUME TypeOK, NEW settled \in SUBSET TaskIds, Announce(settled)
  PROVE  /\ reported' \in [TaskIds -> BOOLEAN]
         /\ told' \in [TaskIds -> SUBSET {"notice", "reader", "killer"}]
         /\ read' \in [Reads -> ReadState]
         /\ \A t \in TaskIds \ settled : reported'[t] = reported[t] /\ told'[t] = told[t]
         /\ \A t \in TaskIds : told[t] \subseteq told'[t]
         /\ \A t \in settled : Noticed(t) => "notice" \in told'[t]
         /\ \A r \in Reads :
               IF read[r].at = "waiting" /\ read[r].task \in settled
               THEN /\ read'[r].at = "resolved" /\ read'[r].task = read[r].task
                    /\ read'[r].cancelled = read[r].cancelled
               ELSE read'[r] = read[r]
  <1> USE DEF ReadState
  <1>1. reported' \in [TaskIds -> BOOLEAN]
    <2>1. \A t \in TaskIds : TakenOver(t) \in BOOLEAN /\ reported[t] \in BOOLEAN
      BY DEF TakenOver, TypeOK
    <2> QED  BY <2>1 DEF Announce
  <1>2. /\ told' \in [TaskIds -> SUBSET {"notice", "reader", "killer"}]
        /\ \A t \in TaskIds : told[t] \subseteq told'[t]
        /\ \A t \in settled : Noticed(t) => "notice" \in told'[t]
    BY DEF Announce, TypeOK
  <1>3. /\ read' \in [Reads -> ReadState]
        /\ \A r \in Reads :
              IF read[r].at = "waiting" /\ read[r].task \in settled
              THEN /\ read'[r].at = "resolved" /\ read'[r].task = read[r].task
                   /\ read'[r].cancelled = read[r].cancelled
              ELSE read'[r] = read[r]
    <2>1. read \in [Reads -> ReadState]  BY DEF TypeOK
    <2>2. ASSUME NEW r \in Reads
          PROVE  LET next == [read[r] EXCEPT !.at = "resolved"] IN
                 /\ next \in ReadState /\ next.at = "resolved"
                 /\ next.task = read[r].task /\ next.cancelled = read[r].cancelled
      BY <2>1
    <2>3. read' = Released(settled)  BY DEF Announce
    <2> QED  BY <2>1, <2>2, <2>3 DEF Released
  <1>4. \A t \in TaskIds \ settled : reported'[t] = reported[t] /\ told'[t] = told[t]
    BY DEF Announce, TypeOK
  <1> QED  BY <1>1, <1>2, <1>3, <1>4

\* The reaction to a producer's "done" settles a live task once.
LEMMA SettleEffect ==
  ASSUME TypeOK, NEW t \in TaskIds, NEW s \in Terminal, Settle(t, s)
  PROVE  /\ work' = [work EXCEPT ![t] = "over"]
         /\ UNCHANGED <<owner, store, phase, awaited>>
         /\ \/ /\ status[t] \notin Terminal /\ status' = [status EXCEPT ![t] = s]
               /\ Announce({t})
            \/ status[t] \in Terminal /\ UNCHANGED <<status, reported, told, read>>
  BY DEF Settle, FirstWins, outcome, disposal

\* A teardown stops the live tasks it covers, and settles those whose cancel
\* throws.
LEMMA DisposeEffect ==
  ASSUME TypeOK, NEW d \in Disposers, NEW threw \in SUBSET TaskIds, Dispose(d, threw)
  PROVE  /\ phase[d] = "idle" /\ phase' = [phase EXCEPT ![d] = "awaiting"]
         /\ awaited' = [awaited EXCEPT ![d] = TasksOf(d)]
         /\ threw \subseteq TasksOf(d) /\ \A t \in threw : status[t] \in Live
         /\ status' = [t \in TaskIds |->
                          IF t \in threw THEN "failed"
                          ELSE IF t \in TasksOf(d) /\ status[t] \in Live THEN "stopping"
                          ELSE status[t]]
         /\ work' = [t \in TaskIds |-> IF t \in threw /\ work[t] = "running"
                                       THEN "orphaned" ELSE work[t]]
         /\ Announce(threw) /\ UNCHANGED <<owner, store>>
  <1> DEFINE live == {t \in TasksOf(d) : status[t] \in Live}
  <1>1. /\ phase[d] = "idle" /\ phase' = [phase EXCEPT ![d] = "awaiting"]
        /\ awaited' = [awaited EXCEPT ![d] = TasksOf(d)]
        /\ threw \subseteq live
        /\ work' = [t \in TaskIds |-> IF t \in threw /\ work[t] = "running"
                                      THEN "orphaned" ELSE work[t]]
        /\ Announce(threw) /\ UNCHANGED <<owner, store>>
    BY DEF Dispose, Forced
  <1>2. status' = [t \in TaskIds |-> CASE t \in threw -> "failed"
                                       [] t \in live \ threw -> "stopping"
                                       [] OTHER -> status[t]]
    BY DEF Dispose, Forced
  <1>3. ASSUME NEW t \in TaskIds
        PROVE  (CASE t \in threw -> "failed"
                  [] t \in live \ threw -> "stopping"
                  [] OTHER -> status[t])
               = IF t \in threw THEN "failed"
                 ELSE IF t \in TasksOf(d) /\ status[t] \in Live THEN "stopping"
                 ELSE status[t]
    OBVIOUS
  <1> QED  BY <1>1, <1>2, <1>3

-----------------------------------------------------------------------------
(* Every step keeps the invariant.                                         *)

\* The empty registry satisfies the invariant.
LEMMA InvInit == Init => Inv
  BY DEF Init, Inv, TypeOK, ReadsAreAligned, WorkMatchesStatus, AwaitedAreOwned, StoreIsKept,
         ReportsAreOwed, SettlementReleasesWaits, TeardownIsSound, DisposedIsQuiet,
         DisposalIsServed, OutcomeReachesOwner, Due, NoRead, Live, Terminal, Disposers

\* The actions, and what each is about.
LEMMA StepCases ==
  ASSUME Next
  PROVE  \/ \E t \in TaskIds : \E o \in Owners \cup {Nobody} : Start(t, o)
         \/ \E t \in TaskIds : ProducerEnds(t) \/ Kill(t)
         \/ \E t \in TaskIds : \E s \in Terminal : Settle(t, s)
         \/ \E r \in Reads : Reading(r)
         \/ \E d \in Disposers : Sweep(d)
         \/ \E d \in Disposers : \E threw \in SUBSET TaskIds : Dispose(d, threw)
  BY DEF Next, Reading

\* Types are kept.
LEMMA TypeStep == Inv /\ [Next]_vars => TypeOK'
  <1> SUFFICES ASSUME Inv, [Next]_vars PROVE TypeOK'  OBVIOUS
  <1>0. TypeOK /\ ReadsAreAligned  BY DEF Inv
  <1>1. ASSUME NEW t \in TaskIds, NEW o \in Owners \cup {Nobody}, Start(t, o) PROVE TypeOK'
    BY <1>0, <1>1 DEF Start, TypeOK, Live, outcome, disposal
  <1>2. ASSUME NEW t \in TaskIds, ProducerEnds(t) \/ Kill(t) PROVE TypeOK'
    <2>1. CASE ProducerEnds(t)
      BY <1>0, <2>1 DEF ProducerEnds, TypeOK, outcome, disposal
    <2>2. CASE Kill(t)
      BY <1>0, <2>2 DEF Kill, TypeOK, Live, disposal
    <2> QED  BY <1>2, <2>1, <2>2
  <1>3. ASSUME NEW t \in TaskIds, NEW s \in Terminal, Settle(t, s) PROVE TypeOK'
    <2>0. /\ work' = [work EXCEPT ![t] = "over"]
          /\ UNCHANGED <<owner, store, phase, awaited>>
          /\ \/ status' = [status EXCEPT ![t] = s]
             \/ UNCHANGED status
      BY <1>0, <1>3, SettleEffect
    <2>1. status' \in [TaskIds -> {"absent"} \cup Live \cup Terminal]
      BY <1>0, <2>0 DEF TypeOK
    <2>2. store' \subseteq {u \in TaskIds : status'[u] # "absent"}
      BY <1>0, <2>0 DEF TypeOK, Terminal
    <2>3. work' \in [TaskIds -> {"none", "running", "ended", "over", "orphaned"}]
      BY <1>0, <2>0 DEF TypeOK
    <2>4. /\ reported' \in [TaskIds -> BOOLEAN]
          /\ told' \in [TaskIds -> SUBSET {"notice", "reader", "killer"}]
          /\ read' \in [Reads -> ReadState]
      <3>1. CASE Announce({t})  BY <1>0, <3>1, AnnounceEffect
      <3>2. CASE UNCHANGED <<reported, told, read>>  BY <1>0, <3>2 DEF TypeOK, ReadState
      <3> QED  BY <1>0, <1>3, <3>1, <3>2, SettleEffect
    <2> QED  BY <1>0, <2>0, <2>1, <2>2, <2>3, <2>4 DEF TypeOK, ReadState
  <1>4. ASSUME NEW r \in Reads, Reading(r) PROVE TypeOK'
    <2>1. /\ UNCHANGED <<status, work, owner, store, phase, awaited>>
          /\ read' \in [Reads -> ReadState]
      BY <1>0, <1>4, ReadEffect
    <2>2. /\ reported' \in [TaskIds -> BOOLEAN]
          /\ told' \in [TaskIds -> SUBSET {"notice", "reader", "killer"}]
      BY <1>0, <1>4, ReadTells
    <2> QED  BY <1>0, <2>1, <2>2 DEF TypeOK, ReadState
  <1>5. ASSUME NEW d \in Disposers, Sweep(d) PROVE TypeOK'
    BY <1>0, <1>5 DEF Sweep, TypeOK, outcome
  <1>6. ASSUME NEW d \in Disposers, NEW threw \in SUBSET TaskIds, Dispose(d, threw)
        PROVE  TypeOK'
    <2>1. /\ reported' \in [TaskIds -> BOOLEAN]
          /\ told' \in [TaskIds -> SUBSET {"notice", "reader", "killer"}]
          /\ read' \in [Reads -> ReadState]
      BY <1>0, <1>6, DisposeEffect, AnnounceEffect
    <2>2. TasksOf(d) \in SUBSET TaskIds  BY <1>0 DEF TasksOf, TypeOK
    <2>3. /\ phase' \in [Disposers -> {"idle", "awaiting", "done"}]
          /\ awaited' \in [Disposers -> SUBSET TaskIds]
          /\ work' \in [TaskIds -> {"none", "running", "ended", "over", "orphaned"}]
          /\ UNCHANGED <<owner, store>>
      BY <1>0, <1>6, <2>2, DisposeEffect DEF TypeOK
    <2>4. /\ status' \in [TaskIds -> {"absent"} \cup Live \cup Terminal]
          /\ \A t \in TaskIds : status[t] # "absent" => status'[t] # "absent"
      BY <1>0, <1>6, DisposeEffect DEF TypeOK, Live, Terminal
    <2> QED  BY <1>0, <2>1, <2>3, <2>4 DEF TypeOK, ReadState
  <1>7. CASE UNCHANGED vars
    BY <1>0, <1>7 DEF vars, outcome, disposal, TypeOK
  <1> QED  BY <1>1, <1>2, <1>3, <1>4, <1>5, <1>6, <1>7, StepCases

\* A wait is about a live task: whatever settles the task resolves the wait.
LEMMA ReadsStep ==
  Inv /\ [Next]_vars => ReadsAreAligned' /\ SettlementReleasesWaits'
  <1> DEFINE Kept == ReadsAreAligned' /\ SettlementReleasesWaits'
  <1> SUFFICES ASSUME Inv, [Next]_vars PROVE Kept  OBVIOUS
  <1>0. TypeOK /\ ReadsAreAligned /\ SettlementReleasesWaits  BY DEF Inv
  <1>1. ASSUME read' = read,
               \A t \in TaskIds : status[t] \in Live => status'[t] \in Live
        PROVE  Kept
    BY <1>0, <1>1 DEF ReadsAreAligned, SettlementReleasesWaits
  <1>2. ASSUME NEW t \in TaskIds, NEW o \in Owners \cup {Nobody}, Start(t, o) PROVE Kept
    <2>1. read' = read /\ status' = [status EXCEPT ![t] = "running"]
      BY <1>2 DEF Start
    <2> QED  BY <1>0, <1>1, <2>1 DEF TypeOK, Live
  <1>3. ASSUME NEW t \in TaskIds, ProducerEnds(t) \/ Kill(t) PROVE Kept
    <2>1. CASE ProducerEnds(t)  BY <1>1, <2>1 DEF ProducerEnds
    <2>2. CASE Kill(t)
      <3>1. read' = read  BY <2>2 DEF Kill
      <3>2. \A u \in TaskIds : status[u] \in Live => status'[u] \in Live
        BY <1>0, <2>2 DEF Kill, TypeOK, Live
      <3> QED  BY <1>1, <3>1, <3>2
    <2> QED  BY <1>3, <2>1, <2>2
  <1>4. ASSUME NEW settled \in SUBSET TaskIds, Announce(settled),
               \A t \in TaskIds \ settled : status[t] \in Live => status'[t] \in Live
        PROVE  Kept
    <2>1. \A r \in Reads :
             IF read[r].at = "waiting" /\ read[r].task \in settled
             THEN /\ read'[r].at = "resolved" /\ read'[r].task = read[r].task
                  /\ read'[r].cancelled = read[r].cancelled
             ELSE read'[r] = read[r]
      BY <1>0, <1>4, AnnounceEffect
    <2> QED  BY <1>0, <1>4, <2>1 DEF ReadsAreAligned, SettlementReleasesWaits
  <1>5. ASSUME NEW t \in TaskIds, NEW s \in Terminal, Settle(t, s) PROVE Kept
    <2>1. \/ status' = [status EXCEPT ![t] = s] /\ Announce({t})
          \/ UNCHANGED <<status, read>>
      BY <1>0, <1>5, SettleEffect
    <2>2. CASE UNCHANGED <<status, read>>  BY <1>1, <2>2
    <2>3. CASE status' = [status EXCEPT ![t] = s] /\ Announce({t})
      <3>1. \A u \in TaskIds \ {t} : status'[u] = status[u]
        BY <1>0, <2>3 DEF TypeOK
      <3> QED  BY <1>4, <2>3, <3>1
    <2> QED  BY <2>1, <2>2, <2>3
  <1>6. ASSUME NEW r \in Reads, Reading(r) PROVE Kept
    <2>1. /\ UNCHANGED status
          /\ \A q \in Reads \ {r} : read'[q] = read[q]
          /\ read'[r].at # "none" /\ read'[r].task \in TaskIds
          /\ read'[r].at = "waiting" => status[read'[r].task] \in Live
      BY <1>0, <1>6, ReadEffect
    <2> QED  BY <1>0, <2>1 DEF ReadsAreAligned, SettlementReleasesWaits
  <1>7. ASSUME NEW d \in Disposers, Sweep(d) PROVE Kept
    BY <1>1, <1>7 DEF Sweep
  <1>8. ASSUME NEW d \in Disposers, NEW threw \in SUBSET TaskIds, Dispose(d, threw)
        PROVE  Kept
    <2>1. /\ Announce(threw)
          /\ status' = [t \in TaskIds |->
                          IF t \in threw THEN "failed"
                          ELSE IF t \in TasksOf(d) /\ status[t] \in Live THEN "stopping"
                          ELSE status[t]]
      BY <1>0, <1>8, DisposeEffect
    <2>2. \A t \in TaskIds \ threw : status[t] \in Live => status'[t] \in Live
      BY <2>1 DEF Live
    <2> QED  BY <1>4, <2>1, <2>2
  <1>9. CASE UNCHANGED vars  BY <1>1, <1>9 DEF vars
  <1> QED  BY <1>2, <1>3, <1>5, <1>6, <1>7, <1>8, <1>9, StepCases

\* The tasks a disposal waits for stay its own, settle, or are still to report.
LEMMA DisposalStep ==
  Inv /\ [Next]_vars => WorkMatchesStatus' /\ AwaitedAreOwned' /\ TeardownIsSound'
  <1> DEFINE Kept == WorkMatchesStatus' /\ AwaitedAreOwned' /\ TeardownIsSound'
  <1> SUFFICES ASSUME Inv, [Next]_vars PROVE Kept  OBVIOUS
  <1>0. /\ TypeOK /\ WorkMatchesStatus /\ AwaitedAreOwned
        /\ DisposedIsQuiet /\ DisposalIsServed
    BY DEF Inv, TeardownIsSound
  <1> USE DEF WorkMatchesStatus, AwaitedAreOwned, TeardownIsSound, DisposedIsQuiet,
              DisposalIsServed
  <1>1. ASSUME NEW t \in TaskIds, NEW o \in Owners \cup {Nobody}, Start(t, o) PROVE Kept
    <2>1. /\ status[t] = "absent" /\ status' = [status EXCEPT ![t] = "running"]
          /\ work' = [work EXCEPT ![t] = "running"] /\ owner' = [owner EXCEPT ![t] = o]
          /\ store' = store \cup {t} /\ UNCHANGED <<phase, awaited>>
      BY <1>1 DEF Start, disposal
    <2>2. \A d \in Disposers : t \notin awaited[d]  BY <1>0, <2>1
    <2>3. \A u \in TaskIds \ {t} :
              status'[u] = status[u] /\ work'[u] = work[u] /\ owner'[u] = owner[u]
      BY <1>0, <2>1 DEF TypeOK
    <2>4. \A d \in Disposers : awaited[d] \subseteq TaskIds  BY <1>0 DEF TypeOK
    <2>5. status'[t] = "running" /\ work'[t] = "running"  BY <1>0, <2>1 DEF TypeOK
    <2> QED  BY <1>0, <2>1, <2>2, <2>3, <2>4, <2>5 DEF Live, Terminal
  <1>2. ASSUME NEW t \in TaskIds, ProducerEnds(t) PROVE Kept
    <2>1. /\ work[t] \in {"running", "orphaned"} /\ work' = [work EXCEPT ![t] = "ended"]
          /\ UNCHANGED <<status, owner, store, phase, awaited>>
      BY <1>2 DEF ProducerEnds, disposal
    <2>2. \A u \in TaskIds : work'[u] = IF u = t THEN "ended" ELSE work[u]
      BY <1>0, <2>1 DEF TypeOK
    <2>3. \A d \in Disposers : awaited[d] \subseteq TaskIds  BY <1>0 DEF TypeOK
    <2> QED  BY <1>0, <2>1, <2>2, <2>3
  <1>3. ASSUME NEW t \in TaskIds, Kill(t) PROVE Kept
    <2>1. UNCHANGED <<work, owner, store, phase, awaited>>
      BY <1>3 DEF Kill, disposal
    <2>2. \A u \in TaskIds : \/ status'[u] = status[u]
                             \/ status[u] \in Live /\ status'[u] = "stopping"
      BY <1>0, <1>3 DEF Kill, TypeOK
    <2>3. \A d \in Disposers : awaited[d] \subseteq TaskIds  BY <1>0 DEF TypeOK
    <2> QED  BY <1>0, <2>1, <2>2, <2>3 DEF Live, Terminal
  <1>4. ASSUME NEW t \in TaskIds, NEW s \in Terminal, Settle(t, s) PROVE Kept
    <2>1. /\ work' = [work EXCEPT ![t] = "over"]
          /\ UNCHANGED <<owner, store, phase, awaited>>
          /\ \/ status' = [status EXCEPT ![t] = s]
             \/ status[t] \in Terminal /\ UNCHANGED status
      BY <1>0, <1>4, SettleEffect
    <2>2. \A u \in TaskIds : work'[u] = IF u = t THEN "over" ELSE work[u]
      BY <1>0, <2>1 DEF TypeOK
    <2>3. \A u \in TaskIds : IF u = t THEN status'[u] \in Terminal ELSE status'[u] = status[u]
      BY <1>0, <2>1 DEF TypeOK
    <2>4. \A d \in Disposers : awaited[d] \subseteq TaskIds  BY <1>0 DEF TypeOK
    <2> QED  BY <1>0, <2>1, <2>2, <2>3, <2>4 DEF Live, Terminal
  <1>5. ASSUME NEW r \in Reads, Reading(r) PROVE Kept
    <2>1. UNCHANGED <<status, work, owner, store, phase, awaited>>
      BY <1>0, <1>5, ReadEffect DEF Inv
    <2> QED  BY <1>0, <2>1
  <1>6. ASSUME NEW d \in Disposers, Sweep(d) PROVE Kept
    <2>1. /\ phase[d] = "awaiting" /\ phase' = [phase EXCEPT ![d] = "done"]
          /\ \A t \in awaited[d] : status[t] \in Terminal
          /\ store' = (IF d = Service THEN {} ELSE store \ awaited[d])
          /\ UNCHANGED <<status, work, owner, awaited>>
      BY <1>6 DEF Sweep, AllSettled
    <2>2. \A e \in Disposers : phase'[e] = IF e = d THEN "done" ELSE phase[e]
      BY <1>0, <2>1 DEF TypeOK
    <2>3. store' \subseteq store /\ \A t \in awaited[d] : t \notin store'  BY <2>1
    <2>4. \A e \in Disposers : awaited[e] \subseteq TaskIds  BY <1>0 DEF TypeOK
    <2> QED  BY <1>0, <2>1, <2>2, <2>3, <2>4
  <1>7. ASSUME NEW d \in Disposers, NEW threw \in SUBSET TaskIds, Dispose(d, threw)
        PROVE  Kept
    <2>1. /\ phase[d] = "idle" /\ phase' = [phase EXCEPT ![d] = "awaiting"]
          /\ awaited' = [awaited EXCEPT ![d] = TasksOf(d)]
          /\ threw \subseteq TasksOf(d) /\ \A t \in threw : status[t] \in Live
          /\ status' = [t \in TaskIds |->
                          IF t \in threw THEN "failed"
                          ELSE IF t \in TasksOf(d) /\ status[t] \in Live THEN "stopping"
                          ELSE status[t]]
          /\ work' = [t \in TaskIds |-> IF t \in threw /\ work[t] = "running"
                                        THEN "orphaned" ELSE work[t]]
          /\ UNCHANGED <<owner, store>>
      BY <1>0, <1>7, DisposeEffect
    <2>2. TasksOf(d) \subseteq TaskIds /\ \A t \in TasksOf(d) :
              status[t] # "absent" /\ (d \in Owners => owner[t] = d)
      BY <1>0, SubjectsAreDistinct DEF TasksOf, TypeOK
    <2>3. \A e \in Disposers : /\ awaited'[e] = IF e = d THEN TasksOf(d) ELSE awaited[e]
                               /\ phase'[e] = IF e = d THEN "awaiting" ELSE phase[e]
      BY <1>0, <2>1 DEF TypeOK
    <2>4. \A e \in Disposers : awaited[e] \subseteq TaskIds  BY <1>0 DEF TypeOK
    <2>5. \A t \in TaskIds : status[t] \in {"absent"} \cup Live \cup Terminal
      BY <1>0 DEF TypeOK
    <2>6. \A t \in TaskIds :
              \/ status'[t] = status[t] /\ work'[t] = work[t]
                 /\ (t \in TasksOf(d) => status[t] \notin Live)
              \/ status'[t] = "stopping" /\ status[t] \in Live /\ work'[t] = work[t]
              \/ status'[t] = "failed" /\ status[t] \in Live /\ work'[t] # "running"
      BY <2>1
    <2>7. WorkMatchesStatus'  BY <1>0, <2>6 DEF Live, Terminal
    <2>8. AwaitedAreOwned'  BY <1>0, <2>1, <2>2, <2>3, <2>4, <2>6
    <2>9. DisposedIsQuiet'
      BY <1>0, <2>1, <2>3, <2>4, <2>6
    <2>10. DisposalIsServed'
      BY <1>0, <2>2, <2>3, <2>4, <2>5, <2>6 DEF Live, Terminal
    <2> QED  BY <2>7, <2>8, <2>9, <2>10
  <1>8. CASE UNCHANGED vars  BY <1>0, <1>8 DEF vars, disposal
  <1> QED  BY <1>1, <1>2, <1>3, <1>4, <1>5, <1>6, <1>7, <1>8, StepCases

\* A sweep takes away what its disposal waited for, and no other owner's tasks.
LEMMA StoreStep == Inv /\ [Next]_vars => StoreIsKept'
  <1> SUFFICES ASSUME Inv, [Next]_vars PROVE StoreIsKept'  OBVIOUS
  <1>0. TypeOK /\ AwaitedAreOwned /\ StoreIsKept  BY DEF Inv
  <1>d. /\ \A e \in Disposers : phase[e] \in {"idle", "awaiting", "done"}
        /\ Service \in Disposers /\ Owners \subseteq Disposers
    BY <1>0 DEF TypeOK, Disposers
  <1>1. ASSUME NEW t \in TaskIds, NEW o \in Owners \cup {Nobody}, Start(t, o)
        PROVE  StoreIsKept'
    <2>1. /\ status[t] = "absent" /\ status' = [status EXCEPT ![t] = "running"]
          /\ owner' = [owner EXCEPT ![t] = o]
          /\ store' = store \cup {t} /\ UNCHANGED phase
      BY <1>1 DEF Start, disposal
    <2>2. \A u \in TaskIds \ {t} : status'[u] = status[u] /\ owner'[u] = owner[u]
      BY <1>0, <2>1 DEF TypeOK
    <2> QED  BY <1>0, <2>1, <2>2 DEF StoreIsKept
  <1>2. ASSUME UNCHANGED <<owner, phase, store>>,
               \A t \in TaskIds : status[t] = "absent" => status'[t] = "absent"
        PROVE  StoreIsKept'
    BY <1>0, <1>2 DEF StoreIsKept
  <1>3. ASSUME NEW t \in TaskIds, ProducerEnds(t) \/ Kill(t) PROVE StoreIsKept'
    <2>1. CASE ProducerEnds(t)  BY <1>2, <2>1 DEF ProducerEnds, disposal
    <2>2. CASE Kill(t)
      <3>1. UNCHANGED <<owner, phase, store>> /\ t \in store
        BY <2>2 DEF Kill, disposal
      <3>2. status[t] # "absent"  BY <1>0, <3>1 DEF TypeOK
      <3>3. \A u \in TaskIds : status[u] = "absent" => status'[u] = "absent"
        BY <1>0, <2>2, <3>2 DEF Kill, TypeOK
      <3> QED  BY <1>2, <3>1, <3>3
    <2> QED  BY <1>3, <2>1, <2>2
  <1>4. ASSUME NEW t \in TaskIds, NEW s \in Terminal, Settle(t, s) PROVE StoreIsKept'
    <2>1. /\ work[t] = "ended" /\ UNCHANGED <<owner, store, phase>>
          /\ \/ status' = [status EXCEPT ![t] = s]
             \/ UNCHANGED status
      BY <1>0, <1>4, SettleEffect DEF Settle
    <2>2. status[t] # "absent"
      BY <2>1 DEF Inv, WorkMatchesStatus
    <2>3. \A u \in TaskIds : status[u] = "absent" => status'[u] = "absent"
      BY <1>0, <2>1, <2>2 DEF TypeOK
    <2> QED  BY <1>2, <2>1, <2>3
  <1>5. ASSUME NEW r \in Reads, Reading(r) PROVE StoreIsKept'
    <2>1. UNCHANGED <<status, owner, store, phase>>
      BY <1>0, <1>5, ReadEffect DEF Inv
    <2> QED  BY <1>2, <2>1
  <1>6. ASSUME NEW d \in Disposers, Sweep(d) PROVE StoreIsKept'
    <2>1. /\ phase[d] = "awaiting" /\ phase' = [phase EXCEPT ![d] = "done"]
          /\ store' = (IF d = Service THEN {} ELSE store \ awaited[d])
          /\ UNCHANGED <<status, owner>>
      BY <1>6 DEF Sweep
    <2>2. \A e \in Disposers : phase'[e] = IF e = d THEN "done" ELSE phase[e]
      BY <1>0, <2>1 DEF TypeOK
    <2> SUFFICES ASSUME NEW t \in TaskIds, status[t] # "absent", owner[t] \in Owners,
                        phase'[owner[t]] = "idle", phase'[Service] = "idle"
                 PROVE  t \in store'
      BY <2>1 DEF StoreIsKept
    <2>3. d # Service /\ d # owner[t]  BY <2>2, <1>d
    <2>4. t \in store  BY <1>0, <1>d, <2>2, <2>3 DEF StoreIsKept
    <2>5. t \notin awaited[d]
      <3>1. d \in Owners  BY <2>3 DEF Disposers
      <3> QED  BY <1>0, <2>3, <3>1 DEF AwaitedAreOwned
    <2> QED  BY <2>1, <2>3, <2>4, <2>5
  <1>7. ASSUME NEW d \in Disposers, NEW threw \in SUBSET TaskIds, Dispose(d, threw)
        PROVE  StoreIsKept'
    <2>1. /\ phase[d] = "idle" /\ phase' = [phase EXCEPT ![d] = "awaiting"]
          /\ \A t \in threw : status[t] \in Live
          /\ status' = [t \in TaskIds |->
                          IF t \in threw THEN "failed"
                          ELSE IF t \in TasksOf(d) /\ status[t] \in Live THEN "stopping"
                          ELSE status[t]]
          /\ UNCHANGED <<owner, store>>
      BY <1>0, <1>7, DisposeEffect
    <2>2. \A e \in Disposers : phase'[e] = "idle" => phase[e] = "idle"
      BY <1>0, <2>1 DEF TypeOK
    <2>3. \A u \in TaskIds : status[u] = "absent" => status'[u] = "absent"
      BY <2>1 DEF Live
    <2> QED  BY <1>0, <1>d, <2>1, <2>2, <2>3 DEF StoreIsKept
  <1>8. CASE UNCHANGED vars  BY <1>2, <1>8 DEF vars, disposal
  <1> QED  BY <1>1, <1>3, <1>4, <1>5, <1>6, <1>7, <1>8, StepCases

\* What is settled keeps its outcome, and is not announced again.
LEMMA FinalStep ==
  Inv /\ [Next]_vars =>
      \A t \in TaskIds : status[t] \in Terminal =>
          status'[t] = status[t] /\ ("notice" \in told'[t] => "notice" \in told[t])
  <1> DEFINE Kept == \A t \in TaskIds : status[t] \in Terminal =>
          status'[t] = status[t] /\ ("notice" \in told'[t] => "notice" \in told[t])
  <1> SUFFICES ASSUME Inv, [Next]_vars PROVE Kept  OBVIOUS
  <1>0. TypeOK  BY DEF Inv
  <1>1. ASSUME NEW t \in TaskIds, NEW o \in Owners \cup {Nobody}, Start(t, o) PROVE Kept
    BY <1>0, <1>1 DEF Start, outcome, TypeOK, Terminal
  <1>2. ASSUME NEW t \in TaskIds, ProducerEnds(t) \/ Kill(t) PROVE Kept
    BY <1>0, <1>2 DEF ProducerEnds, Kill, outcome, TypeOK
  <1>3. ASSUME NEW t \in TaskIds, NEW s \in Terminal, Settle(t, s) PROVE Kept
    <2>1. \/ /\ status[t] \notin Terminal /\ status' = [status EXCEPT ![t] = s]
             /\ Announce({t})
          \/ UNCHANGED <<status, told>>
      BY <1>0, <1>3, SettleEffect
    <2>2. CASE UNCHANGED <<status, told>>  BY <2>2
    <2>3. CASE /\ status[t] \notin Terminal /\ status' = [status EXCEPT ![t] = s]
               /\ Announce({t})
      <3>1. \A u \in TaskIds \ {t} : told'[u] = told[u]
        BY <1>0, <2>3, AnnounceEffect
      <3> QED  BY <1>0, <2>3, <3>1 DEF TypeOK
    <2> QED  BY <2>1, <2>2, <2>3
  <1>4. ASSUME NEW r \in Reads, Reading(r) PROVE Kept
    <2>1. UNCHANGED status  BY <1>0, <1>4, ReadEffect DEF Inv
    <2>2. \A t \in TaskIds : "notice" \in told'[t] => "notice" \in told[t]
      BY <1>0, <1>4, ReadTells DEF Inv
    <2> QED  BY <2>1, <2>2
  <1>5. ASSUME NEW d \in Disposers, Sweep(d) PROVE Kept
    BY <1>5 DEF Sweep, outcome
  <1>6. ASSUME NEW d \in Disposers, NEW threw \in SUBSET TaskIds, Dispose(d, threw) PROVE Kept
    <2>1. /\ \A t \in threw : status[t] \in Live
          /\ status' = [t \in TaskIds |->
                          IF t \in threw THEN "failed"
                          ELSE IF t \in TasksOf(d) /\ status[t] \in Live THEN "stopping"
                          ELSE status[t]]
          /\ Announce(threw)
      BY <1>0, <1>6, DisposeEffect
    <2>2. \A t \in TaskIds \ threw : told'[t] = told[t]
      BY <1>0, <2>1, AnnounceEffect
    <2> QED  BY <2>1, <2>2 DEF Live, Terminal
  <1>7. CASE UNCHANGED vars  BY <1>7 DEF vars, outcome
  <1> QED  BY <1>1, <1>2, <1>3, <1>4, <1>5, <1>6, <1>7, StepCases

-----------------------------------------------------------------------------
(* Who learns of an outcome.                                               *)

\* The owner is reached, or a caller was cancelled after its wait was resolved.
Answered(t) == Reached(t) \/ \E r \in Reads : read[r].task = t /\ read[r].cancelled

\* A call that will tell of an outcome goes on to tell it, unless it is cancelled.
LEMMA TellerGoesOn ==
  ASSUME Inv, NEW r \in Reads, Reading(r), NEW t \in TaskIds, Due(t), WillTell(r, t)
  PROVE  told'[t] # {} \/ WillTell(r, t)' \/ (read'[r].task = t /\ read'[r].cancelled)
  <1>0. TypeOK /\ StoreIsKept  BY DEF Inv
  <1>1. /\ read[r].task = t /\ ~read[r].cancelled /\ status[t] \in Terminal
        /\ \/ read[r].at \in {"resolved", "returned"}
           \/ read[r].at = "holding" /\ read[r].final
    BY DEF WillTell, Due
  <1>2. t \in store  BY <1>0, <1>1 DEF Due, StoreIsKept, Terminal
  <1>3. read \in [Reads -> ReadState]  BY <1>0 DEF TypeOK, ReadState
  <1>4. CASE Return(r)
    <2>1. read'[r].at = "returned" /\ read'[r].task = t /\ read'[r].cancelled = read[r].cancelled
      BY <1>1, <1>3, <1>4 DEF Return, At, ReadState
    <2> QED  BY <1>1, <2>1 DEF WillTell
  <1>5. CASE Read(r)
    <2>1. read' = [read EXCEPT ![r].at = "holding", ![r].final = status[t] \in Terminal]
      BY <1>1, <1>2, <1>5 DEF Read
    <2>2. /\ read'[r].at = "holding" /\ read'[r].task = t
          /\ read'[r].cancelled = read[r].cancelled /\ read'[r].final = TRUE
      BY <1>1, <1>3, <2>1 DEF ReadState
    <2> QED  BY <1>1, <2>2 DEF WillTell
  <1>6. CASE Deliver(r)
    <2>1. told' = [told EXCEPT ![t] = @ \cup {"reader"}]
      BY <1>1, <1>6 DEF Deliver
    <2> QED  BY <1>0, <2>1 DEF TypeOK
  <1>7. CASE LateCancel(r)
    <2>1. read'[r].cancelled = TRUE /\ read'[r].task = t
      BY <1>1, <1>3, <1>7 DEF LateCancel, ReadState
    <2> QED  BY <2>1
  <1> QED  BY <1>1, <1>4, <1>5, <1>6, <1>7 DEF Reading, Poll, Wait, Timeout, AbortWait

\* An outcome announced by a settlement is sent to the owner, unless somebody
\* who waits for the task, or has killed it, knows of it.
LEMMA AnnouncedIsAnswered ==
  ASSUME Inv, NEW settled \in SUBSET TaskIds, Announce(settled), NEW t \in settled,
         status[t] \notin Terminal, owner[t] \in Owners, phase'[Service] = "idle"
  PROVE  Answered(t)'
  <1>0. TypeOK /\ ReportsAreOwed  BY DEF Inv
  <1>1. /\ told[t] \subseteq told'[t]
        /\ Noticed(t) => "notice" \in told'[t]
        /\ \A r \in Reads :
              IF read[r].at = "waiting" /\ read[r].task \in settled
              THEN /\ read'[r].at = "resolved" /\ read'[r].task = read[r].task
                   /\ read'[r].cancelled = read[r].cancelled
              ELSE read'[r] = read[r]
    BY <1>0, AnnounceEffect
  <1>2. CASE ~TakenOver(t)
    <2>1. "notice" \in told'[t]  BY <1>1, <1>2 DEF Noticed
    <2> QED  BY <2>1 DEF Answered, Reached
  <1>3. CASE reported[t]
    <2>1. told[t] # {}  BY <1>0, <1>3 DEF ReportsAreOwed
    <2> QED  BY <1>1, <2>1 DEF Answered, Reached
  <1>4. CASE WaitersOf(t) # {}
    <2>1. PICK r \in Reads : read[r].task = t /\ read[r].at \in {"waiting", "resolved"}
      BY <1>4 DEF WaitersOf
    <2>2. read'[r].task = t /\ read'[r].at = "resolved"
      BY <1>1, <2>1
    <2>3. WillTell(r, t)' \/ read'[r].cancelled
      BY <2>2 DEF WillTell
    <2> QED  BY <2>2, <2>3 DEF Answered, Reached
  <1> QED  BY <1>2, <1>3, <1>4 DEF TakenOver

\* An outcome reaches its owner: who takes it over from the notice tells it,
\* or stays marked until someone does.
LEMMA ReachStep == Inv /\ [Next]_vars => ReportsAreOwed' /\ OutcomeReachesOwner'
  <1> DEFINE Kept == ReportsAreOwed' /\ OutcomeReachesOwner'
  <1> SUFFICES ASSUME Inv, [Next]_vars PROVE Kept  OBVIOUS
  <1>0. TypeOK /\ ReadsAreAligned /\ ReportsAreOwed
        /\ \A t \in TaskIds : Due(t) => Answered(t)
    BY DEF Inv, OutcomeReachesOwner, Answered
  <1>d. Service \in Disposers /\ Owners \subseteq Disposers
    BY DEF Disposers
  \* A step that leaves the reads alone, tells no less, and makes nothing due
  <1>1. ASSUME read' = read, \A t \in TaskIds : told[t] \subseteq told'[t],
               \A t \in TaskIds : Due(t)' => Due(t)
        PROVE  OutcomeReachesOwner'
    BY <1>0, <1>1 DEF OutcomeReachesOwner, Answered, Reached, WillTell
  <1>2. ASSUME NEW t \in TaskIds, NEW o \in Owners \cup {Nobody}, Start(t, o) PROVE Kept
    <2>1. /\ status[t] = "absent" /\ status' = [status EXCEPT ![t] = "running"]
          /\ owner' = [owner EXCEPT ![t] = o]
          /\ UNCHANGED <<reported, told, read, phase>>
      BY <1>2 DEF Start, outcome, disposal
    <2>2. \A u \in TaskIds : /\ u # t => status'[u] = status[u] /\ owner'[u] = owner[u]
                             /\ u = t => status'[u] = "running"
      BY <1>0, <2>1 DEF TypeOK
    <2>3. \A u \in TaskIds : Due(u)' => Due(u)
      BY <2>1, <2>2 DEF Due, Terminal
    <2>4. ReportsAreOwed'  BY <1>0, <2>1, <2>2 DEF ReportsAreOwed, Terminal
    <2> QED  BY <1>1, <2>1, <2>3, <2>4
  <1>3. ASSUME NEW t \in TaskIds, ProducerEnds(t) PROVE Kept
    <2>1. UNCHANGED <<status, owner, reported, told, read, phase>>
      BY <1>3 DEF ProducerEnds, outcome, disposal
    <2> QED  BY <1>0, <1>1, <2>1 DEF ReportsAreOwed, Due
  <1>4. ASSUME NEW t \in TaskIds, Kill(t) PROVE Kept
    <2>1. UNCHANGED <<owner, read, phase>>  BY <1>4 DEF Kill, disposal
    <2>2. \A u \in TaskIds : /\ status'[u] \in Terminal => status[u] \in Terminal
                             /\ status[u] \in Terminal => status'[u] = status[u]
      BY <1>0, <1>4 DEF Kill, TypeOK, Terminal
    <2>3. \A u \in TaskIds : /\ told[u] \subseteq told'[u]
                             /\ u # t => reported'[u] = reported[u] /\ told'[u] = told[u]
                             /\ u = t => "killer" \in told'[u]
      BY <1>0, <1>4 DEF Kill, TypeOK
    <2>4. \A u \in TaskIds : Due(u)' => Due(u)  BY <2>1, <2>2 DEF Due
    <2>5. ReportsAreOwed'  BY <1>0, <2>2, <2>3 DEF ReportsAreOwed
    <2> QED  BY <1>1, <2>1, <2>3, <2>4, <2>5
  <1>5. ASSUME NEW settled \in SUBSET TaskIds, Announce(settled), UNCHANGED owner,
               \A t \in TaskIds \ settled : /\ Due(t)' => Due(t)
                                            /\ status'[t] \notin Terminal
                                               => status[t] \notin Terminal,
               \A t \in settled : status[t] \notin Terminal /\ status'[t] \in Terminal
        PROVE  Kept
    <2>1. /\ \A t \in TaskIds \ settled : reported'[t] = reported[t] /\ told'[t] = told[t]
          /\ \A t \in TaskIds : told[t] \subseteq told'[t]
          /\ \A r \in Reads :
                IF read[r].at = "waiting" /\ read[r].task \in settled
                THEN /\ read'[r].at = "resolved" /\ read'[r].task = read[r].task
                     /\ read'[r].cancelled = read[r].cancelled
                ELSE read'[r] = read[r]
      BY <1>0, <1>5, AnnounceEffect
    <2>2. ReportsAreOwed'
      BY <1>0, <1>5, <2>1 DEF ReportsAreOwed
    <2>3. ASSUME NEW t \in TaskIds \ settled, Due(t)' PROVE Answered(t)'
      <3>1. Answered(t)  BY <1>0, <1>5, <2>3
      <3>2. \A r \in Reads : WillTell(r, t) => read'[r] = read[r]
        BY <2>1 DEF WillTell
      <3>3. \A r \in Reads : /\ read'[r].task = read[r].task
                             /\ read'[r].cancelled = read[r].cancelled
        BY <2>1
      <3> QED  BY <2>1, <3>1, <3>2, <3>3 DEF Answered, Reached, WillTell
    <2>4. ASSUME NEW t \in settled, Due(t)' PROVE Answered(t)'
      <3>1. owner[t] \in Owners /\ phase'[Service] = "idle"
        BY <1>5, <2>4 DEF Due
      <3> QED  BY <1>5, <3>1, AnnouncedIsAnswered
    <2>5. OutcomeReachesOwner'
      BY <2>3, <2>4 DEF OutcomeReachesOwner, Answered
    <2> QED  BY <2>2, <2>5
  <1>6. ASSUME NEW t \in TaskIds, NEW s \in Terminal, Settle(t, s) PROVE Kept
    <2>1. /\ UNCHANGED <<owner, phase>>
          /\ \/ /\ status[t] \notin Terminal /\ status' = [status EXCEPT ![t] = s]
                /\ Announce({t})
             \/ UNCHANGED <<status, reported, told, read>>
      BY <1>0, <1>6, SettleEffect
    <2>2. CASE UNCHANGED <<status, reported, told, read>>
      BY <1>0, <1>1, <2>1, <2>2 DEF ReportsAreOwed, Due
    <2>3. CASE /\ status[t] \notin Terminal /\ status' = [status EXCEPT ![t] = s]
               /\ Announce({t})
      <3>1. \A u \in TaskIds \ {t} : status'[u] = status[u]
        BY <1>0, <2>3 DEF TypeOK
      <3>2. status'[t] \in Terminal  BY <1>0, <2>3 DEF TypeOK
      <3>3. \A u \in TaskIds \ {t} : Due(u)' => Due(u)
        BY <2>1, <3>1 DEF Due
      <3> QED  BY <1>5, <2>1, <2>3, <3>1, <3>2, <3>3
    <2> QED  BY <2>1, <2>2, <2>3
  <1>7. ASSUME NEW r \in Reads, Reading(r) PROVE Kept
    <2>1. /\ UNCHANGED <<status, owner, phase>>
          /\ \A q \in Reads \ {r} : read'[q] = read[q]
          /\ read[r].at # "none" => read'[r].task = read[r].task
          /\ read[r].cancelled => read'[r].cancelled
      BY <1>0, <1>7, ReadEffect
    <2>2. \A t \in TaskIds : /\ reported'[t] => reported[t] \/ status[t] \in Terminal
                             /\ told[t] \subseteq told'[t]
      BY <1>0, <1>7, ReadTells
    <2>3. ReportsAreOwed'
      BY <1>0, <2>1, <2>2 DEF ReportsAreOwed
    <2>4. ASSUME NEW t \in TaskIds, Due(t)' PROVE Answered(t)'
      <3>1. Due(t) /\ Answered(t)  BY <1>0, <2>1, <2>4 DEF Due
      <3>2. CASE told[t] # {}  BY <2>2, <3>2 DEF Answered, Reached
      <3>3. ASSUME NEW q \in Reads, WillTell(q, t) PROVE Answered(t)'
        <4>1. CASE q # r
          BY <2>1, <3>3, <4>1 DEF Answered, Reached, WillTell
        <4>2. CASE q = r
          BY <1>7, <3>1, <3>3, <4>2, TellerGoesOn DEF Answered, Reached
        <4> QED  BY <4>1, <4>2
      <3>4. ASSUME NEW q \in Reads, read[q].task = t, read[q].cancelled PROVE Answered(t)'
        <4>1. read'[q].task = t /\ read'[q].cancelled
          BY <1>0, <2>1, <3>4 DEF ReadsAreAligned
        <4> QED  BY <4>1 DEF Answered
      <3> QED  BY <3>1, <3>2, <3>3, <3>4 DEF Answered, Reached
    <2> QED  BY <2>3, <2>4 DEF OutcomeReachesOwner, Answered
  <1>8. ASSUME NEW d \in Disposers, Sweep(d) PROVE Kept
    <2>1. /\ phase[d] = "awaiting" /\ phase' = [phase EXCEPT ![d] = "done"]
          /\ UNCHANGED <<status, owner, reported, told, read>>
      BY <1>8 DEF Sweep, outcome
    <2>2. \A e \in Disposers : phase'[e] = "idle" => phase[e] = "idle"
      BY <1>0, <2>1 DEF TypeOK
    <2>3. \A t \in TaskIds : Due(t)' => Due(t)  BY <1>d, <2>1, <2>2 DEF Due
    <2> QED  BY <1>0, <1>1, <2>1, <2>3 DEF ReportsAreOwed
  <1>9. ASSUME NEW d \in Disposers, NEW threw \in SUBSET TaskIds, Dispose(d, threw)
        PROVE  Kept
    <2>1. /\ phase[d] = "idle" /\ phase' = [phase EXCEPT ![d] = "awaiting"]
          /\ \A t \in threw : status[t] \in Live
          /\ status' = [t \in TaskIds |->
                          IF t \in threw THEN "failed"
                          ELSE IF t \in TasksOf(d) /\ status[t] \in Live THEN "stopping"
                          ELSE status[t]]
          /\ Announce(threw) /\ UNCHANGED owner
      BY <1>0, <1>9, DisposeEffect
    <2>2. \A e \in Disposers : phase'[e] = "idle" => phase[e] = "idle"
      BY <1>0, <2>1 DEF TypeOK
    <2>3. \A t \in TaskIds \ threw : /\ status'[t] \in Terminal => status[t] \in Terminal
                                     /\ status[t] \in Terminal => status'[t] \in Terminal
      BY <2>1 DEF Live, Terminal
    <2>4. \A t \in TaskIds \ threw : Due(t)' => Due(t)
      BY <1>d, <2>1, <2>2, <2>3 DEF Due
    <2>5. \A t \in threw : status[t] \notin Terminal /\ status'[t] \in Terminal
      BY <2>1 DEF Live, Terminal
    <2> QED  BY <1>5, <2>1, <2>3, <2>4, <2>5
  <1>10. CASE UNCHANGED vars
    <2>1. UNCHANGED <<status, owner, reported, told, read, phase>>
      BY <1>10 DEF vars, outcome, disposal
    <2> QED  BY <1>0, <1>1, <2>1 DEF ReportsAreOwed, Due
  <1> QED  BY <1>2, <1>3, <1>4, <1>6, <1>7, <1>8, <1>9, <1>10, StepCases

-----------------------------------------------------------------------------
(* What the registry promises.                                             *)

\* The registry keeps its invariant.
THEOREM InvHolds == Spec => []Inv
  <1>1. Inv /\ [Next]_vars => Inv'
    BY TypeStep, ReadsStep, DisposalStep, StoreStep, ReachStep DEF Inv
  <1> QED  BY <1>1, InvInit, PTL DEF Spec

\* A settlement releases every wait on its task, and a teardown waits for the
\* producers it must wait for and for nothing else.
THEOREM NobodyIsLeftBehind == Spec => []NobodyIsLeft
  <1>1. Inv => NobodyIsLeft  BY DEF Inv, NobodyIsLeft
  <1> QED  BY <1>1, InvHolds, PTL

\* An outcome is never lost between the notice and the waits, reads and kills
\* that suppress it, unless a caller is cancelled after its wait was resolved.
THEOREM OutcomeIsReported == Spec => []OutcomeReachesOwner
  <1>1. Inv => OutcomeReachesOwner  BY DEF Inv
  <1> QED  BY <1>1, InvHolds, PTL

\* Settlement is first-wins.
THEOREM FirstOutcomeWins == Spec => OutcomeIsFinal
  <1>1. Inv /\ [Next]_vars =>
          [\A t \in TaskIds : status[t] \in Terminal =>
              status'[t] = status[t] /\ ("notice" \in told'[t] => "notice" \in told[t])]_vars
    BY FinalStep
  <1> QED  BY <1>1, InvHolds, PTL DEF Spec, OutcomeIsFinal

-----------------------------------------------------------------------------
(* Crash recovery.  Natural numbers and sequences.                         *)

\* Every nonempty set of natural numbers has a least element: the form of
\* induction that the proofs about the log use.
LEMMA Least ==
  ASSUME NEW T \in SUBSET Nat, T # {}
  PROVE  \E n \in T : \A m \in T : n <= m
<1> DEFINE R == OpToRel(<, Nat)
<1>1. IsWellFoundedOn(R, Nat)  BY NatLessThanWellFounded
<1>2. \A x, y \in Nat : y < x => <<y, x>> \in R
  BY DEF OpToRel
<1> HIDE DEF R
<1>3. PICK n \in T : \A m \in T : ~(<<m, n>> \in R)
  BY <1>1, WFMin
<1>4. ASSUME NEW m \in T PROVE n <= m
  <2>1. n \in Nat /\ m \in Nat  OBVIOUS
  <2>2. ~(m < n)  BY <2>1, <1>2, <1>3, Zenon
  <2> QED  BY <2>1, <2>2
<1> QED  BY <1>4

\* A set of numbers up to a bound that holds 0 and the successor of each of its
\* members below the bound holds them all.
LEMMA UpTo ==
  ASSUME NEW n \in Nat, NEW G, 0 \in G, \A k \in 1..n : k - 1 \in G => k \in G
  PROVE  \A k \in 0..n : k \in G
<1> SUFFICES ASSUME NEW b \in 0..n, b \notin G PROVE FALSE
  OBVIOUS
<1> DEFINE T == {k \in 0..n : k \notin G}
<1>1. T \in SUBSET Nat /\ T # {}  OBVIOUS
<1>2. PICK k \in T : \A m \in T : k <= m
  <2> HIDE DEF T
  <2> QED  BY <1>1, Least
<1>3. k # 0 /\ k \in 1..n /\ k \notin G  OBVIOUS
<1>4. k - 1 \notin T  BY <1>2, <1>3
<1>5. k - 1 \in G  BY <1>3, <1>4
<1> QED  BY <1>3, <1>5

\* A nonempty set of numbers up to a bound has a greatest one.
LEMMA Greatest ==
  ASSUME NEW n \in Nat, NEW T \in SUBSET (0..n), T # {}
  PROVE  \E m \in T : \A k \in T : k <= m
<1> DEFINE U == {n - k : k \in T}
<1>1. \A u \in U : u \in Nat /\ n - u \in T  OBVIOUS
<1>2. U # {} /\ U \in SUBSET Nat  BY <1>1
<1>3. \A k \in T : n - k \in U  OBVIOUS
<1> HIDE DEF U
<1>4. PICK u \in U : \A v \in U : u <= v  BY <1>2, Least
<1>5. n - u \in T  BY <1>1
<1>6. ASSUME NEW k \in T PROVE k <= n - u
  <2>1. u <= n - k /\ u \in Nat /\ k \in 0..n  BY <1>1, <1>3, <1>4
  <2> QED  BY <2>1
<1> QED  BY <1>5, <1>6

\* An enumeration of a finite set of numbers in order.
Sorts(order, set) ==
  /\ order \in [1..Cardinality(set) -> set]
  /\ \A i, j \in 1..Cardinality(set) : i < j => order[i] < order[j]

\* Every set of calls can be put in order.
LEMMA CanBeSorted ==
  ASSUME NEW set \in SUBSET Calls
  PROVE  IsFiniteSet(set) /\ Cardinality(set) \in Nat /\ \E order : Sorts(order, set)
<1> DEFINE G == {n \in Nat : \A X \in SUBSET Calls :
                   Cardinality(X) = n => \E order : Sorts(order, X)}
<1>0. \A X \in SUBSET Calls : IsFiniteSet(X) /\ Cardinality(X) \in Nat
  <2>1. IsFiniteSet(Calls)  BY BoundsAreNaturals, FS_Interval DEF Calls
  <2> QED  BY <2>1, FS_Subset, FS_CardinalityType
<1>1. 0 \in G
  <2>1. ASSUME NEW X \in SUBSET Calls, Cardinality(X) = 0 PROVE \E order : Sorts(order, X)
    <3> DEFINE none == [i \in 1..0 |-> i]
    <3>1. 1..Cardinality(X) = {} /\ 1..0 = {}  BY <2>1
    <3>2. none \in [1..Cardinality(X) -> X]  BY <3>1
    <3>3. Sorts(none, X)  BY <3>1, <3>2 DEF Sorts
    <3> HIDE DEF none
    <3> QED  BY <3>3
  <2> QED  BY <2>1
<1>2. ASSUME NEW n \in Nat, n \in G, NEW X \in SUBSET Calls, Cardinality(X) = n + 1
      PROVE  \E order : Sorts(order, X)
  <2>1. X # {}
    <3>1. Cardinality(X) # 0  BY <1>2
    <3> QED  BY <3>1, FS_EmptySet
  <2>2. X \in SUBSET (0..MaxCalls) /\ MaxCalls \in Nat
    BY BoundsAreNaturals DEF Calls
  <2>3. PICK last \in X : \A r \in X : r <= last
    BY <2>1, <2>2, Greatest
  <2> DEFINE rest == X \ {last}
  <2>4. rest \in SUBSET Calls /\ Cardinality(rest) = n
    <3>1. Cardinality(rest) = Cardinality(X) - 1
      BY <1>0, <2>3, FS_RemoveElement
    <3> QED  BY <3>1, <1>2
  <2>5. PICK first : Sorts(first, rest)
    <3> HIDE DEF rest
    <3> QED  BY <1>2, <2>4
  <2>6. /\ \A i \in 1..n : first[i] \in X /\ first[i] # last
        /\ \A i, j \in 1..n : i < j => first[i] < first[j]
    BY <2>4, <2>5 DEF Sorts
  <2> DEFINE order == [i \in 1..(n + 1) |-> IF i = n + 1 THEN last ELSE first[i]]
  <2>7. order \in [1..(n + 1) -> X]
    <3>1. ASSUME NEW i \in 1..(n + 1)
          PROVE  (IF i = n + 1 THEN last ELSE first[i]) \in X
      <4>1. i = n + 1 \/ i \in 1..n  OBVIOUS
      <4> QED  BY <2>6, <4>1
    <3> QED  BY <3>1
  <2>8. ASSUME NEW i \in 1..(n + 1), NEW j \in 1..(n + 1), i < j
        PROVE  order[i] < order[j]
    <3>1. i \in 1..n /\ i # n + 1  BY <2>8
    <3>2. order[i] = first[i]  BY <3>1
    <3>3. CASE j = n + 1
      <4>1. order[j] = last  BY <3>3
      <4>2. first[i] \in X /\ first[i] # last  BY <2>6, <3>1
      <4>3. first[i] \in 0..MaxCalls /\ last \in 0..MaxCalls /\ first[i] <= last
        BY <2>2, <2>3, <4>2
      <4>4. first[i] < last  BY <2>2, <4>2, <4>3
      <4> QED  BY <3>2, <4>1, <4>4
    <3>4. CASE j # n + 1
      <4>1. j \in 1..n /\ order[j] = first[j]  BY <3>4
      <4> QED  BY <2>6, <2>8, <3>1, <3>2, <4>1
    <3> QED  BY <3>3, <3>4
  <2>9. Sorts(order, X)
    <3> HIDE DEF order
    <3> QED  BY <1>2, <2>7, <2>8 DEF Sorts
  <2> HIDE DEF order
  <2> QED  BY <2>9
<1>3. \A k \in 1..Cardinality(set) : k - 1 \in G => k \in G
  <2>1. ASSUME NEW k \in 1..Cardinality(set), k - 1 \in G PROVE k \in G
    <3>1. k - 1 \in Nat /\ (k - 1) + 1 = k /\ k \in Nat  BY <1>0
    <3>2. \A X \in SUBSET Calls : Cardinality(X) = k => \E order : Sorts(order, X)
      BY <1>2, <2>1, <3>1
    <3> QED  BY <3>1, <3>2
  <2> QED  BY <2>1
<1>4. Cardinality(set) \in G
  <2> HIDE DEF G
  <2>1. Cardinality(set) \in Nat /\ Cardinality(set) \in 0..Cardinality(set)  BY <1>0
  <2> QED  BY <1>1, <1>3, <2>1, UpTo
<1> QED  BY <1>0, <1>4

\* The order of the calls of an answer names each of them once.
LEMMA InOrderEnumerates ==
  ASSUME NEW set \in SUBSET Calls
  PROVE  /\ Cardinality(set) \in Nat
         /\ set = {} => Cardinality(set) = 0
         /\ InOrder(set) \in [1..Cardinality(set) -> set]
         /\ \A i, j \in 1..Cardinality(set) : i # j => InOrder(set)[i] # InOrder(set)[j]
         /\ \A c \in set : \E i \in 1..Cardinality(set) : InOrder(set)[i] = c
<1> DEFINE n == Cardinality(set)
<1>1. n \in Nat /\ IsFiniteSet(set)  BY CanBeSorted
<1>2. Sorts(InOrder(set), set)
  <2>1. PICK p : Sorts(p, set)  BY CanBeSorted
  <2>2. \E o \in [1..Cardinality(set) -> set] :
          \A i, j \in 1..Cardinality(set) : i < j => o[i] < o[j]
    BY <2>1 DEF Sorts
  <2> QED  BY <2>2 DEF InOrder, Sorts
<1> DEFINE order == InOrder(set)
<1>3. /\ order \in [1..n -> set]
      /\ \A i, j \in 1..n : i < j => order[i] < order[j]
  BY <1>2 DEF Sorts
<1> HIDE DEF order, n
<1>4. ASSUME NEW i \in 1..n, NEW j \in 1..n, i # j PROVE order[i] # order[j]
  <2>1. order[i] \in Calls /\ order[j] \in Calls  BY <1>3
  <2>2. order[i] \in Nat /\ order[j] \in Nat  BY <2>1, BoundsAreNaturals DEF Calls
  <2>3. i < j \/ j < i  BY <1>1, <1>4
  <2> QED  BY <1>3, <2>2, <2>3
<1>5. order \in Injection(1..n, set)
  BY <1>3, <1>4, Fun_IsInj DEF Injection
<1>6. Cardinality(1..n) = Cardinality(set)
  BY <1>1, FS_Interval DEF n
<1>7. order \in Surjection(1..n, set)
  BY <1>1, <1>5, <1>6, FS_Injection
<1>8. \A c \in set : \E i \in 1..n : order[i] = c
  BY <1>7 DEF Surjection
<1>9. set = {} => n = 0  BY FS_EmptySet DEF n
<1> QED  BY <1>1, <1>3, <1>4, <1>8, <1>9 DEF order, n

-----------------------------------------------------------------------------
(* Reading a log event by event.                                           *)

\* The bookkeeping of an empty log.
Fresh == Companion(None)!FreshTrace(0)

\* f is the bookkeeping after each of the first n events.
TracesAs(f, events, n) ==
  f = [k \in 0 .. n |-> IF k = 0 THEN Fresh ELSE Seen(f[k - 1], events[k])]

\* A log of any length can be followed, one event after the other (seedSession).
LEMMA TracesRun ==
  ASSUME NEW events, Len(events) \in Nat
  PROVE  /\ Traces(events)[0] = Fresh
         /\ \A n \in 1..Len(events) :
              Traces(events)[n] = Seen(Traces(events)[n - 1], events[n])
<1> DEFINE G == {n \in 0..Len(events) : \E f : TracesAs(f, events, n)}
<1>1. 0 \in G
  <2> DEFINE f == [k \in 0..0 |-> Fresh]
  <2>1. \A k \in 0..0 : k = 0  OBVIOUS
  <2>2. TracesAs(f, events, 0)  BY <2>1 DEF TracesAs
  <2>3. \E g : TracesAs(g, events, 0)
    <3> HIDE DEF f
    <3> QED  BY <2>2
  <2> QED  BY <2>3
<1>2. ASSUME NEW n \in 1..Len(events), n - 1 \in G
      PROVE  n \in G
  <2>1. PICK h : TracesAs(h, events, n - 1)  BY <1>2
  <2> DEFINE f == [k \in 0..n |-> IF k = n THEN Seen(h[n - 1], events[n]) ELSE h[k]]
  <2>2. ASSUME NEW k \in 0..n
        PROVE  f[k] = IF k = 0 THEN Fresh ELSE Seen(f[k - 1], events[k])
    <3>1. CASE k = n
      <4>1. n # 0 /\ n - 1 \in 0..n /\ n - 1 # n  OBVIOUS
      <4>2. f[k] = Seen(h[n - 1], events[n]) /\ f[n - 1] = h[n - 1]  BY <3>1, <4>1
      <4> QED  BY <3>1, <4>1, <4>2
    <3>2. CASE k # n
      <4>1. k \in 0..(n - 1)  BY <3>2
      <4>2. h[k] = IF k = 0 THEN Fresh ELSE Seen(h[k - 1], events[k])
        BY <2>1, <4>1 DEF TracesAs
      <4>3. f[k] = h[k]  BY <3>2
      <4>4. k # 0 => f[k - 1] = h[k - 1]  BY <4>1
      <4> QED  BY <4>2, <4>3, <4>4
    <3> QED  BY <3>1, <3>2
  <2>3. f = [k \in 0..n |-> f[k]]  OBVIOUS
  <2> HIDE DEF f
  <2>4. TracesAs(f, events, n)  BY <2>2, <2>3 DEF TracesAs
  <2> QED  BY <2>4
<1>3. Len(events) \in G
  <2> HIDE DEF G
  <2>1. Len(events) \in 0..Len(events)  OBVIOUS
  <2> QED  BY <1>1, <1>2, <2>1, UpTo
<1>4. Traces(events) = CHOOSE f : TracesAs(f, events, Len(events))
  BY DEF Traces, TracesAs, Fresh
<1>5. TracesAs(Traces(events), events, Len(events))  BY <1>3, <1>4
<1>6. \A n \in 0..Len(events) : Traces(events)[n] =
         IF n = 0 THEN Fresh ELSE Seen(Traces(events)[n - 1], events[n])
  BY <1>5 DEF TracesAs
<1>7. 0 \in 0..Len(events) /\ \A n \in 1..Len(events) : n \in 0..Len(events) /\ n # 0
  OBVIOUS
<1> QED  BY <1>6, <1>7

\* f is what is open after each of the first n events.
CursorsAs(f, events, n) ==
  f = [k \in 0 .. n |-> IF k = 0 THEN NothingOpen ELSE Follow(f[k - 1], events[k])]

\* So can its open tail be (the loop of interruptedTurnClosers).
LEMMA CursorsRun ==
  ASSUME NEW events, Len(events) \in Nat
  PROVE  /\ Cursors(events)[0] = NothingOpen
         /\ \A n \in 1..Len(events) :
              Cursors(events)[n] = Follow(Cursors(events)[n - 1], events[n])
<1> DEFINE G == {n \in 0..Len(events) : \E f : CursorsAs(f, events, n)}
<1>1. 0 \in G
  <2> DEFINE f == [k \in 0..0 |-> NothingOpen]
  <2>1. \A k \in 0..0 : k = 0  OBVIOUS
  <2>2. CursorsAs(f, events, 0)  BY <2>1 DEF CursorsAs
  <2>3. \E g : CursorsAs(g, events, 0)
    <3> HIDE DEF f
    <3> QED  BY <2>2
  <2> QED  BY <2>3
<1>2. ASSUME NEW n \in 1..Len(events), n - 1 \in G
      PROVE  n \in G
  <2>1. PICK h : CursorsAs(h, events, n - 1)  BY <1>2
  <2> DEFINE f == [k \in 0..n |-> IF k = n THEN Follow(h[n - 1], events[n]) ELSE h[k]]
  <2>2. ASSUME NEW k \in 0..n
        PROVE  f[k] = IF k = 0 THEN NothingOpen ELSE Follow(f[k - 1], events[k])
    <3>1. CASE k = n
      <4>1. n # 0 /\ n - 1 \in 0..n /\ n - 1 # n  OBVIOUS
      <4>2. f[k] = Follow(h[n - 1], events[n]) /\ f[n - 1] = h[n - 1]  BY <3>1, <4>1
      <4> QED  BY <3>1, <4>1, <4>2
    <3>2. CASE k # n
      <4>1. k \in 0..(n - 1)  BY <3>2
      <4>2. h[k] = IF k = 0 THEN NothingOpen ELSE Follow(h[k - 1], events[k])
        BY <2>1, <4>1 DEF CursorsAs
      <4>3. f[k] = h[k]  BY <3>2
      <4>4. k # 0 => f[k - 1] = h[k - 1]  BY <4>1
      <4> QED  BY <4>2, <4>3, <4>4
    <3> QED  BY <3>1, <3>2
  <2>3. f = [k \in 0..n |-> f[k]]  OBVIOUS
  <2> HIDE DEF f
  <2>4. CursorsAs(f, events, n)  BY <2>2, <2>3 DEF CursorsAs
  <2> QED  BY <2>4
<1>3. Len(events) \in G
  <2> HIDE DEF G
  <2>1. Len(events) \in 0..Len(events)  OBVIOUS
  <2> QED  BY <1>1, <1>2, <2>1, UpTo
<1>4. Cursors(events) = CHOOSE f : CursorsAs(f, events, Len(events))
  BY DEF Cursors, CursorsAs
<1>5. CursorsAs(Cursors(events), events, Len(events))  BY <1>3, <1>4
<1>6. \A n \in 0..Len(events) : Cursors(events)[n] =
         IF n = 0 THEN NothingOpen ELSE Follow(Cursors(events)[n - 1], events[n])
  BY <1>5 DEF CursorsAs
<1>7. 0 \in 0..Len(events) /\ \A n \in 1..Len(events) : n \in 0..Len(events) /\ n # 0
  OBVIOUS
<1> QED  BY <1>6, <1>7

\* Both together, with the verdict of the invariant: what is read of a log.
Scan(events) ==
  [n \in 0..Len(events) |->
     [legal |-> \A i \in 1..n : Legal(Traces(events)[i - 1], events[i]),
      trace |-> Traces(events)[n], open |-> Cursors(events)[n]]]

Scanned(events) == Scan(events)[Len(events)]

Unscanned == [legal |-> TRUE, trace |-> Fresh, open |-> NothingOpen]

ScanEvent(r, e) ==
  [legal |-> r.legal /\ Legal(r.trace, e), trace |-> Seen(r.trace, e),
   open |-> Follow(r.open, e)]

\* A log is read one event after the other.
LEMMA ScanRuns ==
  ASSUME NEW events, Len(events) \in Nat
  PROVE  /\ Scan(events)[0] = Unscanned
         /\ \A n \in 1..Len(events) :
              Scan(events)[n] = ScanEvent(Scan(events)[n - 1], events[n])
<1> DEFINE legal(n) == \A i \in 1..n : Legal(Traces(events)[i - 1], events[i])
<1>1. \A n \in 0..Len(events) : Scan(events)[n] =
        [legal |-> legal(n), trace |-> Traces(events)[n], open |-> Cursors(events)[n]]
  BY DEF Scan
<1>2. Scan(events)[0] = Unscanned
  <2>1. legal(0) = TRUE
    <3>1. 1..0 = {}  OBVIOUS
    <3>2. legal(0)  BY <3>1
    <3> QED  BY <3>2
  <2>2. 0 \in 0..Len(events)  OBVIOUS
  <2> HIDE DEF legal
  <2> QED  BY <1>1, <2>1, <2>2, TracesRun, CursorsRun DEF Unscanned
<1>3. ASSUME NEW n \in 1..Len(events)
      PROVE  Scan(events)[n] = ScanEvent(Scan(events)[n - 1], events[n])
  <2>1. n \in 0..Len(events) /\ n - 1 \in 0..Len(events)  OBVIOUS
  <2>2. legal(n) = (legal(n - 1) /\ Legal(Traces(events)[n - 1], events[n]))
    <3>1. 1..n = (1..(n - 1)) \cup {n}  BY <2>1
    <3>2. legal(n) <=> legal(n - 1) /\ Legal(Traces(events)[n - 1], events[n])
      BY <3>1
    <3> QED  BY <3>2
  <2>3. /\ Traces(events)[n] = Seen(Traces(events)[n - 1], events[n])
        /\ Cursors(events)[n] = Follow(Cursors(events)[n - 1], events[n])
    BY TracesRun, CursorsRun
  <2> HIDE DEF legal
  <2>4. /\ Scan(events)[n - 1].legal = legal(n - 1)
        /\ Scan(events)[n - 1].trace = Traces(events)[n - 1]
        /\ Scan(events)[n - 1].open = Cursors(events)[n - 1]
    <3>1. Scan(events)[n - 1] = [legal |-> legal(n - 1), trace |-> Traces(events)[n - 1],
                                 open |-> Cursors(events)[n - 1]]
      BY <1>1, <2>1
    <3> QED  BY <3>1
  <2>5. Scan(events)[n] =
          [legal |-> legal(n), trace |-> Traces(events)[n], open |-> Cursors(events)[n]]
    BY <1>1, <2>1
  <2> QED  BY <2>2, <2>3, <2>4, <2>5 DEF ScanEvent
<1> QED  BY <1>2, <1>3

\* What the model reads of a log.
LEMMA ScannedReads ==
  ASSUME NEW events, Len(events) \in Nat, DOMAIN events = 1..Len(events)
  PROVE  /\ OpenTail(events) = Scanned(events).open
         /\ Traces(events)[Len(events)] = Scanned(events).trace
         /\ Scanned(events).legal <=>
              \A n \in DOMAIN events : Legal(Traces(events)[n - 1], events[n])
<1>1. Len(events) \in 0..Len(events)  OBVIOUS
<1>2. Scanned(events) =
        [legal |-> \A n \in 1..Len(events) : Legal(Traces(events)[n - 1], events[n]),
         trace |-> Traces(events)[Len(events)], open |-> Cursors(events)[Len(events)]]
  BY <1>1 DEF Scanned, Scan
<1>3. Scanned(events).legal <=>
        \A n \in DOMAIN events : Legal(Traces(events)[n - 1], events[n])
  BY <1>2
<1> QED  BY <1>2, <1>3 DEF OpenTail

\* Two logs that agree up to a place read the same up to that place.
LEMMA ScanAgrees ==
  ASSUME NEW a, NEW b, Len(a) \in Nat, Len(b) \in Nat,
         NEW n \in Nat, n <= Len(a), n <= Len(b), \A i \in 1..n : a[i] = b[i]
  PROVE  \A k \in 0..n : Scan(a)[k] = Scan(b)[k]
<1> DEFINE f == Scan(a)
           g == Scan(b)
           G == {k \in 0..n : f[k] = g[k]}
<1>1. f[0] = g[0] /\ 0 \in 0..n  BY ScanRuns
<1>2. ASSUME NEW k \in 1..n, k - 1 \in G PROVE k \in G
  <2>1. f[k - 1] = g[k - 1] /\ a[k] = b[k] /\ k \in 0..n /\ k \in 1..Len(a) /\ k \in 1..Len(b)
    BY <1>2
  <2>2. f[k] = ScanEvent(f[k - 1], a[k]) /\ g[k] = ScanEvent(g[k - 1], b[k])
    <3> HIDE DEF G
    <3> QED  BY <2>1, ScanRuns
  <2> HIDE DEF f, g
  <2> QED  BY <2>1, <2>2
<1> HIDE DEF f, g
<1>3. 0 \in G  BY <1>1
<1>4. \A k \in 0..n : k \in G
  <2> HIDE DEF G
  <2> QED  BY <1>2, <1>3, UpTo
<1> QED  BY <1>4 DEF f, g

\* The events of the session.
LogEvent ==
  {e \in [type : EventTypes, turn : 0 .. MaxTurns, step : 0 .. MaxSteps,
          calls : SUBSET Calls,
          code : {"none", "ok", "unknown", "not-started", "interrupted"}] :
     /\ e.type \in {"tool/call", "tool/result"} => \E c \in Calls : e.calls = {c}
     /\ e.type \notin {"tool/call", "tool/result", "assistant/message"} => e.calls = {}}

\* What has been read of a log.
LastEvent == [type : {"none"} \cup EventTypes, turn : Nat, step : Nat]

TraceState ==
  [openTurn : Nat, openStep : Nat, nextTurn : Nat, nextStep : Nat, pending : SUBSET Calls,
   last : LastEvent]

OpenState ==
  [turn : 0 .. MaxTurns, step : 0 .. MaxSteps, pending : SUBSET Calls, called : SUBSET Calls]

ScanState == [legal : BOOLEAN, trace : TraceState, open : OpenState]

\* The one call that an event is about.
LEMMA NamedIs ==
  ASSUME NEW e, NEW c, e.calls = {c}
  PROVE  Named(e) = c
BY DEF Named

\* Before its first event a log has nothing open.
LEMMA UnscannedIs ==
  /\ Unscanned \in ScanState /\ Unscanned.legal
  /\ Unscanned.open = NothingOpen
  /\ Unscanned.trace.openTurn = 0 /\ Unscanned.trace.openStep = 0
  /\ Unscanned.trace.nextTurn = 1 /\ Unscanned.trace.pending = {}
BY BoundsAreNaturals DEF Unscanned, Fresh, ScanState, TraceState, LastEvent, OpenState, NothingOpen, None, Companion!FreshTrace,
   Companion!None, Companion!NoEvent

\* What a turn boundary changes.
LEMMA TurnStartReads ==
  ASSUME NEW r \in ScanState, NEW e \in LogEvent, e.type = "turn/start"
  PROVE  LET s == ScanEvent(r, e) IN
         /\ s \in ScanState
         /\ r.legal /\ r.trace.openTurn = None /\ e.turn = r.trace.nextTurn => s.legal
         /\ s.open = [NothingOpen EXCEPT !.turn = e.turn]
         /\ s.trace.openTurn = e.turn /\ s.trace.openStep = r.trace.openStep
         /\ s.trace.nextTurn = r.trace.nextTurn /\ s.trace.nextStep = 1
         /\ s.trace.pending = r.trace.pending
<1>1. Seen(r.trace, e) = [r.trace EXCEPT !.openTurn = e.turn, !.nextStep = 1,
                            !.last = [type |-> "turn/start", turn |-> e.turn, step |-> 0]]
  <2>1. Seen(r.trace, e) = Companion(r.trace)!AfterTurnStart(r.trace, e.turn)  BY DEF Seen
  <2> QED  BY <2>1 DEF Companion!AfterTurnStart, Companion!Event, Companion!None
<1>2. r.trace.openTurn = None /\ e.turn = r.trace.nextTurn => Legal(r.trace, e)
  BY DEF Legal
<1>3. Follow(r.open, e) = [NothingOpen EXCEPT !.turn = e.turn]  BY DEF Follow
<1>4. e.turn \in 0..MaxTurns /\ e.turn \in Nat /\ 0 \in 0..MaxSteps
  BY BoundsAreNaturals DEF LogEvent
<1>5. [NothingOpen EXCEPT !.turn = e.turn] \in
        OpenState
  BY <1>4 DEF NothingOpen, None, OpenState
<1> DEFINE T == Seen(r.trace, e)
           O == Follow(r.open, e)
<1>6. r.trace \in TraceState /\ r.open \in OpenState /\ r.legal \in BOOLEAN
  BY DEF ScanState
<1>5b. [type |-> "turn/start", turn |-> e.turn, step |-> 0] \in LastEvent
  BY <1>4 DEF LastEvent, EventTypes
<1>7. T \in TraceState
  <2>1. ASSUME NEW next \in Nat, NEW event \in LastEvent
        PROVE  [r.trace EXCEPT !.openTurn = e.turn, !.nextStep = next,
                              !.last = event] \in TraceState
    BY <1>4, <1>6 DEF TraceState
  <2>2. 1 \in Nat  BY <1>6 DEF TraceState
  <2> QED  BY <1>1, <1>5b, <2>1, <2>2
<1>8. /\ T.openTurn = e.turn
      /\ T.openStep = r.trace.openStep
      /\ T.nextTurn = r.trace.nextTurn
      /\ T.nextStep = 1
      /\ T.pending = r.trace.pending
  <2>1. r.trace \in [openTurn : Nat, openStep : Nat, nextTurn : Nat, nextStep : Nat,
                     pending : SUBSET Calls, last : LastEvent]
    BY <1>6 DEF TraceState
  <2> QED  BY <1>1, <2>1 DEF None
<1>9. O \in OpenState
  BY <1>3, <1>4, <1>5, <1>6 DEF OpenState, None, NothingOpen
<1> HIDE DEF T, O
<1>10. ScanEvent(r, e) = [legal |-> r.legal /\ Legal(r.trace, e), trace |-> T, open |-> O]
  BY DEF ScanEvent, T, O
<1>11. ScanEvent(r, e) \in ScanState
  BY <1>6, <1>7, <1>9, <1>10 DEF ScanState
<1>12. ASSUME r.legal, Legal(r.trace, e) PROVE ScanEvent(r, e).legal
  <2>1. (r.legal /\ Legal(r.trace, e)) = TRUE  BY <1>12
  <2>2. ScanEvent(r, e).legal = (r.legal /\ Legal(r.trace, e))  BY DEF ScanEvent
  <2> QED  BY <2>1, <2>2
<1> QED  BY <1>2, <1>3, <1>8, <1>10, <1>11, <1>12 DEF O

\* What the end of a turn changes.
LEMMA TurnEndReads ==
  ASSUME NEW r \in ScanState, NEW e \in LogEvent, e.type = "turn/end"
  PROVE  LET s == ScanEvent(r, e) IN
         /\ s \in ScanState
         /\ r.legal /\ r.trace.openTurn = e.turn /\ r.trace.openStep = None => s.legal
         /\ s.open = NothingOpen
         /\ s.trace.openTurn = None /\ s.trace.openStep = r.trace.openStep
         /\ s.trace.nextTurn = r.trace.nextTurn + 1
         /\ s.trace.pending = r.trace.pending
<1>1. Seen(r.trace, e) = [r.trace EXCEPT !.openTurn = 0, !.nextTurn = @ + 1,
                            !.last = [type |-> "turn/end", turn |-> e.turn, step |-> 0]]
  <2>1. Seen(r.trace, e) = Companion(r.trace)!AfterTurnEnd(r.trace, e.turn)  BY DEF Seen
  <2> QED  BY <2>1 DEF Companion!AfterTurnEnd, Companion!Event, Companion!None
<1>2. r.trace.openTurn = e.turn /\ r.trace.openStep = None => Legal(r.trace, e)
  BY DEF Legal
<1>3. Follow(r.open, e) = NothingOpen  BY DEF Follow
<1>4. e.turn \in Nat /\ 0 \in 0..MaxSteps /\ 0 \in 0..MaxTurns
  BY BoundsAreNaturals DEF LogEvent
<1> DEFINE T == Seen(r.trace, e)
           O == Follow(r.open, e)
<1>6. r.trace \in TraceState /\ r.open \in OpenState /\ r.legal \in BOOLEAN
  BY DEF ScanState
<1>5b. [type |-> "turn/end", turn |-> e.turn, step |-> 0] \in LastEvent
  BY <1>4 DEF LastEvent, EventTypes
<1>7. T \in TraceState
  <2>1. ASSUME NEW next \in Nat, NEW event \in LastEvent
        PROVE  [r.trace EXCEPT !.openTurn = 0, !.nextTurn = next,
                              !.last = event] \in TraceState
    BY <1>4, <1>6 DEF TraceState
  <2>2. r.trace.nextTurn + 1 \in Nat  BY <1>6 DEF TraceState
  <2> QED  BY <1>1, <1>5b, <2>1, <2>2
<1>8. /\ T.openTurn = None
      /\ T.openStep = r.trace.openStep
      /\ T.nextTurn = r.trace.nextTurn + 1
      /\ T.pending = r.trace.pending
  <2>1. r.trace \in [openTurn : Nat, openStep : Nat, nextTurn : Nat, nextStep : Nat,
                     pending : SUBSET Calls, last : LastEvent]
    BY <1>6 DEF TraceState
  <2> QED  BY <1>1, <2>1 DEF None
<1>9. O \in OpenState
  BY <1>3, <1>4, <1>6 DEF OpenState, None, NothingOpen
<1> HIDE DEF T, O
<1>10. ScanEvent(r, e) = [legal |-> r.legal /\ Legal(r.trace, e), trace |-> T, open |-> O]
  BY DEF ScanEvent, T, O
<1>11. ScanEvent(r, e) \in ScanState
  BY <1>6, <1>7, <1>9, <1>10 DEF ScanState
<1>12. ASSUME r.legal, Legal(r.trace, e) PROVE ScanEvent(r, e).legal
  <2>1. (r.legal /\ Legal(r.trace, e)) = TRUE  BY <1>12
  <2>2. ScanEvent(r, e).legal = (r.legal /\ Legal(r.trace, e))  BY DEF ScanEvent
  <2> QED  BY <2>1, <2>2
<1> QED  BY <1>2, <1>3, <1>8, <1>10, <1>11, <1>12 DEF O

\* What a step boundary changes.
LEMMA StepStartReads ==
  ASSUME NEW r \in ScanState, NEW e \in LogEvent, e.type = "step/start"
  PROVE  LET s == ScanEvent(r, e) IN
         /\ s \in ScanState
         /\ r.legal /\ r.trace.openTurn = e.turn /\ r.trace.openStep = None /\ e.step = r.trace.nextStep => s.legal
         /\ s.open = [r.open EXCEPT !.step = e.step]
         /\ s.trace.openTurn = r.trace.openTurn /\ s.trace.openStep = e.step
         /\ s.trace.nextTurn = r.trace.nextTurn /\ s.trace.nextStep = r.trace.nextStep
         /\ s.trace.pending = r.trace.pending
<1>1. Seen(r.trace, e) = [r.trace EXCEPT !.openStep = e.step,
                            !.last = [type |-> "step/start", turn |-> e.turn, step |-> e.step]]
  <2>1. Seen(r.trace, e) = Companion(r.trace)!AfterStepStart(r.trace, e.turn, e.step)
    BY DEF Seen
  <2> QED  BY <2>1 DEF Companion!AfterStepStart, Companion!Event
<1>2. r.trace.openTurn = e.turn /\ r.trace.openStep = None /\ e.step = r.trace.nextStep => Legal(r.trace, e)
  BY DEF Legal
<1>3. Follow(r.open, e) = [r.open EXCEPT !.step = e.step]  BY DEF Follow
<1>4. e.turn \in Nat /\ e.step \in Nat /\ e.step \in 0..MaxSteps
  BY BoundsAreNaturals DEF LogEvent
<1> DEFINE T == Seen(r.trace, e)
           O == Follow(r.open, e)
<1>6. r.trace \in TraceState /\ r.open \in OpenState /\ r.legal \in BOOLEAN
  BY DEF ScanState
<1>5b. [type |-> "step/start", turn |-> e.turn, step |-> e.step] \in LastEvent
  BY <1>4 DEF LastEvent, EventTypes
<1>7. T \in TraceState
  BY <1>1, <1>4, <1>5b, <1>6 DEF TraceState
<1>8. /\ T.openTurn = r.trace.openTurn
      /\ T.openStep = e.step
      /\ T.nextTurn = r.trace.nextTurn
      /\ T.nextStep = r.trace.nextStep
      /\ T.pending = r.trace.pending
  <2>1. r.trace \in [openTurn : Nat, openStep : Nat, nextTurn : Nat, nextStep : Nat,
                     pending : SUBSET Calls, last : LastEvent]
    BY <1>6 DEF TraceState
  <2> QED  BY <1>1, <2>1 DEF None
<1>9. O \in OpenState
  BY <1>3, <1>4, <1>6 DEF OpenState, None, NothingOpen
<1> HIDE DEF T, O
<1>10. ScanEvent(r, e) = [legal |-> r.legal /\ Legal(r.trace, e), trace |-> T, open |-> O]
  BY DEF ScanEvent, T, O
<1>11. ScanEvent(r, e) \in ScanState
  BY <1>6, <1>7, <1>9, <1>10 DEF ScanState
<1>12. ASSUME r.legal, Legal(r.trace, e) PROVE ScanEvent(r, e).legal
  <2>1. (r.legal /\ Legal(r.trace, e)) = TRUE  BY <1>12
  <2>2. ScanEvent(r, e).legal = (r.legal /\ Legal(r.trace, e))  BY DEF ScanEvent
  <2> QED  BY <2>1, <2>2
<1> QED  BY <1>2, <1>3, <1>8, <1>10, <1>11, <1>12 DEF O

\* What the end of a step changes.
LEMMA StepEndReads ==
  ASSUME NEW r \in ScanState, NEW e \in LogEvent, e.type = "step/end"
  PROVE  LET s == ScanEvent(r, e) IN
         /\ s \in ScanState
         /\ r.legal /\ InOpenStep(r.trace, e) => s.legal
         /\ s.open = [r.open EXCEPT !.step = None, !.pending = {}, !.called = {}]
         /\ s.trace.openTurn = r.trace.openTurn /\ s.trace.openStep = None
         /\ s.trace.nextTurn = r.trace.nextTurn /\ s.trace.nextStep = r.trace.nextStep + 1
         /\ s.trace.pending = {}
<1>1. Seen(r.trace, e) = [r.trace EXCEPT !.openStep = 0, !.nextStep = @ + 1, !.pending = {},
                            !.last = [type |-> "step/end", turn |-> e.turn, step |-> e.step]]
  <2>1. Seen(r.trace, e) = Companion(r.trace)!AfterStepEnd(r.trace, e.turn, e.step)
    BY DEF Seen
  <2> QED  BY <2>1 DEF Companion!AfterStepEnd, Companion!Event, Companion!None
<1>2. InOpenStep(r.trace, e) => Legal(r.trace, e)
  BY DEF Legal
<1>3. Follow(r.open, e) = [r.open EXCEPT !.step = None, !.pending = {}, !.called = {}]
  BY DEF Follow
<1>4. e.turn \in Nat /\ e.step \in Nat /\ 0 \in 0..MaxSteps
  BY BoundsAreNaturals DEF LogEvent
<1> DEFINE T == Seen(r.trace, e)
           O == Follow(r.open, e)
<1>6. r.trace \in TraceState /\ r.open \in OpenState /\ r.legal \in BOOLEAN
  BY DEF ScanState
<1>5b. [type |-> "step/end", turn |-> e.turn, step |-> e.step] \in LastEvent
  BY <1>4 DEF LastEvent, EventTypes
<1>7. T \in TraceState
  <2>1. ASSUME NEW next \in Nat, NEW event \in LastEvent
        PROVE  [r.trace EXCEPT !.openStep = 0, !.nextStep = next, !.pending = {},
                              !.last = event] \in TraceState
    BY <1>4, <1>6 DEF TraceState
  <2>2. r.trace.nextStep + 1 \in Nat  BY <1>6 DEF TraceState
  <2> QED  BY <1>1, <1>5b, <2>1, <2>2
<1>8. /\ T.openTurn = r.trace.openTurn
      /\ T.openStep = None
      /\ T.nextTurn = r.trace.nextTurn
      /\ T.nextStep = r.trace.nextStep + 1
      /\ T.pending = {}
  <2>1. r.trace \in [openTurn : Nat, openStep : Nat, nextTurn : Nat, nextStep : Nat,
                     pending : SUBSET Calls, last : LastEvent]
    BY <1>6 DEF TraceState
  <2> QED  BY <1>1, <2>1 DEF None
<1>9. O \in OpenState
  BY <1>3, <1>4, <1>6 DEF OpenState, None, NothingOpen
<1> HIDE DEF T, O
<1>10. ScanEvent(r, e) = [legal |-> r.legal /\ Legal(r.trace, e), trace |-> T, open |-> O]
  BY DEF ScanEvent, T, O
<1>11. ScanEvent(r, e) \in ScanState
  BY <1>6, <1>7, <1>9, <1>10 DEF ScanState
<1>12. ASSUME r.legal, Legal(r.trace, e) PROVE ScanEvent(r, e).legal
  <2>1. (r.legal /\ Legal(r.trace, e)) = TRUE  BY <1>12
  <2>2. ScanEvent(r, e).legal = (r.legal /\ Legal(r.trace, e))  BY DEF ScanEvent
  <2> QED  BY <2>1, <2>2
<1> QED  BY <1>2, <1>3, <1>8, <1>10, <1>11, <1>12 DEF O

\* What a message changes.
LEMMA UserMessageReads ==
  ASSUME NEW r \in ScanState, NEW e \in LogEvent, e.type = "user/message"
  PROVE  ScanEvent(r, e) = r
<1>1. Seen(r.trace, e) = r.trace  BY DEF Seen
<1>2. Legal(r.trace, e) = TRUE  BY DEF Legal
<1>3. Follow(r.open, e) = r.open  BY DEF Follow
<1>4. r.legal \in BOOLEAN  BY DEF ScanState
<1>5. r = [legal |-> r.legal, trace |-> r.trace, open |-> r.open]  BY DEF ScanState
<1> QED  BY <1>1, <1>2, <1>3, <1>4, <1>5 DEF ScanEvent

\* What an answer of the model changes.
LEMMA MessageReads ==
  ASSUME NEW r \in ScanState, NEW e \in LogEvent, e.type = "assistant/message"
  PROVE  LET s == ScanEvent(r, e) IN
         /\ s \in ScanState
         /\ r.legal /\ InOpenStep(r.trace, e) => s.legal
         /\ s.open = [r.open EXCEPT !.pending = @ \cup e.calls]
         /\ s.trace = r.trace
<1>1. Seen(r.trace, e) = r.trace  BY DEF Seen
<1>2. InOpenStep(r.trace, e) => Legal(r.trace, e)
  BY DEF Legal
<1>3. Follow(r.open, e) = [r.open EXCEPT !.pending = @ \cup e.calls]  BY DEF Follow
<1>4. e.calls \in SUBSET Calls  BY DEF LogEvent
<1>5. r.trace \in TraceState /\ r.open \in OpenState /\ r.legal \in BOOLEAN
  BY DEF ScanState
<1>6. Follow(r.open, e) \in OpenState
  BY <1>3, <1>4, <1>5 DEF OpenState
<1>7. ScanEvent(r, e) = [legal |-> r.legal /\ Legal(r.trace, e), trace |-> r.trace,
                        open |-> Follow(r.open, e)]
  BY <1>1 DEF ScanEvent
<1>8. ScanEvent(r, e) \in ScanState
  BY <1>5, <1>6, <1>7 DEF ScanState
<1>9. ASSUME r.legal, Legal(r.trace, e) PROVE ScanEvent(r, e).legal
  <2>1. (r.legal /\ Legal(r.trace, e)) = TRUE  BY <1>9
  <2>2. ScanEvent(r, e).legal = (r.legal /\ Legal(r.trace, e))  BY DEF ScanEvent
  <2> QED  BY <2>1, <2>2
<1> QED  BY <1>2, <1>3, <1>7, <1>8, <1>9

\* What the record of a call, and its result, change.
LEMMA ToolCallReads ==
  ASSUME NEW r \in ScanState, NEW e \in LogEvent, e.type = "tool/call",
         NEW c \in Calls, e.calls = {c}
  PROVE  LET s == ScanEvent(r, e) IN
         /\ s \in ScanState
         /\ r.legal /\ InOpenStep(r.trace, e) => s.legal
         /\ s.open = [r.open EXCEPT !.called = @ \cup ({c} \cap r.open.pending)]
         /\ s.trace.openTurn = r.trace.openTurn /\ s.trace.openStep = r.trace.openStep
         /\ s.trace.nextTurn = r.trace.nextTurn /\ s.trace.nextStep = r.trace.nextStep
         /\ s.trace.pending = r.trace.pending \cup {c}
<1>1. Seen(r.trace, e) = [r.trace EXCEPT !.pending = @ \cup {c},
                            !.last = [type |-> "tool/call", turn |-> e.turn, step |-> e.step]]
  <2>1. Seen(r.trace, e) = Companion(r.trace)!AfterToolCall(r.trace, e.turn, e.step, c)
    BY NamedIs DEF Seen
  <2> QED  BY <2>1 DEF Companion!AfterToolCall, Companion!Event
<1>2. InOpenStep(r.trace, e) => Legal(r.trace, e)
  BY DEF Legal
<1>3. Follow(r.open, e) = [r.open EXCEPT !.called = @ \cup ({c} \cap r.open.pending)]
  BY DEF Follow
<1>4. e.turn \in Nat /\ e.step \in Nat  BY BoundsAreNaturals DEF LogEvent
<1> DEFINE T == Seen(r.trace, e)
           O == Follow(r.open, e)
<1>6. r.trace \in TraceState /\ r.open \in OpenState /\ r.legal \in BOOLEAN
  BY DEF ScanState
<1>5b. [type |-> "tool/call", turn |-> e.turn, step |-> e.step] \in LastEvent
  BY <1>4 DEF LastEvent, EventTypes
<1>7. T \in TraceState
  <2> DEFINE seen == [type |-> "tool/call", turn |-> e.turn, step |-> e.step]
             named == r.trace.pending \cup {c}
  <2>1. r.trace \in [openTurn : Nat, openStep : Nat, nextTurn : Nat, nextStep : Nat,
                     pending : SUBSET Calls, last : LastEvent]
    BY <1>6 DEF TraceState
  <2>2. T = [r.trace EXCEPT !.pending = named, !.last = seen]  BY <1>1
  <2>3. seen \in LastEvent  BY <1>5b
  <2>4. named \in SUBSET Calls  BY <2>1
  <2> HIDE DEF T, seen, named
  <2> QED  BY <2>1, <2>2, <2>3, <2>4 DEF TraceState
<1>8. /\ T.openTurn = r.trace.openTurn
      /\ T.openStep = r.trace.openStep
      /\ T.nextTurn = r.trace.nextTurn
      /\ T.nextStep = r.trace.nextStep
      /\ T.pending = r.trace.pending \cup {c}
  <2>1. r.trace \in [openTurn : Nat, openStep : Nat, nextTurn : Nat, nextStep : Nat,
                     pending : SUBSET Calls, last : LastEvent]
    BY <1>6 DEF TraceState
  <2> QED  BY <1>1, <2>1 DEF None
<1>9. O \in OpenState
  BY <1>3, <1>4, <1>6 DEF OpenState, None, NothingOpen
<1> HIDE DEF T, O
<1>10. ScanEvent(r, e) = [legal |-> r.legal /\ Legal(r.trace, e), trace |-> T, open |-> O]
  BY DEF ScanEvent, T, O
<1>11. ScanEvent(r, e) \in ScanState
  BY <1>6, <1>7, <1>9, <1>10 DEF ScanState
<1>12. ASSUME r.legal, Legal(r.trace, e) PROVE ScanEvent(r, e).legal
  <2>1. (r.legal /\ Legal(r.trace, e)) = TRUE  BY <1>12
  <2>2. ScanEvent(r, e).legal = (r.legal /\ Legal(r.trace, e))  BY DEF ScanEvent
  <2> QED  BY <2>1, <2>2
<1> QED  BY <1>2, <1>3, <1>8, <1>10, <1>11, <1>12 DEF O

\* What the result of a call changes.
LEMMA ToolResultReads ==
  ASSUME NEW r \in ScanState, NEW e \in LogEvent, e.type = "tool/result",
         NEW c \in Calls, e.calls = {c}
  PROVE  LET s == ScanEvent(r, e) IN
         /\ s \in ScanState
         /\ r.legal /\ InOpenStep(r.trace, e) /\ (c \in r.trace.pending \/ e.code = "not-started") => s.legal
         /\ s.open = [r.open EXCEPT !.pending = @ \ {c}]
         /\ s.trace.openTurn = r.trace.openTurn /\ s.trace.openStep = r.trace.openStep
         /\ s.trace.nextTurn = r.trace.nextTurn /\ s.trace.nextStep = r.trace.nextStep
         /\ s.trace.pending = r.trace.pending \ {c}
<1>1. Seen(r.trace, e) = [r.trace EXCEPT !.pending = @ \ {c},
                            !.last = [type |-> "tool/result", turn |-> e.turn, step |-> e.step]]
  <2>1. Seen(r.trace, e) = Companion(r.trace)!AfterToolResult(r.trace, e.turn, e.step, c)
    BY NamedIs DEF Seen
  <2> QED  BY <2>1 DEF Companion!AfterToolResult, Companion!Event
<1>2. InOpenStep(r.trace, e) /\ (c \in r.trace.pending \/ e.code = "not-started") => Legal(r.trace, e)
  BY NamedIs DEF Legal
<1>3. Follow(r.open, e) = [r.open EXCEPT !.pending = @ \ {c}]  BY DEF Follow
<1>4. e.turn \in Nat /\ e.step \in Nat  BY BoundsAreNaturals DEF LogEvent
<1> DEFINE T == Seen(r.trace, e)
           O == Follow(r.open, e)
<1>6. r.trace \in TraceState /\ r.open \in OpenState /\ r.legal \in BOOLEAN
  BY DEF ScanState
<1>5b. [type |-> "tool/result", turn |-> e.turn, step |-> e.step] \in LastEvent
  BY <1>4 DEF LastEvent, EventTypes
<1>7. T \in TraceState
  <2> DEFINE seen == [type |-> "tool/result", turn |-> e.turn, step |-> e.step]
             named == r.trace.pending \ {c}
  <2>1. r.trace \in [openTurn : Nat, openStep : Nat, nextTurn : Nat, nextStep : Nat,
                     pending : SUBSET Calls, last : LastEvent]
    BY <1>6 DEF TraceState
  <2>2. T = [r.trace EXCEPT !.pending = named, !.last = seen]  BY <1>1
  <2>3. seen \in LastEvent  BY <1>5b
  <2>4. named \in SUBSET Calls  BY <2>1
  <2> HIDE DEF T, seen, named
  <2> QED  BY <2>1, <2>2, <2>3, <2>4 DEF TraceState
<1>8. /\ T.openTurn = r.trace.openTurn
      /\ T.openStep = r.trace.openStep
      /\ T.nextTurn = r.trace.nextTurn
      /\ T.nextStep = r.trace.nextStep
      /\ T.pending = r.trace.pending \ {c}
  <2>1. r.trace \in [openTurn : Nat, openStep : Nat, nextTurn : Nat, nextStep : Nat,
                     pending : SUBSET Calls, last : LastEvent]
    BY <1>6 DEF TraceState
  <2> QED  BY <1>1, <2>1 DEF None
<1>9. O \in OpenState
  BY <1>3, <1>4, <1>6 DEF OpenState, None, NothingOpen
<1> HIDE DEF T, O
<1>10. ScanEvent(r, e) = [legal |-> r.legal /\ Legal(r.trace, e), trace |-> T, open |-> O]
  BY DEF ScanEvent, T, O
<1>11. ScanEvent(r, e) \in ScanState
  BY <1>6, <1>7, <1>9, <1>10 DEF ScanState
<1>12. ASSUME r.legal, Legal(r.trace, e) PROVE ScanEvent(r, e).legal
  <2>1. (r.legal /\ Legal(r.trace, e)) = TRUE  BY <1>12
  <2>2. ScanEvent(r, e).legal = (r.legal /\ Legal(r.trace, e))  BY DEF ScanEvent
  <2> QED  BY <2>1, <2>2
<1> QED  BY <1>2, <1>3, <1>8, <1>10, <1>11, <1>12 DEF O

-----------------------------------------------------------------------------
(* What every prefix of the log says.                                      *)

EventsOf(lg, n, c, type) == {i \in 1..n : lg[i].type = type /\ c \in lg[i].calls}
Asks(lg, n, c) == EventsOf(lg, n, c, "assistant/message")
Records(lg, n, c) == EventsOf(lg, n, c, "tool/call")
Answers(lg, n, c) == EventsOf(lg, n, c, "tool/result")

\* No step ends from the i-th event to the j-th.
InOneStep(lg, i, j) == \A k \in i..j : lg[k].type # "step/end"

OpenAt(lg, n) == Scan(lg)[n].open

CallIsNew(lg, n, c) ==
  /\ Asks(lg, n, c) = {} /\ Records(lg, n, c) = {} /\ Answers(lg, n, c) = {}
  /\ c \notin OpenAt(lg, n).pending

CallIsOpen(lg, n, c) ==
  \E i \in 1..n :
    /\ Asks(lg, n, c) = {i} /\ Answers(lg, n, c) = {}
    /\ c \in OpenAt(lg, n).pending
    /\ (c \in OpenAt(lg, n).called <=> Records(lg, n, c) # {})
    /\ InOneStep(lg, i, n)

CallIsAnswered(lg, n, c) ==
  \E i, j \in 1..n :
    /\ i < j /\ Asks(lg, n, c) = {i} /\ Answers(lg, n, c) = {j}
    /\ c \notin OpenAt(lg, n).pending
    /\ InOneStep(lg, i, j)
    /\ lg[j].code = "not-started" => Records(lg, n, c) = {}
    /\ lg[j].code = "unknown" => \E k \in Records(lg, n, c) : k <= j

\* A scheduler that failed left the call without an answer.
CallIsDropped(lg, n, c) ==
  /\ "scheduler-failure" \in Admitted
  /\ \E i \in 1..n : Asks(lg, n, c) = {i}
  /\ Answers(lg, n, c) = {}
  /\ c \notin OpenAt(lg, n).pending

CallStands(lg, n, c) ==
  \/ CallIsNew(lg, n, c) \/ CallIsOpen(lg, n, c)
  \/ CallIsAnswered(lg, n, c) \/ CallIsDropped(lg, n, c)

\* The last turn that was started by the n-th event.
LastTurnAt(lg, n) ==
  LET starts == {i \in 1..n : lg[i].type = "turn/start"}
  IN IF starts = {} THEN 0
     ELSE lg[CHOOSE i \in starts : \A j \in starts : j <= i].turn

\* The calls that were asked for by the n-th event are the first ones.
AskedInOrder(lg, n) ==
  \E m \in 0..MaxCalls : \A c \in Calls : Asks(lg, n, c) # {} <=> c <= m

\* The first n events are valid, the invariant and the repair agree about what
\* is open in them, and each call is where its events say it is.
Consistent(lg, n) ==
  LET r == Scan(lg)[n] IN
  /\ r \in ScanState /\ r.legal
  /\ r.trace.openTurn = r.open.turn /\ r.trace.openStep = r.open.step
  /\ r.trace.pending = r.open.called \cap r.open.pending
  /\ r.open.turn = None => r.open = NothingOpen
  /\ r.open.step = None => r.open.pending = {} /\ r.open.called = {}
  /\ r.open.turn \in {None, LastTurnAt(lg, n)}
  /\ r.trace.nextTurn = IF r.open.turn = None THEN LastTurnAt(lg, n) + 1 ELSE r.open.turn
  /\ \A c \in Calls : CallStands(lg, n, c)
  /\ AskedInOrder(lg, n)

\* What the log of any moment is: valid and consistent up to each of its events,
\* as a crash may leave any of its prefixes.
LogInv(lg) == lg \in Seq(LogEvent) /\ \A n \in 0..Len(lg) : Consistent(lg, n)

\* The next event is one the program or the repair may append.
FitsStep(o, e) == o.turn # None /\ o.step # None /\ e.turn = o.turn /\ e.step = o.step

Fits(lg, n, e) ==
  LET r == Scan(lg)[n]
      o == r.open
  IN \/ /\ e.type = "turn/start" /\ o.turn = None
        /\ e.turn # None /\ e.turn = r.trace.nextTurn
     \/ e.type = "turn/end" /\ o.turn # None /\ e.turn = o.turn /\ o.step = None
     \/ /\ e.type = "step/start" /\ o.turn # None /\ e.turn = o.turn
        /\ o.step = None /\ e.step = r.trace.nextStep
     \/ /\ e.type = "step/end" /\ FitsStep(o, e)
        /\ o.pending = {} \/ "scheduler-failure" \in Admitted
     \/ e.type = "user/message"
     \/ /\ e.type = "assistant/message" /\ FitsStep(o, e)
        /\ o.pending = {} /\ o.called = {}
        /\ \A c \in e.calls : Asks(lg, n, c) = {}
        /\ \E m \in 0..MaxCalls :
             \A c \in Calls : (Asks(lg, n, c) # {} \/ c \in e.calls) <=> c <= m
     \/ /\ e.type = "tool/call" /\ FitsStep(o, e)
        /\ \E c \in Calls : e.calls = {c} /\ c \in o.pending
     \/ /\ e.type = "tool/result" /\ FitsStep(o, e)
        /\ \E c \in Calls :
             /\ e.calls = {c} /\ c \in o.pending
             /\ IF c \in o.called THEN e.code # "not-started" ELSE e.code = "not-started"

-----------------------------------------------------------------------------
(* One more event.                                                         *)

\* The events about a call are those there were, and perhaps the new one.
LEMMA EventsGrow ==
  ASSUME NEW lg, NEW n \in Nat, NEW m, m = n + 1, NEW c, NEW type
  PROVE  EventsOf(lg, m, c, type) =
           IF lg[m].type = type /\ c \in lg[m].calls
           THEN EventsOf(lg, n, c, type) \cup {m} ELSE EventsOf(lg, n, c, type)
<1>1. 1..m = (1..n) \cup {m}  OBVIOUS
<1> QED  BY <1>1 DEF EventsOf

\* What a call was asked, recorded and answered by grows with an event of that
\* type about it, and with no other.
CallEventsGrown(lg, n, c, e) ==
  /\ e.type # "assistant/message" \/ c \notin e.calls
       => Asks(lg, n + 1, c) = Asks(lg, n, c)
  /\ e.type # "tool/call" \/ c \notin e.calls
       => Records(lg, n + 1, c) = Records(lg, n, c)
  /\ e.type # "tool/result" \/ c \notin e.calls
       => Answers(lg, n + 1, c) = Answers(lg, n, c)
  /\ e.type = "assistant/message" /\ c \in e.calls
       => Asks(lg, n + 1, c) = Asks(lg, n, c) \cup {n + 1}
  /\ e.type = "tool/call" /\ c \in e.calls
       => Records(lg, n + 1, c) = Records(lg, n, c) \cup {n + 1}
  /\ e.type = "tool/result" /\ c \in e.calls
       => Answers(lg, n + 1, c) = Answers(lg, n, c) \cup {n + 1}

\* The next event of a log is such a growth.
LEMMA CallEventsGrow ==
  ASSUME NEW lg, NEW n \in Nat, NEW c, NEW e, e = lg[n + 1]
  PROVE  CallEventsGrown(lg, n, c, e)
<1>1. ASSUME NEW type, e.type # type \/ c \notin e.calls
      PROVE  EventsOf(lg, n + 1, c, type) = EventsOf(lg, n, c, type)
  BY <1>1, EventsGrow
<1>2. ASSUME NEW type, e.type = type, c \in e.calls
      PROVE  EventsOf(lg, n + 1, c, type) = EventsOf(lg, n, c, type) \cup {n + 1}
  BY <1>2, EventsGrow
<1>3. /\ Asks(lg, n, c) = EventsOf(lg, n, c, "assistant/message")
      /\ Records(lg, n, c) = EventsOf(lg, n, c, "tool/call")
      /\ Answers(lg, n, c) = EventsOf(lg, n, c, "tool/result")
  BY DEF Asks, Records, Answers
<1>4. /\ Asks(lg, n + 1, c) = EventsOf(lg, n + 1, c, "assistant/message")
      /\ Records(lg, n + 1, c) = EventsOf(lg, n + 1, c, "tool/call")
      /\ Answers(lg, n + 1, c) = EventsOf(lg, n + 1, c, "tool/result")
  BY DEF Asks, Records, Answers
<1> QED  BY <1>1, <1>2, <1>3, <1>4 DEF CallEventsGrown

\* An event that is not about a call says nothing of it.
LEMMA CallEventsStay ==
  ASSUME NEW lg, NEW n \in Nat, NEW c, c \notin lg[n + 1].calls
  PROVE  /\ Asks(lg, n + 1, c) = Asks(lg, n, c)
         /\ Records(lg, n + 1, c) = Records(lg, n, c)
         /\ Answers(lg, n + 1, c) = Answers(lg, n, c)
BY CallEventsGrow DEF CallEventsGrown

\* The events about a call are among those there are.
LEMMA EventsAreBelow ==
  ASSUME NEW lg, NEW n \in Nat, NEW c, NEW type
  PROVE  EventsOf(lg, n, c, type) \in SUBSET (1..n)
BY DEF EventsOf

\* The last started turn changes with a turn/start only.
LEMMA LastTurnGrows ==
  ASSUME NEW lg, NEW n \in Nat
  PROVE  /\ LastTurnAt(lg, 0) = 0
         /\ LastTurnAt(lg, n + 1) =
              IF lg[n + 1].type = "turn/start" THEN lg[n + 1].turn ELSE LastTurnAt(lg, n)
<1> DEFINE Starts(k) == {i \in 1..k : lg[i].type = "turn/start"}
           Latest(k) == CHOOSE i \in Starts(k) : \A j \in Starts(k) : j <= i
<1>1. Starts(0) = {}  OBVIOUS
<1>2. LastTurnAt(lg, 0) = 0  BY <1>1 DEF LastTurnAt
<1>3. 1..(n + 1) = (1..n) \cup {n + 1}  OBVIOUS
<1>4. CASE lg[n + 1].type = "turn/start"
  <2>1. n + 1 \in Starts(n + 1) /\ \A j \in Starts(n + 1) : j <= n + 1
    BY <1>3, <1>4
  <2>2. \A i \in Starts(n + 1) : (\A j \in Starts(n + 1) : j <= i) => i = n + 1
    <3>1. ASSUME NEW i \in Starts(n + 1), \A j \in Starts(n + 1) : j <= i PROVE i = n + 1
      <4>1. n + 1 <= i /\ i <= n + 1 /\ i \in Nat  BY <2>1, <3>1
      <4> QED  BY <4>1
    <3> QED  BY <3>1
  <2>3. Latest(n + 1) = n + 1
    <3> HIDE DEF Starts
    <3> QED  BY <2>1, <2>2
  <2>4. LastTurnAt(lg, n + 1) = lg[Latest(n + 1)].turn  BY <2>1 DEF LastTurnAt
  <2> HIDE DEF Latest
  <2> QED  BY <1>2, <1>4, <2>3, <2>4
<1>5. CASE lg[n + 1].type # "turn/start"
  <2>1. Starts(n + 1) = Starts(n)  BY <1>3, <1>5
  <2>2. LastTurnAt(lg, n + 1) = IF Starts(n + 1) = {} THEN 0 ELSE lg[Latest(n + 1)].turn
    BY DEF LastTurnAt
  <2>3. LastTurnAt(lg, n) = IF Starts(n) = {} THEN 0 ELSE lg[Latest(n)].turn
    BY DEF LastTurnAt
  <2>4. Latest(n + 1) = Latest(n)
    <3> HIDE DEF Starts
    <3> QED  BY <2>1
  <2> HIDE DEF Starts, Latest
  <2> QED  BY <1>2, <1>5, <2>1, <2>2, <2>3, <2>4
<1> QED  BY <1>4, <1>5

\* The last turn of a log.
LEMMA LastTurnIs ==
  ASSUME NEW lg \in Seq(LogEvent)
  PROVE  LastTurn(lg) = LastTurnAt(lg, Len(lg))
<1>1. DOMAIN lg = 1..Len(lg)  OBVIOUS
<1> QED  BY <1>1 DEF LastTurn, LastTurnAt

\* A call that the new event is not about stays where it is, unless its step ends.
LEMMA StandKeeps ==
  ASSUME NEW lg, NEW n \in Nat, NEW c \in Calls, CallStands(lg, n, c),
         c \notin lg[n + 1].calls,
         c \in OpenAt(lg, n).pending <=> c \in OpenAt(lg, n + 1).pending,
         c \in OpenAt(lg, n).pending =>
            /\ lg[n + 1].type # "step/end"
            /\ c \in OpenAt(lg, n).called <=> c \in OpenAt(lg, n + 1).called
  PROVE  CallStands(lg, n + 1, c)
<1>1. /\ Asks(lg, n + 1, c) = Asks(lg, n, c)
      /\ Records(lg, n + 1, c) = Records(lg, n, c)
      /\ Answers(lg, n + 1, c) = Answers(lg, n, c)
  BY CallEventsStay
<1>2. \A i \in 1..n : i \in 1..(n + 1)  OBVIOUS
<1>3. CASE CallIsNew(lg, n, c)
  BY <1>1, <1>3 DEF CallIsNew, CallStands
<1>4. CASE CallIsOpen(lg, n, c)
  <2>1. PICK i \in 1..n :
           /\ Asks(lg, n, c) = {i} /\ Answers(lg, n, c) = {}
           /\ c \in OpenAt(lg, n).pending
           /\ (c \in OpenAt(lg, n).called <=> Records(lg, n, c) # {})
           /\ InOneStep(lg, i, n)
    BY <1>4 DEF CallIsOpen
  <2>2. InOneStep(lg, i, n + 1)
    <3>1. i..(n + 1) = (i..n) \cup {n + 1}  OBVIOUS
    <3>2. lg[n + 1].type # "step/end"  BY <2>1
    <3> QED  BY <2>1, <3>1, <3>2 DEF InOneStep
  <2>3. CallIsOpen(lg, n + 1, c)
    BY <1>1, <1>2, <2>1, <2>2 DEF CallIsOpen
  <2> QED  BY <2>3 DEF CallStands
<1>5. CASE CallIsAnswered(lg, n, c)
  <2>1. CallIsAnswered(lg, n + 1, c)
    BY <1>1, <1>2, <1>5 DEF CallIsAnswered
  <2> QED  BY <2>1 DEF CallStands
<1>6. CASE CallIsDropped(lg, n, c)
  <2>1. CallIsDropped(lg, n + 1, c)
    BY <1>1, <1>2, <1>6 DEF CallIsDropped
  <2> QED  BY <2>1 DEF CallStands
<1> QED  BY <1>3, <1>4, <1>5, <1>6 DEF CallStands

\* An open call is dropped when its step ends without its answer.
LEMMA StandDrops ==
  ASSUME NEW lg, NEW n \in Nat, NEW c \in Calls, CallStands(lg, n, c),
         lg[n + 1].calls = {}, "scheduler-failure" \in Admitted,
         c \in OpenAt(lg, n).pending, c \notin OpenAt(lg, n + 1).pending
  PROVE  CallStands(lg, n + 1, c)
<1>1. /\ Asks(lg, n + 1, c) = Asks(lg, n, c)
      /\ Answers(lg, n + 1, c) = Answers(lg, n, c)
  <2>1. c \notin lg[n + 1].calls  OBVIOUS
  <2> QED  BY <2>1, CallEventsStay
<1>2. CallIsOpen(lg, n, c)
  BY DEF CallStands, CallIsNew, CallIsAnswered, CallIsDropped
<1>3. \A i \in 1..n : i \in 1..(n + 1)  OBVIOUS
<1>4. CallIsDropped(lg, n + 1, c)
  BY <1>1, <1>2, <1>3 DEF CallIsOpen, CallIsDropped
<1> QED  BY <1>4 DEF CallStands

\* Before the first event nothing is open and no call is known.
LEMMA ConsistentAtStart ==
  ASSUME NEW lg \in Seq(LogEvent)
  PROVE  Consistent(lg, 0)
<1>1. Scan(lg)[0] = Unscanned  BY ScanRuns
<1>2. \A c, type : EventsOf(lg, 0, c, type) = {}  BY DEF EventsOf
<1>3. ASSUME NEW c \in Calls PROVE CallStands(lg, 0, c)
  <2>1. Asks(lg, 0, c) = {} /\ Records(lg, 0, c) = {} /\ Answers(lg, 0, c) = {}
    BY <1>2 DEF Asks, Records, Answers
  <2>2. OpenAt(lg, 0).pending = {}
    BY <1>1, UnscannedIs DEF OpenAt, NothingOpen
  <2> QED  BY <2>1, <2>2 DEF CallStands, CallIsNew
<1>4. AskedInOrder(lg, 0)
  <2>1. 0 \in 0..MaxCalls /\ \A c \in Calls : ~(c <= 0)
    BY BoundsAreNaturals DEF Calls
  <2>2. \A c \in Calls : Asks(lg, 0, c) = {}  BY <1>2 DEF Asks
  <2> QED  BY <2>1, <2>2 DEF AskedInOrder
<1>5. LastTurnAt(lg, 0) = 0  BY LastTurnGrows
<1>6. NothingOpen.turn = 0 /\ NothingOpen.step = 0
      /\ NothingOpen.pending = {} /\ NothingOpen.called = {}
  BY DEF NothingOpen, None
<1> QED  BY <1>1, <1>3, <1>4, <1>5, <1>6, UnscannedIs DEF Consistent, None

\* An event that fits keeps the log valid and consistent.
LEMMA ConsistentGrows ==
  ASSUME NEW lg \in Seq(LogEvent), NEW n \in Nat, n < Len(lg),
         Consistent(lg, n), Fits(lg, n, lg[n + 1])
  PROVE  Consistent(lg, n + 1)
<1> DEFINE r == Scan(lg)[n]
           s == Scan(lg)[n + 1]
           e == lg[n + 1]
           o == r.open
<1>1. e \in LogEvent  OBVIOUS
<1>2. s = ScanEvent(r, e)
  <2>1. n + 1 \in 1..Len(lg) /\ (n + 1) - 1 = n /\ Len(lg) \in Nat  OBVIOUS
  <2> QED  BY <2>1, ScanRuns
<1>3. /\ r \in ScanState /\ r.legal
      /\ r.trace.openTurn = o.turn /\ r.trace.openStep = o.step
      /\ r.trace.pending = o.called \cap o.pending
      /\ o.turn = None => o = NothingOpen
      /\ o.step = None => o.pending = {} /\ o.called = {}
      /\ o.turn \in {None, LastTurnAt(lg, n)}
      /\ r.trace.nextTurn = IF o.turn = None THEN LastTurnAt(lg, n) + 1 ELSE o.turn
      /\ \A c \in Calls : CallStands(lg, n, c)
      /\ AskedInOrder(lg, n)
  BY DEF Consistent
<1>4. OpenAt(lg, n) = o /\ OpenAt(lg, n + 1) = s.open  BY DEF OpenAt
<1>19. ASSUME NEW c
       PROVE  /\ e.type # "assistant/message" \/ c \notin e.calls
                   => Asks(lg, n + 1, c) = Asks(lg, n, c)
              /\ e.type # "tool/call" \/ c \notin e.calls
                   => Records(lg, n + 1, c) = Records(lg, n, c)
              /\ e.type # "tool/result" \/ c \notin e.calls
                   => Answers(lg, n + 1, c) = Answers(lg, n, c)
              /\ e.type = "assistant/message" /\ c \in e.calls
                   => Asks(lg, n + 1, c) = Asks(lg, n, c) \cup {n + 1}
              /\ e.type = "tool/call" /\ c \in e.calls
                   => Records(lg, n + 1, c) = Records(lg, n, c) \cup {n + 1}
              /\ e.type = "tool/result" /\ c \in e.calls
                   => Answers(lg, n + 1, c) = Answers(lg, n, c) \cup {n + 1}
  <2>1. e = lg[n + 1]  OBVIOUS
  <2> HIDE DEF e
  <2>2. CallEventsGrown(lg, n, c, e)  BY <2>1, CallEventsGrow, Zenon
  <2> QED  BY <2>2 DEF CallEventsGrown
<1>5. e.type # "assistant/message" => AskedInOrder(lg, n + 1)
  <2>1. ASSUME e.type # "assistant/message", NEW c \in Calls
        PROVE Asks(lg, n + 1, c) = Asks(lg, n, c)
    BY <2>1, <1>19
  <2> QED  BY <1>3, <2>1 DEF AskedInOrder
<1>6. LastTurnAt(lg, n + 1) = IF e.type = "turn/start" THEN e.turn ELSE LastTurnAt(lg, n)
  BY LastTurnGrows
<1>7. ASSUME e.type \in {"turn/start", "turn/end", "step/start", "user/message"},
             s.open.pending = o.pending, s.open.called = o.called \/ o.pending = {}
      PROVE  \A c \in Calls : CallStands(lg, n + 1, c)
  <2>1. e.calls = {}  BY <1>1, <1>7 DEF LogEvent
  <2> QED  BY <1>3, <1>4, <1>7, <2>1, StandKeeps
<1>8. o \in OpenState  BY <1>3 DEF ScanState
<1>9. NothingOpen.turn = None /\ NothingOpen.step = None
      /\ NothingOpen.pending = {} /\ NothingOpen.called = {}
  BY DEF NothingOpen
<1>10. Fits(lg, n, e)  OBVIOUS
<1> HIDE DEF r, s, e
<1>11. CASE e.type = "turn/start"
  <2>1. o.turn = None /\ e.turn # None /\ e.turn = r.trace.nextTurn
    BY <1>10, <1>11 DEF Fits, r
  <2>2. /\ s \in ScanState /\ s.legal
        /\ s.open = [NothingOpen EXCEPT !.turn = e.turn]
        /\ s.trace.openTurn = e.turn /\ s.trace.openStep = r.trace.openStep
        /\ s.trace.nextTurn = r.trace.nextTurn
        /\ s.trace.pending = r.trace.pending
    BY <1>1, <1>2, <1>3, <1>11, <2>1, TurnStartReads
  <2>3. s.open.turn = e.turn /\ s.open.step = None /\ s.open.pending = {} /\ s.open.called = {}
    BY <2>2 DEF NothingOpen
  <2>4. o.step = None /\ o.pending = {} /\ o.called = {}  BY <1>3, <1>9, <2>1
  <2>5. \A c \in Calls : CallStands(lg, n + 1, c)  BY <1>7, <1>11, <2>3, <2>4
  <2> QED  BY <1>3, <1>5, <1>6, <1>11, <2>1, <2>2, <2>3, <2>4, <2>5 DEF Consistent, s
<1>12. CASE e.type = "turn/end"
  <2>1. o.turn # None /\ e.turn = o.turn /\ o.step = None
    BY <1>10, <1>12 DEF Fits, r
  <2>2. /\ s \in ScanState /\ s.legal
        /\ s.open = NothingOpen
        /\ s.trace.openTurn = None /\ s.trace.openStep = r.trace.openStep
        /\ s.trace.nextTurn = r.trace.nextTurn + 1
        /\ s.trace.pending = r.trace.pending
    BY <1>1, <1>2, <1>3, <1>12, <2>1, TurnEndReads
  <2>3. o.pending = {} /\ o.called = {}  BY <1>3, <2>1
  <2>4. \A c \in Calls : CallStands(lg, n + 1, c)  BY <1>7, <1>9, <1>12, <2>2, <2>3
  <2> QED  BY <1>3, <1>5, <1>6, <1>9, <1>12, <2>1, <2>2, <2>3, <2>4 DEF Consistent, s
<1>13. CASE e.type = "step/start"
  <2>1. o.turn # None /\ e.turn = o.turn /\ o.step = None /\ e.step = r.trace.nextStep
    BY <1>10, <1>13 DEF Fits, r
  <2>2. /\ s \in ScanState /\ s.legal
        /\ s.open = [o EXCEPT !.step = e.step]
        /\ s.trace.openTurn = r.trace.openTurn /\ s.trace.openStep = e.step
        /\ s.trace.nextTurn = r.trace.nextTurn
        /\ s.trace.pending = r.trace.pending
    BY <1>1, <1>2, <1>3, <1>13, <2>1, StepStartReads
  <2>3. s.open.turn = o.turn /\ s.open.step = e.step
        /\ s.open.pending = o.pending /\ s.open.called = o.called
    BY <1>8, <2>2 DEF OpenState
  <2>4. o.pending = {} /\ o.called = {}  BY <1>3, <2>1
  <2>5. \A c \in Calls : CallStands(lg, n + 1, c)  BY <1>7, <1>13, <2>3, <2>4
  <2> QED  BY <1>3, <1>5, <1>6, <1>13, <2>1, <2>2, <2>3, <2>4, <2>5 DEF Consistent, s
<1>14. CASE e.type = "step/end"
  <2>1. /\ o.turn # None /\ o.step # None /\ e.turn = o.turn /\ e.step = o.step
        /\ o.pending = {} \/ "scheduler-failure" \in Admitted
    BY <1>10, <1>14 DEF Fits, FitsStep, r
  <2>2. /\ s \in ScanState /\ s.legal
        /\ s.open = [o EXCEPT !.step = None, !.pending = {}, !.called = {}]
        /\ s.trace.openTurn = r.trace.openTurn /\ s.trace.openStep = None
        /\ s.trace.nextTurn = r.trace.nextTurn
        /\ s.trace.pending = {}
    <3>1. InOpenStep(r.trace, e)  BY <1>3, <2>1 DEF InOpenStep
    <3> QED  BY <1>1, <1>2, <1>3, <1>14, <3>1, StepEndReads
  <2>3. s.open.turn = o.turn /\ s.open.step = None
        /\ s.open.pending = {} /\ s.open.called = {}
    BY <1>8, <2>2 DEF OpenState
  <2>4. ASSUME NEW c \in Calls PROVE CallStands(lg, n + 1, c)
    <3>1. e.calls = {}  BY <1>1, <1>14 DEF LogEvent
    <3>2. CASE c \in o.pending
      BY <1>3, <1>4, <2>1, <2>3, <3>1, <3>2, StandDrops DEF e
    <3>3. CASE c \notin o.pending
      BY <1>3, <1>4, <2>3, <3>1, <3>3, StandKeeps DEF e
    <3> QED  BY <3>2, <3>3
  <2> QED  BY <1>3, <1>5, <1>6, <1>14, <2>1, <2>2, <2>3, <2>4 DEF Consistent, s
<1>15. CASE e.type = "user/message"
  <2>1. /\ s \in ScanState /\ s.legal /\ s.open = o /\ s.trace = r.trace
    BY <1>1, <1>2, <1>3, <1>15, UserMessageReads
  <2>2. s.open.pending = o.pending /\ s.open.called = o.called  BY <2>1
  <2>3. \A c \in Calls : CallStands(lg, n + 1, c)  BY <1>7, <1>15, <2>2
  <2> QED  BY <1>3, <1>5, <1>6, <1>15, <2>1, <2>3 DEF Consistent, s
<1>16. CASE e.type = "assistant/message"
  <2>1. /\ o.turn # None /\ o.step # None /\ e.turn = o.turn /\ e.step = o.step
        /\ o.pending = {} /\ o.called = {}
        /\ \A c \in e.calls : Asks(lg, n, c) = {}
        /\ \E m \in 0..MaxCalls :
             \A c \in Calls : (Asks(lg, n, c) # {} \/ c \in e.calls) <=> c <= m
    BY <1>10, <1>16 DEF Fits, FitsStep, r
  <2>2. s \in ScanState /\ s.legal /\ s.open = [o EXCEPT !.pending = @ \cup e.calls]
        /\ s.trace = r.trace
    <3>1. InOpenStep(r.trace, e)  BY <1>3, <2>1 DEF InOpenStep
    <3> QED  BY <1>1, <1>2, <1>3, <1>16, <3>1, MessageReads
  <2>3. s.open.turn = o.turn /\ s.open.step = o.step
        /\ s.open.pending = e.calls /\ s.open.called = {}
    BY <1>8, <2>1, <2>2 DEF OpenState
  <2>4. AskedInOrder(lg, n + 1)
    <3>1. ASSUME NEW c \in Calls
          PROVE  Asks(lg, n + 1, c) # {} <=> Asks(lg, n, c) # {} \/ c \in e.calls
      <4>1. CASE c \in e.calls
        <5>1. Asks(lg, n + 1, c) = Asks(lg, n, c) \cup {n + 1}
          BY <1>16, <1>19, <4>1
        <5> QED  BY <4>1, <5>1
      <4>2. CASE c \notin e.calls
        <5>1. Asks(lg, n + 1, c) = Asks(lg, n, c)  BY <1>19, <4>2
        <5> QED  BY <4>2, <5>1
      <4> QED  BY <4>1, <4>2
    <3> QED  BY <2>1, <3>1 DEF AskedInOrder
  <2>5. ASSUME NEW c \in Calls PROVE CallStands(lg, n + 1, c)
    <3>1. CASE c \notin e.calls
      BY <1>3, <1>4, <2>1, <2>3, <3>1, StandKeeps DEF e
    <3>2. CASE c \in e.calls
      <4>1. Asks(lg, n, c) = {} /\ Records(lg, n, c) = {} /\ Answers(lg, n, c) = {}
        BY <1>3, <2>1, <3>2
           DEF CallStands, CallIsNew, CallIsOpen, CallIsAnswered, CallIsDropped
      <4>2. Asks(lg, n + 1, c) = {n + 1}
        <5>1. Asks(lg, n + 1, c) = Asks(lg, n, c) \cup {n + 1}  BY <1>16, <1>19, <3>2
        <5> QED  BY <4>1, <5>1
      <4>3. Records(lg, n + 1, c) = {} /\ Answers(lg, n + 1, c) = {}
        <5>1. e.type # "tool/call" /\ e.type # "tool/result"  BY <1>16
        <5>2. Records(lg, n + 1, c) = Records(lg, n, c)  BY <5>1, <1>19
        <5>3. Answers(lg, n + 1, c) = Answers(lg, n, c)  BY <5>1, <1>19
        <5> QED  BY <4>1, <5>2, <5>3
      <4>4. InOneStep(lg, n + 1, n + 1)  BY <1>16 DEF InOneStep, e
      <4>5. CallIsOpen(lg, n + 1, c)
        BY <1>4, <2>3, <3>2, <4>2, <4>3, <4>4 DEF CallIsOpen
      <4> QED  BY <4>5 DEF CallStands
    <3> QED  BY <3>1, <3>2
  <2> QED  BY <1>3, <1>6, <1>16, <2>1, <2>2, <2>3, <2>4, <2>5 DEF Consistent, s
<1>17. CASE e.type = "tool/call"
  <2>1. /\ o.turn # None /\ o.step # None /\ e.turn = o.turn /\ e.step = o.step
        /\ \E c \in Calls : e.calls = {c} /\ c \in o.pending
    BY <1>10, <1>17 DEF Fits, FitsStep, r
  <2>2. PICK c \in Calls : e.calls = {c} /\ c \in o.pending  BY <2>1
  <2>3. /\ s \in ScanState /\ s.legal
        /\ s.open = [o EXCEPT !.called = @ \cup ({c} \cap o.pending)]
        /\ s.trace.openTurn = r.trace.openTurn /\ s.trace.openStep = r.trace.openStep
        /\ s.trace.nextTurn = r.trace.nextTurn
        /\ s.trace.pending = r.trace.pending \cup {c}
    <3>1. InOpenStep(r.trace, e)  BY <1>3, <2>1 DEF InOpenStep
    <3> QED  BY <1>1, <1>2, <1>3, <1>17, <2>2, <3>1, ToolCallReads
  <2>4. s.open.turn = o.turn /\ s.open.step = o.step
        /\ s.open.pending = o.pending /\ s.open.called = o.called \cup {c}
    BY <1>8, <2>2, <2>3 DEF OpenState
  <2>5. ASSUME NEW d \in Calls PROVE CallStands(lg, n + 1, d)
    <3>1. CASE d # c
      BY <1>3, <1>4, <1>17, <2>2, <2>4, <3>1, StandKeeps DEF e
    <3>2. CASE d = c
      <4>1. CallIsOpen(lg, n, c)
        BY <1>3, <1>4, <2>2 DEF CallStands, CallIsNew, CallIsAnswered, CallIsDropped
      <4>2. PICK i \in 1..n :
               Asks(lg, n, c) = {i} /\ Answers(lg, n, c) = {} /\ InOneStep(lg, i, n)
        BY <4>1 DEF CallIsOpen
      <4>3. Asks(lg, n + 1, c) = {i} /\ Answers(lg, n + 1, c) = {}
        <5>1. Asks(lg, n + 1, c) = Asks(lg, n, c) /\ Answers(lg, n + 1, c) = Answers(lg, n, c)
          <6>1. e.type # "assistant/message" /\ e.type # "tool/result"  BY <1>17
          <6> QED  BY <1>19, <6>1
        <5> QED  BY <4>2, <5>1
      <4>4. n + 1 \in Records(lg, n + 1, c)
        <5>1. Records(lg, n + 1, c) = Records(lg, n, c) \cup {n + 1}
          <6>1. e.type = "tool/call" /\ c \in e.calls  BY <1>17, <2>2
          <6> QED  BY <1>19, <6>1
        <5> QED  BY <5>1
      <4>5. InOneStep(lg, i, n + 1)
        <5>1. i..(n + 1) = (i..n) \cup {n + 1}  OBVIOUS
        <5> QED  BY <1>17, <4>2, <5>1 DEF InOneStep, e
      <4>6. i \in 1..(n + 1)  OBVIOUS
      <4>7. CallIsOpen(lg, n + 1, c)
        BY <1>4, <2>2, <2>4, <4>3, <4>4, <4>5, <4>6 DEF CallIsOpen
      <4> QED  BY <3>2, <4>7 DEF CallStands
    <3> QED  BY <3>1, <3>2
  <2>6. r.trace.pending \cup {c} = s.open.called \cap s.open.pending
    BY <1>3, <2>2, <2>4
  <2> QED  BY <1>3, <1>5, <1>6, <1>17, <2>1, <2>3, <2>4, <2>5, <2>6 DEF Consistent, s
<1>18. CASE e.type = "tool/result"
  <2>1. /\ o.turn # None /\ o.step # None /\ e.turn = o.turn /\ e.step = o.step
        /\ \E c \in Calls :
             /\ e.calls = {c} /\ c \in o.pending
             /\ IF c \in o.called THEN e.code # "not-started" ELSE e.code = "not-started"
    BY <1>10, <1>18 DEF Fits, FitsStep, r
  <2>2. PICK c \in Calls :
          /\ e.calls = {c} /\ c \in o.pending
          /\ IF c \in o.called THEN e.code # "not-started" ELSE e.code = "not-started"
    BY <2>1
  <2>3. /\ s \in ScanState /\ s.legal
        /\ s.open = [o EXCEPT !.pending = @ \ {c}]
        /\ s.trace.openTurn = r.trace.openTurn /\ s.trace.openStep = r.trace.openStep
        /\ s.trace.nextTurn = r.trace.nextTurn
        /\ s.trace.pending = r.trace.pending \ {c}
    <3>1. InOpenStep(r.trace, e)  BY <1>3, <2>1 DEF InOpenStep
    <3>2. c \in r.trace.pending \/ e.code = "not-started"  BY <1>3, <2>2
    <3> QED  BY <1>1, <1>2, <1>3, <1>18, <2>2, <3>1, <3>2, ToolResultReads
  <2>4. s.open.turn = o.turn /\ s.open.step = o.step
        /\ s.open.pending = o.pending \ {c} /\ s.open.called = o.called
    BY <1>8, <2>2, <2>3 DEF OpenState
  <2>5. ASSUME NEW d \in Calls PROVE CallStands(lg, n + 1, d)
    <3>1. CASE d # c
      BY <1>3, <1>4, <1>18, <2>2, <2>4, <3>1, StandKeeps DEF e
    <3>2. CASE d = c
      <4>1. CallIsOpen(lg, n, c)
        BY <1>3, <1>4, <2>2 DEF CallStands, CallIsNew, CallIsAnswered, CallIsDropped
      <4>2. PICK i \in 1..n :
               /\ Asks(lg, n, c) = {i} /\ Answers(lg, n, c) = {} /\ InOneStep(lg, i, n)
               /\ (c \in o.called <=> Records(lg, n, c) # {})
        BY <1>4, <4>1 DEF CallIsOpen
      <4>3. /\ Asks(lg, n + 1, c) = {i} /\ Answers(lg, n + 1, c) = {n + 1}
            /\ Records(lg, n + 1, c) = Records(lg, n, c)
        <5>1. /\ e.type # "assistant/message" /\ e.type # "tool/call"
              /\ e.type = "tool/result" /\ c \in e.calls
          BY <1>18, <2>2
        <5>2. Asks(lg, n + 1, c) = Asks(lg, n, c) /\ Records(lg, n + 1, c) = Records(lg, n, c)
          BY <1>19, <5>1
        <5>3. Answers(lg, n + 1, c) = Answers(lg, n, c) \cup {n + 1}
          BY <1>19, <5>1
        <5> QED  BY <4>2, <5>2, <5>3
      <4>4. InOneStep(lg, i, n + 1)
        <5>1. i..(n + 1) = (i..n) \cup {n + 1}  OBVIOUS
        <5> QED  BY <1>18, <4>2, <5>1 DEF InOneStep, e
      <4>5. i \in 1..(n + 1) /\ n + 1 \in 1..(n + 1) /\ i < n + 1  OBVIOUS
      <4>6. e.code = "not-started" => Records(lg, n + 1, c) = {}
        BY <2>2, <4>2, <4>3
      <4>7. e.code = "unknown" => \E k \in Records(lg, n + 1, c) : k <= n + 1
        <5>1. \A k \in Records(lg, n, c) : k <= n + 1
          BY EventsAreBelow DEF Records
        <5> QED  BY <2>2, <4>2, <4>3, <5>1
      <4>8. CallIsAnswered(lg, n + 1, c)
        BY <1>4, <2>4, <4>3, <4>4, <4>5, <4>6, <4>7 DEF CallIsAnswered, e
      <4> QED  BY <3>2, <4>8 DEF CallStands
    <3> QED  BY <3>1, <3>2
  <2>6. r.trace.pending \ {c} = s.open.called \cap s.open.pending
    BY <1>3, <2>4
  <2> QED  BY <1>3, <1>5, <1>6, <1>18, <2>1, <2>3, <2>4, <2>5, <2>6 DEF Consistent, s
<1>20. e.type \in EventTypes  BY <1>1 DEF LogEvent
<1> QED  BY <1>11, <1>12, <1>13, <1>14, <1>15, <1>16, <1>17, <1>18, <1>20 DEF EventTypes

-----------------------------------------------------------------------------
(* Longer and shorter logs.                                                *)

Agree(a, b, n) ==
  /\ a \in Seq(LogEvent) /\ b \in Seq(LogEvent)
  /\ n \in Nat /\ n <= Len(a) /\ n <= Len(b)
  /\ \A i \in 1..n : a[i] = b[i]

\* What is said of a prefix of a log is said of it in every log that begins with it.
LEMMA SaidOfPrefix ==
  ASSUME NEW a, NEW b, NEW n, Agree(a, b, n)
  PROVE  /\ Scan(a)[n] = Scan(b)[n]
         /\ LastTurnAt(a, n) = LastTurnAt(b, n)
         /\ \A c, type : EventsOf(a, n, c, type) = EventsOf(b, n, c, type)
         /\ \A i, j \in 1..n : InOneStep(a, i, j) <=> InOneStep(b, i, j)
<1>1. /\ Len(a) \in Nat /\ Len(b) \in Nat /\ n \in Nat /\ n <= Len(a) /\ n <= Len(b)
      /\ \A i \in 1..n : a[i] = b[i]
  BY DEF Agree
<1>2. Scan(a)[n] = Scan(b)[n]  BY <1>1, ScanAgrees
<1>3. LastTurnAt(a, n) = LastTurnAt(b, n)
  <2> DEFINE A == {i \in 1..n : a[i].type = "turn/start"}
             B == {i \in 1..n : b[i].type = "turn/start"}
             last == CHOOSE i \in B : \A j \in B : j <= i
  <2>1. A = B  BY <1>1
  <2>2. LastTurnAt(a, n) = IF A = {} THEN 0 ELSE a[CHOOSE i \in A : \A j \in A : j <= i].turn
    BY DEF LastTurnAt
  <2>3. LastTurnAt(b, n) = IF B = {} THEN 0 ELSE b[last].turn
    BY DEF LastTurnAt
  <2>4. LastTurnAt(a, n) = IF B = {} THEN 0 ELSE a[last].turn
    <3> HIDE DEF A, B
    <3> QED  BY <2>1, <2>2
  <2>5. B # {} => last \in B
    <3>1. B \in SUBSET (0..n)  BY <1>1
    <3>2. B # {} => \E i \in B : \A j \in B : j <= i
      <4> HIDE DEF B
      <4> QED  BY <1>1, <3>1, Greatest
    <3> HIDE DEF B
    <3> QED  BY <3>2
  <2>6. B # {} => a[last] = b[last]
    <3>1. B \in SUBSET (1..n)  OBVIOUS
    <3> HIDE DEF B, last
    <3> QED  BY <1>1, <2>5, <3>1
  <2> HIDE DEF A, B, last
  <2> QED  BY <2>3, <2>4, <2>6
<1>4. \A c, type : EventsOf(a, n, c, type) = EventsOf(b, n, c, type)
  BY <1>1 DEF EventsOf
<1>5. ASSUME NEW i \in 1..n, NEW j \in 1..n
      PROVE  InOneStep(a, i, j) <=> InOneStep(b, i, j)
  <2>1. \A k \in i..j : k \in 1..n  BY <1>1
  <2> QED  BY <1>1, <2>1 DEF InOneStep
<1> QED  BY <1>2, <1>3, <1>4, <1>5

\* So a prefix is consistent in every log that begins with it.
LEMMA ConsistentPrefix ==
  ASSUME NEW a, NEW b, NEW n, Agree(a, b, n), Consistent(a, n)
  PROVE  Consistent(b, n)
<1>1. /\ Scan(a)[n] = Scan(b)[n]
      /\ LastTurnAt(a, n) = LastTurnAt(b, n)
      /\ \A c, type : EventsOf(a, n, c, type) = EventsOf(b, n, c, type)
      /\ \A i, j \in 1..n : InOneStep(a, i, j) <=> InOneStep(b, i, j)
  BY SaidOfPrefix
<1>2. \A c : /\ Asks(a, n, c) = Asks(b, n, c) /\ Records(a, n, c) = Records(b, n, c)
             /\ Answers(a, n, c) = Answers(b, n, c)
  BY <1>1 DEF Asks, Records, Answers
<1>3. OpenAt(a, n) = OpenAt(b, n)  BY <1>1 DEF OpenAt
<1>4. n \in Nat /\ \A i \in 1..n : a[i] = b[i]  BY DEF Agree
<1>5. ASSUME NEW c \in Calls, CallStands(a, n, c) PROVE CallStands(b, n, c)
  <2>1. CASE CallIsNew(a, n, c)
    BY <1>2, <1>3, <2>1 DEF CallIsNew, CallStands
  <2>2. CASE CallIsOpen(a, n, c)
    <3>1. PICK i \in 1..n :
            /\ Asks(a, n, c) = {i} /\ Answers(a, n, c) = {}
            /\ c \in OpenAt(a, n).pending
            /\ (c \in OpenAt(a, n).called <=> Records(a, n, c) # {})
            /\ InOneStep(a, i, n)
      BY <2>2 DEF CallIsOpen
    <3>2. n \in 1..n  BY <1>4
    <3>3. InOneStep(b, i, n)  BY <1>1, <3>1, <3>2
    <3>4. CallIsOpen(b, n, c)  BY <1>2, <1>3, <3>1, <3>3 DEF CallIsOpen
    <3> QED  BY <3>4 DEF CallStands
  <2>3. CASE CallIsAnswered(a, n, c)
    <3>1. CallIsAnswered(b, n, c)
      BY <1>1, <1>2, <1>3, <1>4, <2>3 DEF CallIsAnswered
    <3> QED  BY <3>1 DEF CallStands
  <2>4. CASE CallIsDropped(a, n, c)
    <3>1. CallIsDropped(b, n, c)
      BY <1>2, <1>3, <2>4 DEF CallIsDropped
    <3> QED  BY <3>1 DEF CallStands
  <2> QED  BY <1>5, <2>1, <2>2, <2>3, <2>4 DEF CallStands
<1>6. AskedInOrder(a, n) => AskedInOrder(b, n)  BY <1>2 DEF AskedInOrder
<1> QED  BY <1>1, <1>5, <1>6 DEF Consistent

\* What a crash leaves of a consistent log is one.
LEMMA LogCut ==
  ASSUME NEW lg, LogInv(lg), NEW n \in 0..Len(lg)
  PROVE  LET cut == SubSeq(lg, 1, n) IN
         /\ LogInv(cut) /\ Len(cut) = n /\ \A i \in 1..n : cut[i] = lg[i]
         /\ \A k \in 0..n : Agree(lg, cut, k)
<1> DEFINE cut == SubSeq(lg, 1, n)
<1>1. lg \in Seq(LogEvent) /\ \A k \in 0..Len(lg) : Consistent(lg, k)
  BY DEF LogInv
<1>2. cut \in Seq(LogEvent) /\ Len(cut) = n /\ \A i \in 1..n : cut[i] = lg[i]
  BY <1>1, SubSeqProperties
<1> HIDE DEF cut
<1>3. \A k \in 0..n : Agree(lg, cut, k)
  BY <1>1, <1>2 DEF Agree
<1>4. \A k \in 0..n : Consistent(cut, k)
  <2>1. \A k \in 0..n : k \in 0..Len(lg)  BY <1>1
  <2> QED  BY <1>1, <1>3, <2>1, ConsistentPrefix
<1> QED  BY <1>2, <1>3, <1>4 DEF LogInv, cut

\* Whether an event fits is said by what has been read, and by what was asked.
LEMMA FitsIsSame ==
  ASSUME NEW a, NEW b, NEW n, NEW e, Fits(a, n, e),
         Scan(a)[n] = Scan(b)[n], \A c : Asks(a, n, c) = Asks(b, n, c)
  PROVE  Fits(b, n, e)
<1>1. CASE e.type = "assistant/message"
  <2>1. /\ FitsStep(Scan(b)[n].open, e)
        /\ Scan(b)[n].open.pending = {} /\ Scan(b)[n].open.called = {}
        /\ \A c \in e.calls : Asks(a, n, c) = {}
        /\ \E m \in 0..MaxCalls :
             \A c \in Calls : (Asks(a, n, c) # {} \/ c \in e.calls) <=> c <= m
    BY <1>1 DEF Fits
  <2>2. /\ \A c \in e.calls : Asks(b, n, c) = {}
        /\ \E m \in 0..MaxCalls :
             \A c \in Calls : (Asks(b, n, c) # {} \/ c \in e.calls) <=> c <= m
    BY <2>1
  <2> QED  BY <1>1, <2>1, <2>2 DEF Fits
<1>2. CASE e.type # "assistant/message"
  BY <1>2 DEF Fits
<1> QED  BY <1>1, <1>2

\* An event that fits makes a longer log of the same kind.
LEMMA LogGrows ==
  ASSUME NEW lg, LogInv(lg), NEW e \in LogEvent, Fits(lg, Len(lg), e)
  PROVE  LET next == Append(lg, e) IN
         /\ LogInv(next) /\ Len(next) = Len(lg) + 1
         /\ next[Len(lg) + 1] = e
         /\ \A i \in 1..Len(lg) : next[i] = lg[i]
         /\ \A k \in 0..Len(lg) : Agree(lg, next, k)
         /\ Scanned(next) = ScanEvent(Scanned(lg), e)
<1> DEFINE next == Append(lg, e)
           n == Len(lg)
<1>1. lg \in Seq(LogEvent) /\ \A k \in 0..n : Consistent(lg, k)
  BY DEF LogInv
<1>2. n \in Nat /\ n \in 0..n  BY <1>1
<1>3. /\ next \in Seq(LogEvent) /\ Len(next) = n + 1
      /\ next[n + 1] = e /\ \A i \in 1..n : next[i] = lg[i]
  BY <1>1, AppendProperties
<1> HIDE DEF next, n
<1>4. \A k \in 0..n : Agree(lg, next, k)
  BY <1>1, <1>2, <1>3 DEF Agree, n
<1>5. \A k \in 0..n : Consistent(next, k)
  BY <1>1, <1>4, ConsistentPrefix
<1>6. Scan(lg)[n] = Scan(next)[n]
      /\ \A c, type : EventsOf(lg, n, c, type) = EventsOf(next, n, c, type)
  BY <1>2, <1>4, SaidOfPrefix
<1>7. Fits(next, n, next[n + 1])
  <2>1. \A c : Asks(lg, n, c) = Asks(next, n, c)  BY <1>6 DEF Asks
  <2>2. Fits(lg, n, e)  BY DEF n
  <2> QED  BY <1>3, <1>6, <2>1, <2>2, FitsIsSame
<1>8. Consistent(next, n + 1)
  <2>1. n < Len(next)  BY <1>2, <1>3
  <2> QED  BY <1>2, <1>3, <1>5, <1>7, <2>1, ConsistentGrows
<1>9. LogInv(next)
  <2>1. \A k \in 0..(n + 1) : k \in 0..n \/ k = n + 1  BY <1>2
  <2> QED  BY <1>3, <1>5, <1>8, <2>1 DEF LogInv
<1>10. Scanned(next) = ScanEvent(Scanned(lg), e)
  <2>1. n + 1 \in 1..Len(next) /\ (n + 1) - 1 = n /\ Len(next) \in Nat  BY <1>2, <1>3
  <2>2. Scan(next)[n + 1] = ScanEvent(Scan(next)[n], e)  BY <1>3, <2>1, ScanRuns
  <2> QED  BY <1>3, <1>6, <2>2 DEF Scanned, n
<1> QED  BY <1>3, <1>4, <1>9, <1>10 DEF next, n

\* A sequence grows by a longer part of another one as it grows by that part's
\* last element.
LEMMA OneMore ==
  ASSUME NEW S, NEW s \in Seq(S), NEW t \in Seq(S), NEW n \in 1..Len(t)
  PROVE  /\ s \o SubSeq(t, 1, n) = Append(s \o SubSeq(t, 1, n - 1), t[n])
         /\ s \o SubSeq(t, 1, 0) = s
<1> DEFINE a == SubSeq(t, 1, n - 1)
           b == SubSeq(t, 1, n)
<1>1. Len(t) \in Nat /\ Len(s) \in Nat /\ n \in Nat /\ n - 1 \in Nat /\ n <= Len(t)
  OBVIOUS
<1>2. \A i \in 1..Len(t) : t[i] \in S  OBVIOUS
<1>3. a \in Seq(S) /\ Len(a) = n - 1 /\ \A i \in 1..(n - 1) : a[i] = t[i]
  BY <1>1, <1>2, SubSeqProperties
<1>4. b \in Seq(S) /\ Len(b) = n /\ \A i \in 1..n : b[i] = t[i]
  BY <1>1, <1>2, SubSeqProperties
<1>5. SubSeq(t, 1, 0) = <<>>  BY SubSeqEmpty
<1> HIDE DEF a, b
<1>6. s \o <<>> = s  BY ConcatEmptySeq
<1>7. /\ s \o a \in Seq(S) /\ Len(s \o a) = Len(s) + (n - 1)
      /\ \A i \in 1..(Len(s) + (n - 1)) :
           (s \o a)[i] = IF i <= Len(s) THEN s[i] ELSE a[i - Len(s)]
  <2>1. /\ s \o a \in Seq(S) /\ Len(s \o a) = Len(s) + Len(a)
        /\ \A i \in 1..(Len(s) + Len(a)) :
             (s \o a)[i] = IF i <= Len(s) THEN s[i] ELSE a[i - Len(s)]
    BY <1>3, ConcatProperties
  <2> QED  BY <1>3, <2>1
<1>8. /\ s \o b \in Seq(S) /\ Len(s \o b) = Len(s) + n
      /\ \A i \in 1..(Len(s) + n) :
           (s \o b)[i] = IF i <= Len(s) THEN s[i] ELSE b[i - Len(s)]
  BY <1>4, ConcatProperties
<1>9. /\ Append(s \o a, t[n]) \in Seq(S) /\ Len(Append(s \o a, t[n])) = Len(s) + n
      /\ \A i \in 1..(Len(s) + (n - 1)) : Append(s \o a, t[n])[i] = (s \o a)[i]
      /\ Append(s \o a, t[n])[Len(s) + n] = t[n]
  BY <1>1, <1>2, <1>7, AppendProperties
<1>10. ASSUME NEW i \in 1..(Len(s) + n)
       PROVE  (s \o b)[i] = Append(s \o a, t[n])[i]
  <2>1. CASE i = Len(s) + n
    <3>1. ~(i <= Len(s)) /\ i - Len(s) = n /\ n \in 1..n  BY <1>1, <2>1
    <3> QED  BY <1>4, <1>8, <1>9, <2>1, <3>1
  <2>2. CASE i # Len(s) + n /\ i <= Len(s)
    <3>1. i \in 1..(Len(s) + (n - 1))  BY <1>1, <2>2
    <3> QED  BY <1>7, <1>8, <1>9, <2>2, <3>1
  <2>3. CASE i # Len(s) + n /\ ~(i <= Len(s))
    <3>1. i \in 1..(Len(s) + (n - 1)) /\ i - Len(s) \in 1..(n - 1) /\ i - Len(s) \in 1..n
      BY <1>1, <2>3
    <3> QED  BY <1>3, <1>4, <1>7, <1>8, <1>9, <2>3, <3>1
  <2> QED  BY <2>1, <2>2, <2>3
<1>11. s \o b = Append(s \o a, t[n])
  BY <1>8, <1>9, <1>10, SeqEqual
<1> QED  BY <1>5, <1>6, <1>11 DEF a, b

-----------------------------------------------------------------------------
(* The closers of an interrupted log.                                      *)

TurnCloser(o) == Event("turn/end", o.turn, None, {}, "interrupted")

\* What is open once the first n closers are written.
OpenAfter(o, n) ==
  LET k == Cardinality(o.pending)
  IN IF n <= k THEN [o EXCEPT !.pending = {InOrder(o.pending)[i] : i \in (n + 1)..k}]
     ELSE IF o.step # None /\ n = k + 1
          THEN [o EXCEPT !.step = None, !.pending = {}, !.called = {}]
     ELSE NothingOpen

\* The results in the order of the answer, the end of the step, the end of the turn.
LEMMA ClosersAre ==
  ASSUME NEW lg \in Seq(LogEvent), NEW o \in OpenState, Scanned(lg).open = o,
         o.step = None => o.pending = {}
  PROVE  LET closers == interruptedTurnClosers(lg)
             k == Cardinality(o.pending)
         IN /\ o.turn = None => closers = <<>>
            /\ o.turn # None =>
                 /\ closers \in Seq(LogEvent) /\ k \in Nat /\ closers # <<>>
                 /\ Len(closers) = IF o.step = None THEN 1 ELSE k + 2
                 /\ o.step = None => k = 0
                 /\ \A i \in 1..k :
                      /\ InOrder(o.pending)[i] \in o.pending
                      /\ closers[i] = Event("tool/result", o.turn, o.step,
                                        {InOrder(o.pending)[i]}, Outcome(o, InOrder(o.pending)[i]))
                 /\ o.step # None => closers[k + 1] = Boundary("step/end", o.turn, o.step)
                 /\ closers[Len(closers)] = TurnCloser(o)
<1> DEFINE closers == interruptedTurnClosers(lg)
           k == Cardinality(o.pending)
           order == InOrder(o.pending)
           result(c) == Event("tool/result", o.turn, o.step, {c}, Outcome(o, c))
           results == [i \in 1..k |-> result(order[i])]
<1>0. OpenTail(lg) = o
  <2>1. Len(lg) \in Nat /\ DOMAIN lg = 1..Len(lg)  OBVIOUS
  <2> QED  BY <2>1, ScannedReads
<1>1. CASE o.turn = None
  BY <1>0, <1>1 DEF interruptedTurnClosers
<1>2. CASE o.turn # None
  <2>1. /\ k \in Nat /\ (o.pending = {} => k = 0)
        /\ \A i \in 1..k : order[i] \in o.pending /\ order[i] \in Calls
    BY InOrderEnumerates DEF OpenState
  <2>2. /\ o.turn \in 0..MaxTurns /\ o.step \in 0..MaxSteps /\ 0 \in 0..MaxSteps
    BY BoundsAreNaturals DEF OpenState
  <2>3. ASSUME NEW c \in Calls PROVE result(c) \in LogEvent
    BY <2>2, <2>3 DEF LogEvent, Event, EventTypes, Outcome
  <2>4. Boundary("step/end", o.turn, o.step) \in LogEvent /\ TurnCloser(o) \in LogEvent
    BY <2>2 DEF LogEvent, Boundary, Event, EventTypes, TurnCloser, None
  <2>5. /\ results \in Seq(LogEvent) /\ Len(results) = k
        /\ \A i \in 1..k : results[i] = result(order[i])
    <3>1. \A i \in 1..k : result(order[i]) \in LogEvent  BY <2>1, <2>3
    <3> HIDE DEF result, order, k
    <3> QED  BY <2>1, <3>1
  <2>6. closers = (results \o StepCloser(o)) \o <<TurnCloser(o)>>
    <3>1. Results(o) = results  BY DEF Results
    <3> HIDE DEF results
    <3> QED  BY <1>0, <1>2, <3>1 DEF interruptedTurnClosers, TurnCloser
  <2> HIDE DEF closers, results, result, order, k
  <2>7. CASE o.step = None
    <3>1. StepCloser(o) = <<>> /\ k = 0  BY <2>1, <2>7 DEF StepCloser
    <3>2. results \o <<>> = results  BY <2>5, ConcatEmptySeq
    <3>3. closers = Append(results, TurnCloser(o))
      BY <2>4, <2>5, <2>6, <3>1, <3>2, AppendIsConcat
    <3>4. closers \in Seq(LogEvent) /\ Len(closers) = 1 /\ closers[1] = TurnCloser(o)
      BY <2>4, <2>5, <3>1, <3>3, AppendProperties
    <3>5. closers # <<>>
      <4>1. Len(closers) # Len(<<>>)  BY <3>4, EmptySeq
      <4> QED  BY <4>1
    <3> QED  BY <1>2, <2>7, <3>1, <3>4, <3>5 DEF closers, k
  <2>8. CASE o.step # None
    <3> DEFINE stepEnd == Boundary("step/end", o.turn, o.step)
               answered == Append(results, stepEnd)
    <3>1. StepCloser(o) = <<stepEnd>>  BY <2>8 DEF StepCloser
    <3> HIDE DEF stepEnd
    <3>2. results \o <<stepEnd>> = answered
      BY <2>4, <2>5, AppendIsConcat DEF stepEnd
    <3>3. /\ answered \in Seq(LogEvent) /\ Len(answered) = k + 1
          /\ answered[k + 1] = stepEnd /\ \A i \in 1..k : answered[i] = results[i]
      BY <2>4, <2>5, AppendProperties DEF stepEnd
    <3> HIDE DEF answered
    <3>4. closers = Append(answered, TurnCloser(o))
      BY <2>4, <2>6, <3>1, <3>2, <3>3, AppendIsConcat
    <3>5. /\ closers \in Seq(LogEvent) /\ Len(closers) = (k + 1) + 1
          /\ closers[(k + 1) + 1] = TurnCloser(o)
          /\ \A i \in 1..(k + 1) : closers[i] = answered[i]
      BY <2>4, <3>3, <3>4, AppendProperties
    <3>6. (k + 1) + 1 = k + 2 /\ k + 1 \in 1..(k + 1) /\ \A i \in 1..k : i \in 1..(k + 1)
      BY <2>1
    <3>7. Len(closers) = k + 2 /\ closers[k + 2] = TurnCloser(o)
          /\ closers[k + 1] = stepEnd
          /\ \A i \in 1..k : closers[i] = result(order[i])
      BY <2>5, <3>3, <3>5, <3>6
    <3>8. closers # <<>>  BY <2>1, <3>7
    <3> QED  BY <1>2, <2>1, <2>8, <3>5, <3>7, <3>8 DEF closers, k, order, result, stepEnd
  <2> QED  BY <2>7, <2>8
<1> QED  BY <1>1, <1>2

\* What has been read when the last event has.
LEMMA ScannedIs ==
  ASSUME NEW lg, LogInv(lg)
  PROVE  /\ lg \in Seq(LogEvent) /\ Len(lg) \in Nat /\ DOMAIN lg = 1..Len(lg)
         /\ Consistent(lg, Len(lg))
         /\ Scan(lg)[Len(lg)] = Scanned(lg) /\ OpenAt(lg, Len(lg)) = Scanned(lg).open
         /\ Scanned(lg) \in ScanState /\ Scanned(lg).open \in OpenState /\ Scanned(lg).legal
         /\ Scanned(lg).trace \in TraceState
         /\ Scanned(lg).open.turn = None => Scanned(lg).open = NothingOpen
         /\ Scanned(lg).open.step = None =>
              Scanned(lg).open.pending = {} /\ Scanned(lg).open.called = {}
         /\ Traces(lg)[Len(lg)] = Scanned(lg).trace
         /\ \A n \in DOMAIN lg : Legal(Traces(lg)[n - 1], lg[n])
<1>1. lg \in Seq(LogEvent) /\ \A k \in 0..Len(lg) : Consistent(lg, k)  BY DEF LogInv
<1>2. Len(lg) \in Nat /\ Len(lg) \in 0..Len(lg) /\ DOMAIN lg = 1..Len(lg)  BY <1>1
<1>3. Consistent(lg, Len(lg))  BY <1>1, <1>2
<1>4. Scanned(lg) = Scan(lg)[Len(lg)]  BY DEF Scanned
<1>5. /\ Scanned(lg) \in ScanState /\ Scanned(lg).legal
      /\ Scanned(lg).open.turn = None => Scanned(lg).open = NothingOpen
      /\ Scanned(lg).open.step = None =>
              Scanned(lg).open.pending = {} /\ Scanned(lg).open.called = {}
  BY <1>3, <1>4 DEF Consistent
<1>6. Scanned(lg).open \in OpenState /\ Scanned(lg).trace \in TraceState  BY <1>5 DEF ScanState
<1>7. /\ Traces(lg)[Len(lg)] = Scanned(lg).trace
      /\ \A n \in DOMAIN lg : Legal(Traces(lg)[n - 1], lg[n])
  BY <1>2, <1>5, ScannedReads
<1> QED  BY <1>1, <1>2, <1>3, <1>4, <1>5, <1>6, <1>7 DEF OpenAt

\* Each closer fits the log it is appended to, so that a crash between two of
\* them leaves a log that can be repaired in turn.
LEMMA CloserFits ==
  ASSUME NEW lg, LogInv(lg), NEW p, LogInv(p),
         NEW o, o = Scanned(lg).open, o.turn # None,
         NEW n \in 1..Len(interruptedTurnClosers(lg)),
         Scanned(p).open = OpenAfter(o, n - 1)
  PROVE  LET e == interruptedTurnClosers(lg)[n] IN
         /\ e \in LogEvent /\ Fits(p, Len(p), e)
         /\ ScanEvent(Scanned(p), e).open = OpenAfter(o, n)
<1> DEFINE closers == interruptedTurnClosers(lg)
           k == Cardinality(o.pending)
           order == InOrder(o.pending)
           r == Scanned(p)
           e == closers[n]
<1>1. /\ lg \in Seq(LogEvent) /\ o \in OpenState
      /\ o.step = None => o.pending = {} /\ o.called = {}
  BY ScannedIs
<1>2. /\ closers \in Seq(LogEvent) /\ k \in Nat
      /\ Len(closers) = IF o.step = None THEN 1 ELSE k + 2
      /\ o.step = None => k = 0
      /\ \A i \in 1..k :
           /\ order[i] \in o.pending
           /\ closers[i] = Event("tool/result", o.turn, o.step, {order[i]}, Outcome(o, order[i]))
      /\ o.step # None => closers[k + 1] = Boundary("step/end", o.turn, o.step)
      /\ closers[Len(closers)] = TurnCloser(o)
  BY <1>1, ClosersAre
<1>3. \A i, j \in 1..k : i # j => order[i] # order[j]
  BY <1>1, InOrderEnumerates DEF OpenState
<1>4. e \in LogEvent  BY <1>2
<1>5. r \in ScanState /\ Scan(p)[Len(p)] = r  BY ScannedIs
<1>6. r.open = OpenAfter(o, n - 1)  OBVIOUS
<1>7. n \in Nat /\ n - 1 \in Nat  OBVIOUS
<1> HIDE DEF closers, r, e
<1>8. CASE n <= k
  <2> DEFINE c == order[n]
             left(i) == {order[j] : j \in (i + 1)..k}
  <2>1. o.step # None /\ n \in 1..k  BY <1>2, <1>7, <1>8
  <2>2. c \in o.pending /\ c \in Calls  BY <1>1, <1>2, <2>1 DEF OpenState
  <2>3. e = Event("tool/result", o.turn, o.step, {c}, Outcome(o, c))
    BY <1>2, <2>1 DEF e
  <2>4. e.type = "tool/result" /\ e.turn = o.turn /\ e.step = o.step /\ e.calls = {c}
        /\ e.code = Outcome(o, c)
    BY <2>3 DEF Event
  <2>5. r.open = [o EXCEPT !.pending = left(n - 1)] /\ OpenAfter(o, n) = [o EXCEPT !.pending = left(n)]
    BY <1>2, <1>6, <1>7, <1>8 DEF OpenAfter
  <2>6. left(n) = left(n - 1) \ {c} /\ c \in left(n - 1)
    <3>1. ((n - 1) + 1)..k = {n} \cup ((n + 1)..k) /\ n \notin (n + 1)..k
      BY <1>2, <1>7, <1>8
    <3>2. \A j \in (n + 1)..k : j \in 1..k /\ j # n  BY <1>2, <1>7
    <3>3. \A j \in (n + 1)..k : order[j] # c  BY <1>3, <2>1, <3>2
    <3> HIDE DEF order
    <3> QED  BY <3>1, <3>3
  <2> HIDE DEF c, left
  <2>7. r.open.turn = o.turn /\ r.open.step = o.step /\ r.open.called = o.called
        /\ r.open.pending = left(n - 1)
    BY <1>1, <2>5 DEF OpenState
  <2>8. IF c \in o.called THEN e.code # "not-started" ELSE e.code = "not-started"
    BY <2>4 DEF Outcome
  <2>9. Fits(p, Len(p), e)
    BY <1>5, <2>1, <2>2, <2>4, <2>6, <2>7, <2>8 DEF Fits, FitsStep
  <2>10. ScanEvent(r, e).open = [r.open EXCEPT !.pending = @ \ {c}]
    BY <1>4, <1>5, <2>2, <2>4, ToolResultReads
  <2>11. [r.open EXCEPT !.pending = @ \ {c}] = [o EXCEPT !.pending = left(n)]
    BY <1>1, <2>5, <2>6 DEF OpenState
  <2> QED  BY <1>4, <2>5, <2>9, <2>10, <2>11 DEF r, e, closers
<1>9. CASE o.step # None /\ n = k + 1
  <2>1. e = Boundary("step/end", o.turn, o.step)  BY <1>2, <1>9 DEF e
  <2>2. e.type = "step/end" /\ e.turn = o.turn /\ e.step = o.step
    BY <2>1 DEF Boundary, Event
  <2>3. r.open = [o EXCEPT !.pending = {}]
    <3>1. n - 1 = k /\ (k + 1)..k = {}  BY <1>2, <1>9
    <3>2. k <= k  BY <1>2
    <3>3. OpenAfter(o, k) = [o EXCEPT !.pending = {order[i] : i \in (k + 1)..k}]
      BY <3>2 DEF OpenAfter
    <3>4. {order[i] : i \in (k + 1)..k} = {}
      <4> HIDE DEF order, k
      <4> QED  BY <3>1
    <3> HIDE DEF order, k
    <3> QED  BY <1>6, <3>1, <3>3, <3>4
  <2>4. OpenAfter(o, n) = [o EXCEPT !.step = None, !.pending = {}, !.called = {}]
    <3>1. ~(n <= k)  BY <1>2, <1>9
    <3> QED  BY <1>9, <3>1 DEF OpenAfter
  <2>5. r.open.turn = o.turn /\ r.open.step = o.step /\ r.open.pending = {}
    BY <1>1, <2>3 DEF OpenState
  <2>6. Fits(p, Len(p), e)
    BY <1>5, <1>9, <2>2, <2>5 DEF Fits, FitsStep
  <2>7. ScanEvent(r, e).open = [r.open EXCEPT !.step = None, !.pending = {}, !.called = {}]
    BY <1>4, <1>5, <2>2, StepEndReads
  <2>8. [r.open EXCEPT !.step = None, !.pending = {}, !.called = {}]
          = [o EXCEPT !.step = None, !.pending = {}, !.called = {}]
    BY <1>1, <2>3 DEF OpenState
  <2> QED  BY <1>4, <2>4, <2>6, <2>7, <2>8 DEF r, e, closers
<1>10. CASE ~(n <= k) /\ ~(o.step # None /\ n = k + 1)
  <2>1. n = Len(closers)  BY <1>2, <1>7, <1>10 DEF closers
  <2>2. e = TurnCloser(o)  BY <1>2, <2>1 DEF e
  <2>3. e.type = "turn/end" /\ e.turn = o.turn  BY <2>2 DEF TurnCloser, Event
  <2>4. r.open.turn = o.turn /\ r.open.step = None
    <3>1. CASE o.step = None
      <4>1. n - 1 = 0 /\ 0 <= k  BY <1>2, <2>1, <3>1
      <4>2. r.open = [o EXCEPT !.pending = {order[i] : i \in (0 + 1)..k}]
        BY <1>6, <4>1 DEF OpenAfter
      <4> HIDE DEF order
      <4> QED  BY <1>1, <3>1, <4>2 DEF OpenState
    <3>2. CASE o.step # None
      <4>1. n - 1 = k + 1 /\ ~(k + 1 <= k)  BY <1>2, <2>1, <3>2
      <4>2. r.open = [o EXCEPT !.step = None, !.pending = {}, !.called = {}]
        BY <1>6, <3>2, <4>1 DEF OpenAfter
      <4> QED  BY <1>1, <4>2 DEF OpenState
    <3> QED  BY <3>1, <3>2
  <2>5. OpenAfter(o, n) = NothingOpen  BY <1>10 DEF OpenAfter
  <2>6. Fits(p, Len(p), e)  BY <1>5, <2>3, <2>4 DEF Fits
  <2>7. ScanEvent(r, e).open = NothingOpen
    BY <1>4, <1>5, <2>3, TurnEndReads
  <2> QED  BY <1>4, <2>5, <2>6, <2>7 DEF r, e, closers
<1> QED  BY <1>8, <1>9, <1>10

\* So every part of a repair leaves a valid and consistent log.
LEMMA ClosersGrow ==
  ASSUME NEW lg, LogInv(lg), Scanned(lg).open.turn # None
  PROVE  LET closers == interruptedTurnClosers(lg) IN
         \A n \in 0..Len(closers) :
           LET next == lg \o SubSeq(closers, 1, n) IN
           /\ LogInv(next) /\ Len(next) = Len(lg) + n
           /\ \A i \in 1..Len(lg) : next[i] = lg[i]
<1> DEFINE closers == interruptedTurnClosers(lg)
           o == Scanned(lg).open
           next(n) == lg \o SubSeq(closers, 1, n)
           Good(n) == /\ LogInv(next(n)) /\ Len(next(n)) = Len(lg) + n
                      /\ \A i \in 1..Len(lg) : next(n)[i] = lg[i]
                      /\ Scanned(next(n)).open = OpenAfter(o, n)
           G == {n \in 0..Len(closers) : Good(n)}
<1>1. /\ lg \in Seq(LogEvent) /\ Len(lg) \in Nat /\ o \in OpenState
      /\ o.step = None => o.pending = {} /\ o.called = {}
  BY ScannedIs
<1>2. closers \in Seq(LogEvent) /\ Len(closers) \in Nat /\ 1 \in 1..Len(closers)
  <2>1. /\ closers \in Seq(LogEvent) /\ Cardinality(o.pending) \in Nat
        /\ Len(closers) = IF o.step = None THEN 1 ELSE Cardinality(o.pending) + 2
    BY <1>1, ClosersAre
  <2> QED  BY <2>1
<1> HIDE DEF closers
<1>3. 0 \in G
  <2>1. next(0) = lg
    <3>1. lg \in Seq(LogEvent) /\ closers \in Seq(LogEvent)  BY <1>1, <1>2
    <3> QED  BY <1>2, <3>1, OneMore, Zenon
  <2>2. OpenAfter(o, 0) = o
    <3> DEFINE order == InOrder(o.pending)
               k == Cardinality(o.pending)
               all == {order[i] : i \in (0 + 1)..k}
    <3>1. /\ k \in Nat /\ order \in [1..k -> o.pending]
          /\ \A c \in o.pending : \E i \in 1..k : order[i] = c
      BY <1>1, InOrderEnumerates DEF OpenState
    <3>2. OpenAfter(o, 0) = [o EXCEPT !.pending = all]
      BY <3>1 DEF OpenAfter
    <3>3. all = o.pending
      <4> HIDE DEF order, k
      <4> QED  BY <3>1
    <3> HIDE DEF all
    <3>4. o \in [turn : 0 .. MaxTurns, step : 0 .. MaxSteps, pending : SUBSET Calls,
                called : SUBSET Calls]
      BY <1>1 DEF OpenState
    <3> HIDE DEF o
    <3>5. [o EXCEPT !.pending = o.pending] = o  BY <3>4
    <3> QED  BY <3>2, <3>3, <3>5, Zenon
  <2>3. 0 \in 0..Len(closers) /\ Len(lg) = Len(lg) + 0  BY <1>1, <1>2
  <2>4. Good(0)  
    <3> HIDE DEF next, o
    <3> QED  BY <2>1, <2>2, <2>3 DEF o
  <2> HIDE DEF Good
  <2> QED  BY <2>3, <2>4
<1>4. ASSUME NEW n \in 1..Len(closers), n - 1 \in G
      PROVE  n \in G
  <2> DEFINE p == next(n - 1)
             e == closers[n]
  <2>1. LogInv(p) /\ Len(p) = Len(lg) + (n - 1) /\ (\A i \in 1..Len(lg) : p[i] = lg[i])
        /\ Scanned(p).open = OpenAfter(o, n - 1)
    BY <1>4
  <2>2. e \in LogEvent /\ Fits(p, Len(p), e) /\ ScanEvent(Scanned(p), e).open = OpenAfter(o, n)
    <3>1. o = Scanned(lg).open /\ o.turn # None  OBVIOUS
    <3>2. n \in 1..Len(interruptedTurnClosers(lg)) /\ e = interruptedTurnClosers(lg)[n]
      BY DEF closers
    <3> HIDE DEF p, o, e
    <3> QED  BY <2>1, <3>1, <3>2, CloserFits
  <2>3. next(n) = Append(p, e)
    <3>1. lg \in Seq(LogEvent) /\ closers \in Seq(LogEvent)  BY <1>1, <1>2
    <3>2. lg \o SubSeq(closers, 1, n) = Append(lg \o SubSeq(closers, 1, n - 1), closers[n])
      <4> HIDE DEF p, e, next, o, G, Good
      <4> QED  BY <3>1, OneMore
    <3> QED  BY <3>2
  <2> HIDE DEF p, e, next, o
  <2>4. /\ LogInv(Append(p, e)) /\ Len(Append(p, e)) = Len(p) + 1
        /\ \A i \in 1..Len(p) : Append(p, e)[i] = p[i]
        /\ Scanned(Append(p, e)) = ScanEvent(Scanned(p), e)
    BY <2>1, <2>2, LogGrows
  <2>5. Len(p) + 1 = Len(lg) + n /\ \A i \in 1..Len(lg) : i \in 1..Len(p)
    BY <1>1, <1>2, <2>1
  <2>6. Good(n)  BY <2>1, <2>2, <2>3, <2>4, <2>5
  <2>7. n \in 0..Len(closers)  BY <1>2
  <2> HIDE DEF Good
  <2> QED  BY <2>6, <2>7
<1>5. \A n \in 0..Len(closers) : n \in G
  <2> HIDE DEF G
  <2> QED  BY <1>2, <1>3, <1>4, UpTo
<1>6. \A n \in 0..Len(closers) : Good(n)
  <2> HIDE DEF Good
  <2> QED  BY <1>5
<1> QED  BY <1>6 DEF closers

-----------------------------------------------------------------------------
(* The invariant.                                                          *)

RecoveryTyped ==
  /\ stored \in 0..Len(log)
  /\ agent \in [at : {"off", "idle", "turn", "step", "streaming", "calls"},
                turn : 0..MaxTurns, step : 0..MaxSteps, aborted : BOOLEAN]
  /\ call \in [Calls -> {"none", "asked", "recorded", "running", "settled", "answered"}]
  /\ barrier \in [Calls -> 0..Len(log)]
  /\ ran \subseteq Calls
  /\ crashes \in 0..MaxCrashes

\* The turn and the step that are open are the agent's, the calls that are open
\* are those the scheduler has not answered, and a barrier is the place of its call.
AgentMatchesLog ==
  LET o == Scanned(log).open
      t == Scanned(log).trace
  IN /\ agent.at = "off" => stored = Len(log)
     /\ agent.at = "idle" => o = NothingOpen /\ agent.turn = LastTurnAt(log, Len(log))
     /\ agent.at \notin {"off", "idle"} => o.turn = agent.turn /\ agent.turn # None
     /\ agent.at = "turn" => o.step = None /\ t.nextStep = agent.step + 1
     /\ agent.at \in {"step", "streaming", "calls"} =>
          o.step = agent.step /\ agent.step # None /\ t.nextStep = agent.step
     /\ agent.at \in {"step", "streaming"} => o.pending = {} /\ o.called = {}
     /\ agent.at = "streaming" => stored = Len(log)
     /\ agent.at # "calls" => call = NoCalls
     /\ agent.at = "calls" =>
          /\ o.pending = {c \in Calls : call[c] \notin {"none", "answered"}}
          /\ o.pending \cap o.called = Started
     /\ \A c \in Calls : call[c] = "recorded" => barrier[c] \in Records(log, Len(log), c)

RecoveryInv ==
  /\ LogInv(log) /\ RecoveryTyped /\ AgentMatchesLog
  /\ EffectsAreRecorded /\ AnsweredRequestsAreDurable

\* The turn of a log is one of the session's.
LEMMA LastTurnInRange ==
  ASSUME NEW lg \in Seq(LogEvent)
  PROVE  LastTurnAt(lg, Len(lg)) \in 0..MaxTurns
<1> DEFINE starts == {i \in 1..Len(lg) : lg[i].type = "turn/start"}
           last == CHOOSE i \in starts : \A j \in starts : j <= i
<1>1. Len(lg) \in Nat /\ 0 \in 0..MaxTurns  BY BoundsAreNaturals
<1>2. \A i \in 1..Len(lg) : lg[i].turn \in 0..MaxTurns
  <2>1. \A i \in 1..Len(lg) : lg[i] \in LogEvent  OBVIOUS
  <2> QED  BY <2>1 DEF LogEvent
<1>3. starts # {} => last \in 1..Len(lg)
  <2>1. starts \in SUBSET (0..Len(lg)) /\ starts \in SUBSET (1..Len(lg))  BY <1>1
  <2>2. starts # {} => \E i \in starts : \A j \in starts : j <= i
    <3> HIDE DEF starts
    <3> QED  BY <1>1, <2>1, Greatest
  <2> HIDE DEF starts
  <2> QED  BY <2>1, <2>2
<1>4. LastTurnAt(lg, Len(lg)) = IF starts = {} THEN 0 ELSE lg[last].turn
  BY DEF LastTurnAt
<1> HIDE DEF starts, last
<1> QED  BY <1>1, <1>2, <1>3, <1>4

\* The first of some calls is one of them.
LEMMA FirstIs ==
  ASSUME NEW set \in SUBSET Calls, set # {}
  PROVE  FirstOf(set) \in set
<1>1. set \in SUBSET Nat  BY BoundsAreNaturals DEF Calls
<1>2. \E c \in set : \A d \in set : c <= d  BY <1>1, Least
<1> QED  BY <1>2 DEF FirstOf

\* A longer log knows of everything a shorter one knew of.
LEMMA LongerKnows ==
  ASSUME RecoveryInv, LogInv(log'), Len(log) <= Len(log'),
         \A i \in 1..Len(log) : log'[i] = log[i],
         ran' = ran, stored' \in Nat, stored <= stored'
  PROVE  /\ EffectsAreRecorded'
         /\ \A c \in Calls : Records(log, Len(log), c) \subseteq Records(log', Len(log'), c)
         /\ \A i \in 1..Len(log) : log'[i].type = "assistant/message" => stored' >= i - 1
         /\ \A k \in 0..Len(log) : k \in 0..Len(log')
<1>1. Len(log) \in Nat /\ Len(log') \in Nat /\ DOMAIN log = 1..Len(log)
  BY ScannedIs DEF RecoveryInv, LogInv
<1>2. stored \in 0..Len(log) /\ EffectsAreRecorded /\ AnsweredRequestsAreDurable
  BY DEF RecoveryInv, RecoveryTyped
<1>3. \A i \in 1..stored : i \in 1..Len(log) /\ i \in 1..stored'  BY <1>1, <1>2
<1>4. EffectsAreRecorded'
  <2>1. ASSUME NEW c \in ran
        PROVE  \E i \in 1..stored' : log'[i].type = "tool/call" /\ log'[i].calls = {c}
    <3>1. PICK i \in 1..stored : log[i].type = "tool/call" /\ log[i].calls = {c}
      BY <1>2 DEF EffectsAreRecorded
    <3> QED  BY <1>3, <3>1
  <2> QED  BY <2>1 DEF EffectsAreRecorded
<1>5. ASSUME NEW c \in Calls
      PROVE  Records(log, Len(log), c) \subseteq Records(log', Len(log'), c)
  <2>1. \A i \in 1..Len(log) : i \in 1..Len(log')  BY <1>1
  <2> QED  BY <2>1 DEF Records, EventsOf
<1>6. ASSUME NEW i \in 1..Len(log), log'[i].type = "assistant/message"
      PROVE  stored' >= i - 1
  <2>1. stored >= i - 1  BY <1>1, <1>2, <1>6 DEF AnsweredRequestsAreDurable
  <2> QED  BY <1>1, <1>2, <2>1
<1> QED  BY <1>1, <1>4, <1>5, <1>6

\* What the agent appends is an event of the session.
LEMMA AppendedIs ==
  ASSUME RecoveryInv, NEW type \in EventTypes, NEW calls \in SUBSET Calls,
         NEW code \in {"none", "ok"},
         type \in {"tool/call", "tool/result"} => \E c \in Calls : calls = {c},
         type \notin {"tool/call", "tool/result", "assistant/message"} => calls = {}
  PROVE  LET e == Event(type, agent.turn, agent.step, calls, code) IN
         /\ e \in LogEvent /\ Appended(type, calls, code) = Append(log, e)
         /\ e.type = type /\ e.turn = agent.turn /\ e.step = agent.step
         /\ e.calls = calls /\ e.code = code
<1>1. agent.turn \in 0..MaxTurns /\ agent.step \in 0..MaxSteps
  BY DEF RecoveryInv, RecoveryTyped
<1> QED  BY <1>1 DEF Event, LogEvent, Appended

-----------------------------------------------------------------------------
(* The steps that append nothing.                                          *)

\* Nothing is open and nothing is stored at the start.
LEMMA StartIsRecoverable ==
  ASSUME RecoveryInit
  PROVE  RecoveryInv
<1>1. /\ log = <<>> /\ stored = 0 /\ agent = Ready(0)
      /\ call = NoCalls /\ barrier = NoBarriers /\ ran = {} /\ crashes = 0
  BY DEF RecoveryInit
<1>2. log \in Seq(LogEvent) /\ Len(log) = 0 /\ DOMAIN log = {}
  BY <1>1, EmptySeq
<1>3. LogInv(log)
  <2>1. \A n \in 0..Len(log) : n = 0  BY <1>2
  <2> QED  BY <1>2, <2>1, ConsistentAtStart DEF LogInv
<1>4. RecoveryTyped
  <2>1. Ready(0) = [at |-> "idle", turn |-> 0, step |-> 0, aborted |-> FALSE]
    BY DEF Ready, None
  <2>2. 0 \in 0..MaxTurns /\ 0 \in 0..MaxSteps /\ 0 \in 0..MaxCrashes  BY BoundsAreNaturals
  <2>3. agent \in [at : {"off", "idle", "turn", "step", "streaming", "calls"},
                   turn : 0..MaxTurns, step : 0..MaxSteps, aborted : BOOLEAN]
    <3>1. agent = [at |-> "idle", turn |-> 0, step |-> 0, aborted |-> FALSE]
      BY <1>1, <2>1
    <3>2. FALSE \in BOOLEAN /\ "idle" \in {"off", "idle", "turn", "step", "streaming", "calls"}
      OBVIOUS
    <3> QED  BY <2>2, <3>1, <3>2
  <2>4. call \in [Calls -> {"none", "asked", "recorded", "running", "settled", "answered"}]
    BY <1>1 DEF NoCalls
  <2>5. barrier \in [Calls -> 0..Len(log)]  BY <1>1, <1>2 DEF NoBarriers
  <2> QED  BY <1>1, <1>2, <2>2, <2>3, <2>4, <2>5 DEF RecoveryTyped
<1>5. AgentMatchesLog
  <2>1. Scanned(log) = Unscanned  BY <1>2, ScanRuns DEF Scanned
  <2>2. Scanned(log).open = NothingOpen  BY <2>1, UnscannedIs
  <2>3. LastTurnAt(log, Len(log)) = 0  BY <1>2, LastTurnGrows
  <2>4. agent.at = "idle" /\ agent.turn = 0  BY <1>1 DEF Ready
  <2>5. \A c \in Calls : call[c] # "recorded"  BY <1>1 DEF NoCalls
  <2> QED  BY <1>1, <2>2, <2>3, <2>4, <2>5 DEF AgentMatchesLog
<1>6. EffectsAreRecorded  BY <1>1 DEF EffectsAreRecorded
<1>7. AnsweredRequestsAreDurable  BY <1>2 DEF AnsweredRequestsAreDurable
<1> QED  BY <1>3, <1>4, <1>5, <1>6, <1>7 DEF RecoveryInv

\* While nothing changes.
LEMMA StutterRecovers ==
  ASSUME RecoveryInv, UNCHANGED recoveryVars
  PROVE  RecoveryInv'
<1>1. /\ log' = log /\ stored' = stored /\ agent' = agent /\ call' = call
      /\ barrier' = barrier /\ ran' = ran /\ crashes' = crashes
  BY DEF recoveryVars
<1>2. RecoveryTyped'  BY <1>1 DEF RecoveryInv, RecoveryTyped
<1>3. AgentMatchesLog'
  <2>1. Started' = Started  BY <1>1 DEF Started, In
  <2> QED  BY <1>1, <2>1 DEF RecoveryInv, AgentMatchesLog
<1>4. EffectsAreRecorded' /\ AnsweredRequestsAreDurable'
  BY <1>1 DEF RecoveryInv, EffectsAreRecorded, AnsweredRequestsAreDurable
<1> QED  BY <1>1, <1>2, <1>3, <1>4 DEF RecoveryInv

\* A request waits for its prefix; an abort changes nothing but a flag.
LEMMA RequestRecovers ==
  ASSUME RecoveryInv, Request \/ Abort
  PROVE  RecoveryInv'
<1>1. /\ log' = log /\ stored' = stored /\ call' = call
      /\ barrier' = barrier /\ ran' = ran /\ crashes' = crashes
  BY DEF Request, Abort
<1>2. RecoveryTyped  BY DEF RecoveryInv
<1>3. agent'.turn = agent.turn /\ agent'.step = agent.step
      /\ agent' \in [at : {"off", "idle", "turn", "step", "streaming", "calls"},
                     turn : 0..MaxTurns, step : 0..MaxSteps, aborted : BOOLEAN]
  BY <1>2 DEF RecoveryTyped, Request, Abort
<1>4. \/ agent.at = "step" /\ agent'.at = "streaming" /\ stored = Len(log)
      \/ agent'.at = agent.at /\ agent.at \notin {"off", "idle"}
  BY <1>2 DEF RecoveryTyped, Request, Abort, PrefixIsDurable
<1>5. RecoveryTyped'  BY <1>1, <1>2, <1>3 DEF RecoveryTyped
<1>6. Started' = Started  BY <1>1 DEF Started, In
<1>7. AgentMatchesLog  BY DEF RecoveryInv
<1>8. AgentMatchesLog'  BY <1>1, <1>3, <1>4, <1>6, <1>7 DEF AgentMatchesLog
<1>9. EffectsAreRecorded' /\ AnsweredRequestsAreDurable'
  BY <1>1 DEF RecoveryInv, EffectsAreRecorded, AnsweredRequestsAreDurable
<1> QED  BY <1>1, <1>5, <1>8, <1>9 DEF RecoveryInv

\* A body runs behind its checkpoint, so that its record is durable; a call that
\* is withheld or settled stays a started one.
LEMMA CallRecovers ==
  ASSUME RecoveryInv, NEW c \in Calls, RunBody(c) \/ Withhold(c) \/ SettleCall(c)
  PROVE  RecoveryInv'
<1>1. /\ log' = log /\ stored' = stored /\ agent' = agent
      /\ barrier' = barrier /\ crashes' = crashes
  BY DEF RunBody, Withhold, SettleCall
<1>2. RecoveryTyped /\ AgentMatchesLog  BY DEF RecoveryInv
<1>3. /\ call \in [Calls -> {"none", "asked", "recorded", "running", "settled", "answered"}]
      /\ stored \in 0..Len(log) /\ barrier \in [Calls -> 0..Len(log)]
  BY <1>2 DEF RecoveryTyped
<1>4. /\ call[c] \in {"recorded", "running"}
      /\ call' \in [Calls -> {"none", "asked", "recorded", "running", "settled", "answered"}]
      /\ call'[c] \in {"running", "settled"}
      /\ \A d \in Calls \ {c} : call'[d] = call[d]
  BY <1>3 DEF RunBody, Withhold, SettleCall
<1>5. \/ ran' = ran
      \/ /\ ran' = ran \cup {c} /\ call[c] = "recorded" /\ stored >= barrier[c]
  BY DEF RunBody, Withhold, SettleCall, Checkpointed
<1>6. agent.at = "calls"
  <2>1. call # NoCalls  BY <1>4 DEF NoCalls
  <2> QED  BY <1>2, <2>1 DEF AgentMatchesLog
<1>7. Started' = Started
  BY <1>4 DEF Started, In
<1>8. {d \in Calls : call'[d] \notin {"none", "answered"}}
        = {d \in Calls : call[d] \notin {"none", "answered"}}
  BY <1>4
<1>9. RecoveryTyped'  BY <1>1, <1>2, <1>4, <1>5 DEF RecoveryTyped
<1>10. AgentMatchesLog'
  BY <1>1, <1>2, <1>4, <1>6, <1>7, <1>8 DEF AgentMatchesLog
<1>11. EffectsAreRecorded'
  <2>1. EffectsAreRecorded  BY DEF RecoveryInv
  <2>2. CASE ran' = ran  BY <1>1, <2>1, <2>2 DEF EffectsAreRecorded
  <2>3. CASE ran' = ran \cup {c} /\ call[c] = "recorded" /\ stored >= barrier[c]
    <3>1. barrier[c] \in Records(log, Len(log), c)  BY <1>2, <2>3 DEF AgentMatchesLog
    <3>2. /\ barrier[c] \in 1..Len(log) /\ log[barrier[c]].type = "tool/call"
          /\ c \in log[barrier[c]].calls
      BY <3>1 DEF Records, EventsOf
    <3>3. log[barrier[c]] \in LogEvent  BY <3>2 DEF RecoveryInv, LogInv
    <3>4. log[barrier[c]].calls = {c}  BY <3>2, <3>3 DEF LogEvent
    <3>5. barrier[c] \in 1..stored  BY <1>3, <2>3, <3>2
    <3> QED  BY <1>1, <2>1, <2>3, <3>2, <3>4, <3>5 DEF EffectsAreRecorded
  <2> QED  BY <1>5, <2>2, <2>3
<1>12. AnsweredRequestsAreDurable'
  BY <1>1 DEF RecoveryInv, AnsweredRequestsAreDurable
<1> QED  BY <1>1, <1>9, <1>10, <1>11, <1>12 DEF RecoveryInv

\* More of the log becomes durable.
LEMMA StoreRecovers ==
  ASSUME RecoveryInv, Store
  PROVE  RecoveryInv'
<1>1. /\ agent.at # "off" /\ stored' \in stored + 1 .. Len(log)
      /\ log' = log /\ agent' = agent /\ call' = call
      /\ barrier' = barrier /\ ran' = ran /\ crashes' = crashes
  BY DEF Store
<1>2. RecoveryTyped /\ AgentMatchesLog /\ LogInv(log)  BY DEF RecoveryInv
<1>3. stored \in 0..Len(log) /\ Len(log) \in Nat  BY <1>2, ScannedIs DEF RecoveryTyped
<1>4. stored' \in 0..Len(log) /\ stored' \in Nat /\ stored < stored' /\ stored # Len(log)
  BY <1>1, <1>3
<1>5. RecoveryTyped'  BY <1>1, <1>2, <1>4 DEF RecoveryTyped
<1>6. Started' = Started  BY <1>1 DEF Started, In
<1>7. AgentMatchesLog'  BY <1>1, <1>2, <1>4, <1>6 DEF AgentMatchesLog
<1>8. EffectsAreRecorded'
  <2>1. \A i \in 1..stored : i \in 1..stored'  BY <1>3, <1>4
  <2> QED  BY <1>1, <2>1 DEF RecoveryInv, EffectsAreRecorded
<1>9. AnsweredRequestsAreDurable'
  <2>1. ASSUME NEW i \in DOMAIN log, stored >= i - 1 PROVE stored' >= i - 1
    <3>1. i \in 1..Len(log)  BY <1>2, ScannedIs
    <3> QED  BY <1>3, <1>4, <2>1, <3>1
  <2> QED  BY <1>1, <2>1 DEF RecoveryInv, AnsweredRequestsAreDurable
<1> QED  BY <1>1, <1>2, <1>5, <1>7, <1>8, <1>9 DEF RecoveryInv

\* A log that needs no repair has nothing open.
LEMMA ResumeRecovers ==
  ASSUME RecoveryInv, Resume
  PROVE  RecoveryInv'
<1>1. /\ agent.at = "off" /\ ~NeedsRepair(log)
      /\ agent' = Ready(LastTurn(log))
      /\ log' = log /\ stored' = stored /\ call' = call
      /\ barrier' = barrier /\ ran' = ran /\ crashes' = crashes
  BY DEF Resume
<1>2. RecoveryTyped /\ AgentMatchesLog /\ LogInv(log)  BY DEF RecoveryInv
<1>3. LastTurn(log) = LastTurnAt(log, Len(log)) /\ LastTurn(log) \in 0..MaxTurns
  BY <1>2, ScannedIs, LastTurnIs, LastTurnInRange
<1>4. /\ agent'.at = "idle" /\ agent'.turn = LastTurn(log)
      /\ agent' \in [at : {"off", "idle", "turn", "step", "streaming", "calls"},
                     turn : 0..MaxTurns, step : 0..MaxSteps, aborted : BOOLEAN]
  BY <1>1, <1>3, BoundsAreNaturals DEF Ready, None
<1>5. Scanned(log).open = NothingOpen
  <2>1. Scanned(log).open.turn = None
    BY <1>1, <1>2, ScannedIs, ClosersAre DEF NeedsRepair
  <2> QED  BY <1>2, <2>1, ScannedIs
<1>6. RecoveryTyped'  BY <1>1, <1>2, <1>4 DEF RecoveryTyped
<1>7. call = NoCalls  BY <1>1, <1>2 DEF AgentMatchesLog
<1>8. \A c \in Calls : call[c] # "recorded"  BY <1>7 DEF NoCalls
<1>9. AgentMatchesLog'
  BY <1>1, <1>3, <1>4, <1>5, <1>7, <1>8 DEF AgentMatchesLog
<1>10. EffectsAreRecorded' /\ AnsweredRequestsAreDurable'
  BY <1>1 DEF RecoveryInv, EffectsAreRecorded, AnsweredRequestsAreDurable
<1> QED  BY <1>1, <1>2, <1>6, <1>9, <1>10 DEF RecoveryInv

-----------------------------------------------------------------------------
(* The steps that append.                                                  *)

\* An appended event that is no answer keeps what answers and effects need.
LEMMA AppendKeeps ==
  ASSUME RecoveryInv, LogInv(log'), NEW e, log' = Append(log, e),
         e.type # "assistant/message" \/ stored = Len(log),
         stored' = stored, ran' = ran
  PROVE  /\ EffectsAreRecorded' /\ AnsweredRequestsAreDurable'
         /\ \A c \in Calls : Records(log, Len(log), c) \subseteq Records(log', Len(log'), c)
         /\ Len(log') = Len(log) + 1 /\ log'[Len(log) + 1] = e
         /\ \A k \in 0..Len(log) : k \in 0..Len(log')
<1>1. /\ LogInv(log) /\ log \in Seq(LogEvent) /\ Len(log) \in Nat /\ DOMAIN log' = 1..Len(log')
  BY ScannedIs DEF RecoveryInv
<1>2. /\ Len(log') = Len(log) + 1 /\ log'[Len(log) + 1] = e
      /\ \A i \in 1..Len(log) : log'[i] = log[i]
  BY <1>1
<1>3. stored \in 0..Len(log)  BY DEF RecoveryInv, RecoveryTyped
<1>4. Len(log) <= Len(log') /\ stored' \in Nat /\ stored <= stored'
  BY <1>1, <1>2, <1>3
<1>5. /\ EffectsAreRecorded'
      /\ \A c \in Calls : Records(log, Len(log), c) \subseteq Records(log', Len(log'), c)
      /\ \A i \in 1..Len(log) : log'[i].type = "assistant/message" => stored' >= i - 1
      /\ \A k \in 0..Len(log) : k \in 0..Len(log')
  BY <1>2, <1>4, LongerKnows
<1>6. AnsweredRequestsAreDurable'
  <2>1. ASSUME NEW i \in 1..Len(log'), log'[i].type = "assistant/message"
        PROVE  stored' >= i - 1
    <3>1. i \in 1..Len(log) \/ i = Len(log) + 1  BY <1>1, <1>2
    <3>2. CASE i = Len(log) + 1
      <4>1. stored' = Len(log)  BY <1>2, <2>1, <3>2
      <4> QED  BY <1>1, <3>2, <4>1
    <3> QED  BY <1>5, <2>1, <3>1, <3>2
  <2> QED  BY <1>1, <2>1 DEF AnsweredRequestsAreDurable
<1> QED  BY <1>2, <1>5, <1>6

\* A turn follows the last one.
LEMMA BeginTurnRecovers ==
  ASSUME RecoveryInv, BeginTurn
  PROVE  RecoveryInv'
<1> DEFINE e == Boundary("turn/start", agent.turn + 1, None)
<1>1. /\ agent.at = "idle" /\ agent.turn < MaxTurns
      /\ agent' = [Ready(agent.turn + 1) EXCEPT !.at = "turn"]
      /\ log' = Append(log, e)
      /\ stored' = stored /\ call' = call /\ barrier' = barrier
      /\ ran' = ran /\ crashes' = crashes
  BY DEF BeginTurn
<1>2. RecoveryTyped /\ AgentMatchesLog /\ LogInv(log)  BY DEF RecoveryInv
<1>3. agent.turn + 1 \in 0..MaxTurns /\ agent.turn + 1 # None /\ None \in 0..MaxSteps
      /\ agent.turn \in Nat
  BY <1>1, <1>2, BoundsAreNaturals DEF RecoveryTyped, None
<1>4. e \in LogEvent /\ e.type = "turn/start" /\ e.turn = agent.turn + 1
  BY <1>3 DEF Boundary, Event, LogEvent, EventTypes
<1> HIDE DEF e
<1>5. /\ Scanned(log).open = NothingOpen /\ agent.turn = LastTurnAt(log, Len(log))
      /\ call = NoCalls
  BY <1>1, <1>2 DEF AgentMatchesLog
<1>6. /\ Scanned(log) \in ScanState /\ Scan(log)[Len(log)] = Scanned(log)
      /\ Scanned(log).trace.nextTurn = agent.turn + 1
      /\ Scanned(log).open.turn = None
  <2>1. NothingOpen.turn = None  BY DEF NothingOpen
  <2> QED  BY <1>2, <1>5, <2>1, ScannedIs DEF Consistent
<1>7. Fits(log, Len(log), e)  BY <1>3, <1>4, <1>6 DEF Fits
<1>8. LogInv(log') /\ Scanned(log') = ScanEvent(Scanned(log), e)
  BY <1>1, <1>2, <1>4, <1>7, LogGrows
<1>9. /\ Scanned(log').open = [NothingOpen EXCEPT !.turn = e.turn]
      /\ Scanned(log').trace.nextStep = 1
  BY <1>4, <1>6, <1>8, TurnStartReads
<1>10. Scanned(log').open.turn = agent.turn + 1 /\ Scanned(log').open.step = None
  BY <1>4, <1>9 DEF NothingOpen
<1>11. /\ EffectsAreRecorded' /\ AnsweredRequestsAreDurable'
       /\ \A k \in 0..Len(log) : k \in 0..Len(log')
  BY <1>1, <1>4, <1>8, AppendKeeps
<1>12. /\ agent'.at = "turn" /\ agent'.turn = agent.turn + 1 /\ agent'.step = 0
       /\ agent' \in [at : {"off", "idle", "turn", "step", "streaming", "calls"},
                      turn : 0..MaxTurns, step : 0..MaxSteps, aborted : BOOLEAN]
  BY <1>1, <1>3 DEF Ready, None
<1>13. RecoveryTyped'
  BY <1>1, <1>2, <1>11, <1>12 DEF RecoveryTyped
<1>14. \A c \in Calls : call'[c] # "recorded"  BY <1>1, <1>5 DEF NoCalls
<1>15. AgentMatchesLog'
  BY <1>1, <1>3, <1>5, <1>9, <1>10, <1>12, <1>14 DEF AgentMatchesLog
<1> QED  BY <1>8, <1>11, <1>13, <1>15 DEF RecoveryInv

\* The end of a turn closes it.
LEMMA EndTurnRecovers ==
  ASSUME RecoveryInv, EndTurn
  PROVE  RecoveryInv'
<1> DEFINE e == Boundary("turn/end", agent.turn, None)
<1>1. /\ agent.at = "turn" /\ agent' = Ready(agent.turn) /\ log' = Append(log, e)
      /\ stored' = stored /\ call' = call /\ barrier' = barrier
      /\ ran' = ran /\ crashes' = crashes
  BY DEF EndTurn
<1>2. RecoveryTyped /\ AgentMatchesLog /\ LogInv(log)  BY DEF RecoveryInv
<1>3. agent.turn \in 0..MaxTurns /\ None \in 0..MaxSteps
  BY <1>1, <1>2, BoundsAreNaturals DEF RecoveryTyped, None
<1>4. e \in LogEvent /\ e.type = "turn/end" /\ e.turn = agent.turn
  BY <1>3 DEF Boundary, Event, LogEvent, EventTypes
<1> HIDE DEF e
<1>5. /\ Scanned(log).open.turn = agent.turn /\ agent.turn # None
      /\ Scanned(log).open.step = None /\ call = NoCalls
  BY <1>1, <1>2 DEF AgentMatchesLog
<1>6. /\ Scanned(log) \in ScanState /\ Scan(log)[Len(log)] = Scanned(log)
      /\ LastTurnAt(log, Len(log)) = agent.turn
  BY <1>2, <1>5, ScannedIs DEF Consistent
<1>7. Fits(log, Len(log), e)  BY <1>4, <1>5, <1>6 DEF Fits
<1>8. LogInv(log') /\ Scanned(log') = ScanEvent(Scanned(log), e)
  BY <1>1, <1>2, <1>4, <1>7, LogGrows
<1>9. Scanned(log').open = NothingOpen
  BY <1>4, <1>6, <1>8, TurnEndReads
<1>10. /\ EffectsAreRecorded' /\ AnsweredRequestsAreDurable'
       /\ \A k \in 0..Len(log) : k \in 0..Len(log')
       /\ Len(log') = Len(log) + 1 /\ log'[Len(log) + 1] = e
  BY <1>1, <1>4, <1>8, AppendKeeps
<1>11. LastTurnAt(log', Len(log')) = agent.turn
  <2>1. Len(log) \in Nat /\ log \in Seq(LogEvent) /\ log' \in Seq(LogEvent)
    BY <1>2, <1>8, ScannedIs
  <2>2. LastTurnAt(log', Len(log) + 1) = LastTurnAt(log', Len(log))
    BY <1>4, <1>10, <2>1, LastTurnGrows
  <2>3. Agree(log, log', Len(log))
    BY <1>1, <1>2, <1>4, <1>7, <2>1, LogGrows
  <2> QED  BY <1>6, <1>10, <2>2, <2>3, SaidOfPrefix
<1>12. /\ agent'.at = "idle" /\ agent'.turn = agent.turn
       /\ agent' \in [at : {"off", "idle", "turn", "step", "streaming", "calls"},
                      turn : 0..MaxTurns, step : 0..MaxSteps, aborted : BOOLEAN]
  BY <1>1, <1>3 DEF Ready, None
<1>13. RecoveryTyped'
  BY <1>1, <1>2, <1>10, <1>12 DEF RecoveryTyped
<1>14. \A c \in Calls : call'[c] # "recorded"  BY <1>1, <1>5 DEF NoCalls
<1>15. AgentMatchesLog'
  BY <1>1, <1>5, <1>9, <1>11, <1>12, <1>14 DEF AgentMatchesLog
<1> QED  BY <1>8, <1>10, <1>13, <1>15 DEF RecoveryInv

\* A step ends once its calls are answered, or its scheduler has failed.
LEMMA EndStepRecovers ==
  ASSUME RecoveryInv, EndStep
  PROVE  RecoveryInv'
<1> DEFINE e == Event("step/end", agent.turn, agent.step, {}, "none")
<1>1. /\ agent' = [agent EXCEPT !.at = "turn"]
      /\ call' = NoCalls /\ barrier' = NoBarriers
      /\ stored' = stored /\ ran' = ran /\ crashes' = crashes
      /\ log' = Appended("step/end", {}, "none") /\ StepMayEnd
  BY DEF EndStep
<1>2. RecoveryTyped /\ AgentMatchesLog /\ LogInv(log)  BY DEF RecoveryInv
<1>3. /\ e \in LogEvent /\ log' = Append(log, e) /\ e.type = "step/end"
      /\ e.turn = agent.turn /\ e.step = agent.step
  BY <1>1, AppendedIs DEF EventTypes
<1> HIDE DEF e
<1>4. /\ agent.at \in {"step", "streaming", "calls"}
      /\ Scanned(log).open.turn = agent.turn /\ agent.turn # None
      /\ Scanned(log).open.step = agent.step /\ agent.step # None
      /\ Scanned(log).trace.nextStep = agent.step
      /\ Scanned(log).open.pending = {} \/ "scheduler-failure" \in Admitted
  <2>1. agent.at \in {"step", "streaming", "calls"}  BY <1>1 DEF StepMayEnd
  <2>2. CASE agent.at \in {"step", "streaming"}
    BY <1>2, <2>2 DEF AgentMatchesLog
  <2>3. CASE agent.at = "calls" /\ Started \cup In("asked") = {}
    <3>1. \A c \in Calls : call[c] \in {"none", "answered"}
      BY <1>2, <2>3 DEF Started, In, RecoveryTyped
    <3>2. Scanned(log).open.pending = {}  BY <1>2, <2>3, <3>1 DEF AgentMatchesLog
    <3> QED  BY <1>2, <2>3, <3>2 DEF AgentMatchesLog
  <2>4. CASE agent.at = "calls" /\ "scheduler-failure" \in Admitted
    BY <1>2, <2>4 DEF AgentMatchesLog
  <2> QED  BY <1>1, <2>2, <2>3, <2>4 DEF StepMayEnd
<1>5. Scanned(log) \in ScanState /\ Scan(log)[Len(log)] = Scanned(log)
  BY <1>2, ScannedIs
<1>6. Fits(log, Len(log), e)  BY <1>3, <1>4, <1>5 DEF Fits, FitsStep
<1>7. LogInv(log') /\ Scanned(log') = ScanEvent(Scanned(log), e)
  BY <1>2, <1>3, <1>6, LogGrows
<1>8. /\ Scanned(log').open = [Scanned(log).open EXCEPT !.step = None, !.pending = {}, !.called = {}]
      /\ Scanned(log').trace.nextStep = agent.step + 1
  <2> DEFINE r == Scanned(log)
  <2>1. r.trace.nextStep = agent.step  BY <1>4
  <2>2. r \in ScanState  BY <1>5
  <2> HIDE DEF r
  <2>3. /\ ScanEvent(r, e).open = [r.open EXCEPT !.step = None, !.pending = {}, !.called = {}]
        /\ ScanEvent(r, e).trace.nextStep = r.trace.nextStep + 1
    BY <1>3, <2>2, StepEndReads
  <2>4. Scanned(log') = ScanEvent(r, e)  BY <1>7 DEF r
  <2> QED  BY <2>1, <2>3, <2>4 DEF r
<1>9. Scanned(log').open.turn = agent.turn /\ Scanned(log').open.step = None
  BY <1>4, <1>5, <1>8 DEF ScanState, OpenState
<1>10. /\ EffectsAreRecorded' /\ AnsweredRequestsAreDurable'
       /\ \A k \in 0..Len(log) : k \in 0..Len(log')
  BY <1>1, <1>3, <1>7, AppendKeeps
<1>11. /\ agent'.at = "turn" /\ agent'.turn = agent.turn /\ agent'.step = agent.step
       /\ agent' \in [at : {"off", "idle", "turn", "step", "streaming", "calls"},
                      turn : 0..MaxTurns, step : 0..MaxSteps, aborted : BOOLEAN]
  BY <1>1, <1>2 DEF RecoveryTyped
<1>12. RecoveryTyped'
  <2>1. 0 \in 0..Len(log')
    BY <1>7, ScannedIs
  <2>2. /\ call' \in [Calls -> {"none", "asked", "recorded", "running", "settled", "answered"}]
        /\ barrier' \in [Calls -> 0..Len(log')]
    BY <1>1, <2>1 DEF NoCalls, NoBarriers
  <2> QED  BY <1>1, <1>2, <1>10, <1>11, <2>2 DEF RecoveryTyped
<1>13. \A c \in Calls : call'[c] # "recorded"  BY <1>1 DEF NoCalls
<1>14. AgentMatchesLog'
  BY <1>1, <1>4, <1>8, <1>9, <1>11, <1>13 DEF AgentMatchesLog
<1> QED  BY <1>7, <1>10, <1>12, <1>14 DEF RecoveryInv

\* Two events appended at once.
LEMMA TwoMore ==
  ASSUME NEW S, NEW s \in Seq(S), NEW a \in S, NEW b \in S
  PROVE  s \o <<a, b>> = Append(Append(s, a), b)
<1> DEFINE t == <<a, b>>
           u == Append(Append(s, a), b)
<1>1. t \in Seq(S) /\ Len(t) = 2 /\ t[1] = a /\ t[2] = b  OBVIOUS
<1>2. /\ Append(s, a) \in Seq(S) /\ Len(Append(s, a)) = Len(s) + 1
      /\ Append(s, a)[Len(s) + 1] = a /\ \A i \in 1..Len(s) : Append(s, a)[i] = s[i]
  BY AppendProperties
<1>3. /\ u \in Seq(S) /\ Len(u) = Len(s) + 2
      /\ u[Len(s) + 2] = b /\ \A i \in 1..(Len(s) + 1) : u[i] = Append(s, a)[i]
  <2>1. /\ u \in Seq(S) /\ Len(u) = Len(Append(s, a)) + 1
        /\ u[Len(Append(s, a)) + 1] = b
        /\ \A i \in 1..Len(Append(s, a)) : u[i] = Append(s, a)[i]
    BY <1>2, AppendProperties
  <2>2. (Len(s) + 1) + 1 = Len(s) + 2  OBVIOUS
  <2> QED  BY <1>2, <2>1, <2>2
<1> HIDE DEF t, u
<1>4. /\ s \o t \in Seq(S) /\ Len(s \o t) = Len(s) + 2
      /\ \A i \in 1..(Len(s) + 2) : (s \o t)[i] = IF i <= Len(s) THEN s[i] ELSE t[i - Len(s)]
  <2>1. /\ s \o t \in Seq(S) /\ Len(s \o t) = Len(s) + Len(t)
        /\ \A i \in 1..(Len(s) + Len(t)) :
             (s \o t)[i] = IF i <= Len(s) THEN s[i] ELSE t[i - Len(s)]
    BY <1>1, ConcatProperties
  <2> QED  BY <1>1, <2>1
<1>5. ASSUME NEW i \in 1..(Len(s) + 2) PROVE (s \o t)[i] = u[i]
  <2>1. Len(s) \in Nat  OBVIOUS
  <2>2. i \in 1..Len(s) \/ i = Len(s) + 1 \/ i = Len(s) + 2  BY <2>1
  <2>3. CASE i \in 1..Len(s)
    <3>1. i <= Len(s) /\ i \in 1..(Len(s) + 1)  BY <2>1, <2>3
    <3> QED  BY <1>2, <1>3, <1>4, <2>3, <3>1
  <2>4. CASE i = Len(s) + 1
    <3>1. ~(i <= Len(s)) /\ i \in 1..(Len(s) + 1) /\ i - Len(s) = 1  BY <2>1, <2>4
    <3> QED  BY <1>1, <1>2, <1>3, <1>4, <2>4, <3>1
  <2>5. CASE i = Len(s) + 2
    <3>1. ~(i <= Len(s)) /\ i - Len(s) = 2  BY <2>1, <2>5
    <3> QED  BY <1>1, <1>3, <1>4, <2>5, <3>1
  <2> QED  BY <2>2, <2>3, <2>4, <2>5
<1>6. s \o t = u  BY <1>3, <1>4, <1>5, SeqEqual
<1> QED  BY <1>6 DEF t, u

\* So do two appended events, neither of them an answer.
LEMMA TwoAppendsKeep ==
  ASSUME RecoveryInv, NEW a \in LogEvent, NEW b \in LogEvent,
         Fits(log, Len(log), a), Fits(Append(log, a), Len(Append(log, a)), b),
         log' = Append(Append(log, a), b),
         a.type # "assistant/message", b.type # "assistant/message",
         stored' = stored, ran' = ran
  PROVE  /\ LogInv(log')
         /\ Scanned(log') = ScanEvent(ScanEvent(Scanned(log), a), b)
         /\ EffectsAreRecorded' /\ AnsweredRequestsAreDurable'
         /\ \A c \in Calls : Records(log, Len(log), c) \subseteq Records(log', Len(log'), c)
         /\ \A k \in 0..Len(log) : k \in 0..Len(log')
<1> DEFINE mid == Append(log, a)
<1>1. LogInv(log) /\ log \in Seq(LogEvent) /\ Len(log) \in Nat
  BY ScannedIs DEF RecoveryInv
<1>2. /\ LogInv(mid) /\ Len(mid) = Len(log) + 1 /\ mid[Len(log) + 1] = a
      /\ \A i \in 1..Len(log) : mid[i] = log[i]
      /\ Scanned(mid) = ScanEvent(Scanned(log), a)
  BY <1>1, LogGrows
<1>3. Fits(mid, Len(mid), b) /\ log' = Append(mid, b)  OBVIOUS
<1> HIDE DEF mid
<1>4. /\ LogInv(log') /\ Len(log') = Len(mid) + 1 /\ log'[Len(mid) + 1] = b
      /\ \A i \in 1..Len(mid) : log'[i] = mid[i]
      /\ Scanned(log') = ScanEvent(Scanned(mid), b)
  BY <1>2, <1>3, LogGrows
<1>5. /\ Len(log') = Len(log) + 2 /\ Len(log) <= Len(log')
      /\ log'[Len(log) + 1] = a /\ log'[Len(log) + 2] = b
      /\ \A i \in 1..Len(log) : log'[i] = log[i]
  <2>1. Len(mid) + 1 = Len(log) + 2  BY <1>1, <1>2
  <2>2. Len(log) + 1 \in 1..Len(mid) /\ \A i \in 1..Len(log) : i \in 1..Len(mid)
    BY <1>1, <1>2
  <2> QED  BY <1>1, <1>2, <1>4, <2>1, <2>2
<1>6. stored \in 0..Len(log)  BY DEF RecoveryInv, RecoveryTyped
<1>7. stored' \in Nat /\ stored <= stored'  BY <1>1, <1>6
<1>8. /\ EffectsAreRecorded'
      /\ \A c \in Calls : Records(log, Len(log), c) \subseteq Records(log', Len(log'), c)
      /\ \A i \in 1..Len(log) : log'[i].type = "assistant/message" => stored' >= i - 1
      /\ \A k \in 0..Len(log) : k \in 0..Len(log')
  BY <1>4, <1>5, <1>7, LongerKnows
<1>9. AnsweredRequestsAreDurable'
  <2>1. DOMAIN log' = 1..Len(log')  BY <1>4, ScannedIs
  <2>2. ASSUME NEW i \in 1..Len(log'), log'[i].type = "assistant/message"
        PROVE  stored' >= i - 1
    <3>1. i \in 1..Len(log) \/ i = Len(log) + 1 \/ i = Len(log) + 2  BY <1>1, <1>5
    <3> QED  BY <1>5, <1>8, <2>2, <3>1
  <2> QED  BY <2>1, <2>2 DEF AnsweredRequestsAreDurable
<1> QED  BY <1>2, <1>4, <1>8, <1>9

\* A step follows the last one; its messages change nothing that is open.
LEMMA BeginStepRecovers ==
  ASSUME RecoveryInv, BeginStep
  PROVE  RecoveryInv'
<1> DEFINE a == Boundary("step/start", agent.turn, agent.step + 1)
           b == Boundary("user/message", None, None)
           r == Scanned(log)
           mid == Append(log, a)
<1>1. /\ agent.at = "turn" /\ agent.step < MaxSteps
      /\ agent' = [agent EXCEPT !.at = "step", !.step = @ + 1]
      /\ log' = log \o <<a, b>>
      /\ stored' = stored /\ call' = call /\ barrier' = barrier
      /\ ran' = ran /\ crashes' = crashes
  BY DEF BeginStep
<1>2. RecoveryTyped /\ AgentMatchesLog /\ LogInv(log)  BY DEF RecoveryInv
<1>3. /\ agent.step + 1 \in 0..MaxSteps /\ agent.step + 1 # None /\ agent.turn \in 0..MaxTurns
      /\ None \in 0..MaxTurns /\ None \in 0..MaxSteps /\ agent.step \in Nat
  BY <1>1, <1>2, BoundsAreNaturals DEF RecoveryTyped, None
<1>4. /\ a \in LogEvent /\ a.type = "step/start" /\ a.turn = agent.turn /\ a.step = agent.step + 1
      /\ b \in LogEvent /\ b.type = "user/message"
  BY <1>3 DEF Boundary, Event, LogEvent, EventTypes
<1>5. /\ r \in ScanState /\ Scan(log)[Len(log)] = r /\ log \in Seq(LogEvent)
      /\ r.open.step = None => r.open.pending = {} /\ r.open.called = {}
  BY <1>2, ScannedIs
<1> HIDE DEF a, b
<1>6. /\ r.open.turn = agent.turn /\ agent.turn # None /\ r.open.step = None
      /\ r.trace.nextStep = agent.step + 1 /\ call = NoCalls
      /\ r.open.pending = {} /\ r.open.called = {}
  BY <1>1, <1>2, <1>5 DEF AgentMatchesLog
<1>7. log' = Append(mid, b)
  BY <1>1, <1>4, <1>5, TwoMore
<1> HIDE DEF r
<1>8. Fits(log, Len(log), a)  BY <1>4, <1>5, <1>6 DEF Fits
<1>9. Fits(mid, Len(mid), b)  BY <1>4 DEF Fits
<1>10. /\ LogInv(log')
       /\ Scanned(log') = ScanEvent(ScanEvent(r, a), b)
       /\ EffectsAreRecorded' /\ AnsweredRequestsAreDurable'
       /\ \A k \in 0..Len(log) : k \in 0..Len(log')
  BY <1>1, <1>4, <1>7, <1>8, <1>9, TwoAppendsKeep DEF r
<1>11. /\ ScanEvent(r, a) \in ScanState
       /\ ScanEvent(r, a).open = [r.open EXCEPT !.step = a.step]
       /\ ScanEvent(r, a).trace.nextStep = r.trace.nextStep
  BY <1>4, <1>5, StepStartReads
<1>12. Scanned(log') = ScanEvent(r, a)  BY <1>4, <1>10, <1>11, UserMessageReads
<1>13. /\ Scanned(log').open.turn = agent.turn /\ Scanned(log').open.step = agent.step + 1
       /\ Scanned(log').open.pending = {} /\ Scanned(log').open.called = {}
       /\ Scanned(log').trace.nextStep = agent.step + 1
  BY <1>4, <1>5, <1>6, <1>11, <1>12 DEF ScanState, OpenState
<1>14. /\ agent'.at = "step" /\ agent'.turn = agent.turn /\ agent'.step = agent.step + 1
       /\ agent' \in [at : {"off", "idle", "turn", "step", "streaming", "calls"},
                      turn : 0..MaxTurns, step : 0..MaxSteps, aborted : BOOLEAN]
  <2>1. /\ agent \in [at : {"off", "idle", "turn", "step", "streaming", "calls"},
                      turn : 0..MaxTurns, step : 0..MaxSteps, aborted : BOOLEAN]
    BY <1>2 DEF RecoveryTyped
  <2>2. ASSUME NEW next \in 0..MaxSteps
        PROVE  /\ [agent EXCEPT !.at = "step", !.step = next] \in
                    [at : {"off", "idle", "turn", "step", "streaming", "calls"},
                     turn : 0..MaxTurns, step : 0..MaxSteps, aborted : BOOLEAN]
               /\ [agent EXCEPT !.at = "step", !.step = next].at = "step"
               /\ [agent EXCEPT !.at = "step", !.step = next].turn = agent.turn
               /\ [agent EXCEPT !.at = "step", !.step = next].step = next
    BY <2>1
  <2>3. agent' = [agent EXCEPT !.at = "step", !.step = agent.step + 1]  BY <1>1, <2>1
  <2> QED  BY <1>3, <2>2, <2>3
<1>15. RecoveryTyped'  BY <1>1, <1>2, <1>10, <1>14 DEF RecoveryTyped
<1>16. \A c \in Calls : call'[c] # "recorded"  BY <1>1, <1>6 DEF NoCalls
<1>17. AgentMatchesLog'
  BY <1>1, <1>3, <1>6, <1>13, <1>14, <1>16 DEF AgentMatchesLog
<1> QED  BY <1>10, <1>15, <1>17 DEF RecoveryInv

\* The calls asked for so far are the first ones.
LEMMA RequestedIs ==
  ASSUME RecoveryInv
  PROVE  \E m \in 0..MaxCalls :
           /\ Cardinality(Requested) = m
           /\ \A c \in Calls : Asks(log, Len(log), c) # {} <=> c <= m
<1>1. /\ LogInv(log) /\ log \in Seq(LogEvent) /\ Len(log) \in Nat /\ DOMAIN log = 1..Len(log)
      /\ Consistent(log, Len(log))
  BY ScannedIs DEF RecoveryInv
<1>2. PICK m \in 0..MaxCalls : \A c \in Calls : Asks(log, Len(log), c) # {} <=> c <= m
  BY <1>1 DEF Consistent, AskedInOrder
<1>3. Requested \subseteq Calls
  <2>1. \A i \in 1..Len(log) : log[i].calls \subseteq Calls
    <3>1. \A i \in 1..Len(log) : log[i] \in LogEvent  BY <1>1
    <3> QED  BY <3>1 DEF LogEvent
  <2> QED  BY <1>1, <2>1 DEF Requested
<1>4. \A c \in Calls : c \in Requested <=> Asks(log, Len(log), c) # {}
  BY <1>1 DEF Requested, Asks, EventsOf
<1>5. Requested = 1..m
  <2>1. \A c : c \in 1..m <=> c \in Calls /\ c <= m
    BY <1>2, BoundsAreNaturals DEF Calls
  <2> QED  BY <1>2, <1>3, <1>4, <2>1
<1>6. Cardinality(1..m) = m
  <2>1. m \in Nat  BY BoundsAreNaturals
  <2> QED  BY <2>1, FS_Interval
<1> QED  BY <1>2, <1>5, <1>6

\* The answer to a durable request asks for calls that are new.
LEMMA MessageRecovers ==
  ASSUME RecoveryInv, NEW k \in 0..MaxCalls, Message(k)
  PROVE  RecoveryInv'
<1> DEFINE first == Cardinality(Requested) + 1
           asked == first .. first + k - 1
           e == Event("assistant/message", agent.turn, agent.step, asked, "none")
           r == Scanned(log)
<1>1. /\ agent.at = "streaming" /\ asked \subseteq Calls
      /\ agent' = [agent EXCEPT !.at = "calls"]
      /\ call' = [c \in Calls |-> IF c \in asked THEN "asked" ELSE "none"]
      /\ log' = Appended("assistant/message", asked, "none")
      /\ stored' = stored /\ barrier' = barrier /\ ran' = ran /\ crashes' = crashes
  BY DEF Message
<1>2. RecoveryTyped /\ AgentMatchesLog /\ LogInv(log)  BY DEF RecoveryInv
<1>3. PICK m \in 0..MaxCalls :
        /\ Cardinality(Requested) = m
        /\ \A c \in Calls : Asks(log, Len(log), c) # {} <=> c <= m
  BY RequestedIs
<1>4. /\ MaxCalls \in Nat /\ k \in Nat /\ m \in Nat
      /\ \A c : c \in asked <=> c \in Nat /\ m < c /\ c <= m + k
  BY <1>3, BoundsAreNaturals
<1> HIDE DEF first
<1>5. /\ e \in LogEvent /\ log' = Append(log, e) /\ e.type = "assistant/message"
      /\ e.turn = agent.turn /\ e.step = agent.step /\ e.calls = asked
  <2> HIDE DEF asked
  <2>1. asked \in SUBSET Calls /\ "assistant/message" \in EventTypes
    BY <1>1 DEF EventTypes
  <2> QED  BY <1>1, <2>1, AppendedIs
<1> HIDE DEF asked, e
<1>6. /\ r \in ScanState /\ Scan(log)[Len(log)] = r /\ log \in Seq(LogEvent)
  BY <1>2, ScannedIs
<1>7. /\ r.open.turn = agent.turn /\ agent.turn # None
      /\ r.open.step = agent.step /\ agent.step # None /\ r.trace.nextStep = agent.step
      /\ r.open.pending = {} /\ r.open.called = {} /\ stored = Len(log)
  BY <1>1, <1>2 DEF AgentMatchesLog
<1> HIDE DEF r
<1>8. Fits(log, Len(log), e)
  <2>1. \A c \in e.calls : c \in Calls /\ Asks(log, Len(log), c) = {}
    <3>1. ASSUME NEW c \in asked PROVE c \in Calls /\ ~(c <= m)
      BY <1>1, <1>4
    <3> QED  BY <1>3, <1>5, <3>1
  <2>2. \E n \in 0..MaxCalls :
          \A c \in Calls : (Asks(log, Len(log), c) # {} \/ c \in e.calls) <=> c <= n
    <3>1. CASE asked = {}
      BY <1>3, <1>5, <3>1
    <3>2. CASE asked # {}
      <4>1. k > 0 /\ m + k \in asked  BY <1>4, <3>2
      <4>2. m + k \in 0..MaxCalls  BY <1>1, <4>1 DEF Calls
      <4>3. ASSUME NEW c \in Calls PROVE (c <= m \/ c \in asked) <=> c <= m + k
        BY <1>4, <4>1 DEF Calls
      <4> QED  BY <1>3, <1>5, <4>2, <4>3
    <3> QED  BY <3>1, <3>2
  <2> QED  BY <1>5, <1>6, <1>7, <2>1, <2>2 DEF Fits, FitsStep
<1>9. LogInv(log') /\ Scanned(log') = ScanEvent(r, e)
  BY <1>2, <1>5, <1>8, LogGrows DEF r
<1>10. /\ Scanned(log').open = [r.open EXCEPT !.pending = @ \cup e.calls]
       /\ Scanned(log').trace = r.trace
  BY <1>5, <1>6, <1>9, MessageReads
<1>11. /\ Scanned(log').open.turn = agent.turn /\ Scanned(log').open.step = agent.step
       /\ Scanned(log').open.pending = asked /\ Scanned(log').open.called = {}
       /\ Scanned(log').trace.nextStep = agent.step
  BY <1>5, <1>6, <1>7, <1>10 DEF ScanState, OpenState
<1>12. /\ EffectsAreRecorded' /\ AnsweredRequestsAreDurable'
       /\ \A n \in 0..Len(log) : n \in 0..Len(log')
  BY <1>1, <1>5, <1>7, <1>9, AppendKeeps
<1>13. /\ agent'.at = "calls" /\ agent'.turn = agent.turn /\ agent'.step = agent.step
       /\ agent' \in [at : {"off", "idle", "turn", "step", "streaming", "calls"},
                      turn : 0..MaxTurns, step : 0..MaxSteps, aborted : BOOLEAN]
  BY <1>1, <1>2 DEF RecoveryTyped
<1>14. /\ call' \in [Calls -> {"none", "asked", "recorded", "running", "settled", "answered"}]
       /\ \A c \in Calls : call'[c] = "asked" \/ call'[c] = "none"
       /\ asked = {c \in Calls : call'[c] \notin {"none", "answered"}}
  BY <1>1
<1>15. RecoveryTyped'  BY <1>1, <1>2, <1>12, <1>13, <1>14 DEF RecoveryTyped
<1>16. Started' = {}  BY <1>14 DEF Started, In
<1>17. AgentMatchesLog'
  BY <1>7, <1>11, <1>13, <1>14, <1>16 DEF AgentMatchesLog
<1> QED  BY <1>9, <1>12, <1>15, <1>17 DEF RecoveryInv

\* Where the agent is while calls are open.
LEMMA CallsAreOpen ==
  ASSUME RecoveryInv, agent.at = "calls"
  PROVE  /\ Scanned(log) \in ScanState /\ Scan(log)[Len(log)] = Scanned(log)
         /\ LogInv(log) /\ log \in Seq(LogEvent) /\ Len(log) \in Nat
         /\ Scanned(log).open.turn = agent.turn /\ agent.turn # None
         /\ Scanned(log).open.step = agent.step /\ agent.step # None
         /\ Scanned(log).trace.nextStep = agent.step
         /\ Scanned(log).open.pending = {c \in Calls : call[c] \notin {"none", "answered"}}
         /\ Scanned(log).open.pending \cap Scanned(log).open.called = Started
         /\ call \in [Calls -> {"none", "asked", "recorded", "running", "settled", "answered"}]
         /\ barrier \in [Calls -> 0..Len(log)]
         /\ \A c \in Calls : call[c] = "recorded" => barrier[c] \in Records(log, Len(log), c)
BY ScannedIs DEF RecoveryInv, RecoveryTyped, AgentMatchesLog

\* A call is recorded, and its checkpoint is the place of its record.
LEMMA StartCallRecovers ==
  ASSUME RecoveryInv, StartCall
  PROVE  RecoveryInv'
<1> DEFINE c == FirstOf(In("asked"))
           e == Event("tool/call", agent.turn, agent.step, {c}, "none")
           r == Scanned(log)
<1>1. /\ agent.at = "calls" /\ In("asked") # {}
      /\ log' = Appended("tool/call", {c}, "none")
      /\ call' = [call EXCEPT ![c] = "recorded"]
      /\ barrier' = [barrier EXCEPT ![c] = Len(log) + 1]
      /\ stored' = stored /\ agent' = agent /\ ran' = ran /\ crashes' = crashes
  BY DEF StartCall
<1>2. RecoveryTyped /\ AgentMatchesLog  BY DEF RecoveryInv
<1>3. c \in Calls /\ call[c] = "asked"
  <2>1. In("asked") \in SUBSET Calls  BY DEF In
  <2>2. c \in In("asked")  BY <1>1, <2>1, FirstIs
  <2> QED  BY <2>2 DEF In
<1>4. /\ r \in ScanState /\ Scan(log)[Len(log)] = r
      /\ LogInv(log) /\ log \in Seq(LogEvent) /\ Len(log) \in Nat
      /\ r.open.turn = agent.turn /\ agent.turn # None
      /\ r.open.step = agent.step /\ agent.step # None
      /\ r.trace.nextStep = agent.step
      /\ r.open.pending = {d \in Calls : call[d] \notin {"none", "answered"}}
      /\ r.open.pending \cap r.open.called = Started
      /\ call \in [Calls -> {"none", "asked", "recorded", "running", "settled", "answered"}]
      /\ barrier \in [Calls -> 0..Len(log)]
      /\ \A d \in Calls : call[d] = "recorded" => barrier[d] \in Records(log, Len(log), d)
  BY <1>1, CallsAreOpen
<1> HIDE DEF c, r
<1>5. /\ e \in LogEvent /\ log' = Append(log, e) /\ e.type = "tool/call"
      /\ e.turn = agent.turn /\ e.step = agent.step /\ e.calls = {c}
  <2>1. {c} \in SUBSET Calls /\ (\E d \in Calls : {c} = {d}) /\ "tool/call" \in EventTypes
    BY <1>3 DEF EventTypes
  <2>2. LET f == Event("tool/call", agent.turn, agent.step, {c}, "none") IN
        /\ f \in LogEvent /\ Appended("tool/call", {c}, "none") = Append(log, f)
        /\ f.type = "tool/call" /\ f.turn = agent.turn /\ f.step = agent.step
        /\ f.calls = {c} /\ f.code = "none"
    BY <2>1, AppendedIs
  <2> QED  BY <1>1, <2>2
<1> HIDE DEF e
<1>6. c \in r.open.pending  BY <1>3, <1>4
<1>7. Fits(log, Len(log), e)
  BY <1>3, <1>4, <1>5, <1>6 DEF Fits, FitsStep
<1>8. LogInv(log') /\ Scanned(log') = ScanEvent(r, e)
  BY <1>4, <1>5, <1>7, LogGrows DEF r
<1>9. /\ Scanned(log').open = [r.open EXCEPT !.called = @ \cup ({c} \cap r.open.pending)]
      /\ Scanned(log').trace.nextStep = r.trace.nextStep
  <2>1. /\ ScanEvent(r, e).open = [r.open EXCEPT !.called = @ \cup ({c} \cap r.open.pending)]
        /\ ScanEvent(r, e).trace.nextStep = r.trace.nextStep
    <3>1. /\ r \in ScanState /\ e \in LogEvent /\ e.type = "tool/call"
          /\ c \in Calls /\ e.calls = {c}
      BY <1>3, <1>4, <1>5
    <3> QED  BY <3>1, ToolCallReads
  <2> QED  BY <1>8, <2>1
<1>10. /\ Scanned(log').open.turn = agent.turn /\ Scanned(log').open.step = agent.step
       /\ Scanned(log').open.pending = r.open.pending
       /\ Scanned(log').open.called = r.open.called \cup {c}
       /\ Scanned(log').trace.nextStep = agent.step
  BY <1>4, <1>6, <1>9 DEF ScanState, OpenState
<1>11. /\ EffectsAreRecorded' /\ AnsweredRequestsAreDurable'
       /\ \A d \in Calls : Records(log, Len(log), d) \subseteq Records(log', Len(log'), d)
       /\ Len(log') = Len(log) + 1 /\ log'[Len(log) + 1] = e
       /\ \A n \in 0..Len(log) : n \in 0..Len(log')
  BY <1>1, <1>5, <1>8, AppendKeeps
<1>12. /\ call' \in [Calls -> {"none", "asked", "recorded", "running", "settled", "answered"}]
       /\ call'[c] = "recorded" /\ \A d \in Calls \ {c} : call'[d] = call[d]
  BY <1>1, <1>3, <1>4
<1>13. /\ Started' = Started \cup {c}
       /\ {d \in Calls : call'[d] \notin {"none", "answered"}}
            = {d \in Calls : call[d] \notin {"none", "answered"}}
  BY <1>3, <1>12 DEF Started, In
<1>14. /\ barrier' \in [Calls -> 0..Len(log')]
       /\ \A d \in Calls : call'[d] = "recorded" => barrier'[d] \in Records(log', Len(log'), d)
  <2>1. Len(log) + 1 \in 0..Len(log')  BY <1>4, <1>11
  <2>2. barrier' \in [Calls -> 0..Len(log')]  BY <1>1, <1>4, <1>11, <2>1
  <2>3. Len(log) + 1 \in Records(log', Len(log'), c)
    BY <1>4, <1>5, <1>11 DEF Records, EventsOf
  <2>4. ASSUME NEW d \in Calls, call'[d] = "recorded"
        PROVE  barrier'[d] \in Records(log', Len(log'), d)
    <3>1. CASE d = c  BY <1>1, <1>3, <1>4, <2>3, <3>1
    <3>2. CASE d # c
      <4>1. barrier'[d] = barrier[d] /\ call[d] = "recorded"
        BY <1>1, <1>4, <1>12, <2>4, <3>2
      <4> QED  BY <1>4, <1>11, <4>1
    <3> QED  BY <3>1, <3>2
  <2> QED  BY <2>2, <2>4
<1>15. RecoveryTyped'  BY <1>1, <1>2, <1>11, <1>12, <1>14 DEF RecoveryTyped
<1>16. Scanned(log').open.pending \cap Scanned(log').open.called = Started'
  BY <1>4, <1>6, <1>10, <1>13
<1>17. AgentMatchesLog'
  BY <1>1, <1>4, <1>10, <1>13, <1>14, <1>16 DEF AgentMatchesLog
<1> QED  BY <1>8, <1>11, <1>15, <1>17 DEF RecoveryInv

\* The first started call is answered once it has settled.
LEMMA CommitRecovers ==
  ASSUME RecoveryInv, Commit
  PROVE  RecoveryInv'
<1> DEFINE c == FirstOf(Started)
           e == Event("tool/result", agent.turn, agent.step, {c}, "ok")
           r == Scanned(log)
<1>1. /\ Started # {} /\ call[c] = "settled"
      /\ log' = Appended("tool/result", {c}, "ok")
      /\ call' = [call EXCEPT ![c] = "answered"]
      /\ barrier' = barrier
      /\ stored' = stored /\ agent' = agent /\ ran' = ran /\ crashes' = crashes
  BY DEF Commit
<1>2. RecoveryTyped /\ AgentMatchesLog  BY DEF RecoveryInv
<1>3. c \in Calls /\ c \in Started
  <2>1. Started \in SUBSET Calls  BY DEF Started, In
  <2>2. c \in Started  BY <1>1, <2>1, FirstIs
  <2> QED  BY <2>1, <2>2
<1>4. agent.at = "calls"
  <2>1. call # NoCalls  BY <1>1, <1>3 DEF NoCalls
  <2> QED  BY <1>2, <2>1 DEF AgentMatchesLog
<1>5. /\ r \in ScanState /\ Scan(log)[Len(log)] = r
      /\ LogInv(log) /\ log \in Seq(LogEvent) /\ Len(log) \in Nat
      /\ r.open.turn = agent.turn /\ agent.turn # None
      /\ r.open.step = agent.step /\ agent.step # None
      /\ r.trace.nextStep = agent.step
      /\ r.open.pending = {d \in Calls : call[d] \notin {"none", "answered"}}
      /\ r.open.pending \cap r.open.called = Started
      /\ call \in [Calls -> {"none", "asked", "recorded", "running", "settled", "answered"}]
      /\ barrier \in [Calls -> 0..Len(log)]
      /\ \A d \in Calls : call[d] = "recorded" => barrier[d] \in Records(log, Len(log), d)
  BY <1>4, CallsAreOpen
<1> HIDE DEF c, r
<1>6. /\ e \in LogEvent /\ log' = Append(log, e) /\ e.type = "tool/result"
      /\ e.turn = agent.turn /\ e.step = agent.step /\ e.calls = {c} /\ e.code = "ok"
  BY <1>1, <1>3, AppendedIs DEF EventTypes
<1> HIDE DEF e
<1>7. c \in r.open.pending /\ c \in r.open.called  BY <1>3, <1>5
<1>8. Fits(log, Len(log), e)
  BY <1>3, <1>5, <1>6, <1>7 DEF Fits, FitsStep
<1>9. LogInv(log') /\ Scanned(log') = ScanEvent(r, e)
  BY <1>5, <1>6, <1>8, LogGrows DEF r
<1>10. /\ Scanned(log').open = [r.open EXCEPT !.pending = @ \ {c}]
       /\ Scanned(log').trace.nextStep = r.trace.nextStep
  <2>1. /\ r \in ScanState /\ e \in LogEvent /\ e.type = "tool/result"
        /\ c \in Calls /\ e.calls = {c}
    BY <1>3, <1>5, <1>6
  <2>2. /\ ScanEvent(r, e).open = [r.open EXCEPT !.pending = @ \ {c}]
        /\ ScanEvent(r, e).trace.nextStep = r.trace.nextStep
    BY <2>1, ToolResultReads
  <2> QED  BY <1>9, <2>2
<1>11. /\ Scanned(log').open.turn = agent.turn /\ Scanned(log').open.step = agent.step
       /\ Scanned(log').open.pending = r.open.pending \ {c}
       /\ Scanned(log').open.called = r.open.called
       /\ Scanned(log').trace.nextStep = agent.step
  BY <1>5, <1>10 DEF ScanState, OpenState
<1>12. /\ EffectsAreRecorded' /\ AnsweredRequestsAreDurable'
       /\ \A d \in Calls : Records(log, Len(log), d) \subseteq Records(log', Len(log'), d)
       /\ \A n \in 0..Len(log) : n \in 0..Len(log')
  BY <1>1, <1>6, <1>9, AppendKeeps
<1>13. /\ call' \in [Calls -> {"none", "asked", "recorded", "running", "settled", "answered"}]
       /\ call'[c] = "answered" /\ \A d \in Calls \ {c} : call'[d] = call[d]
  BY <1>1, <1>3, <1>5
<1>14. /\ Started' = Started \ {c}
       /\ {d \in Calls : call'[d] \notin {"none", "answered"}}
            = {d \in Calls : call[d] \notin {"none", "answered"}} \ {c}
  BY <1>3, <1>13 DEF Started, In
<1>15. RecoveryTyped'  BY <1>1, <1>2, <1>5, <1>12, <1>13 DEF RecoveryTyped
<1>16. /\ Scanned(log').open.pending \cap Scanned(log').open.called = Started'
       /\ Scanned(log').open.pending = {d \in Calls : call'[d] \notin {"none", "answered"}}
  BY <1>5, <1>11, <1>14
<1>17. \A d \in Calls : call'[d] = "recorded" => barrier'[d] \in Records(log', Len(log'), d)
  <2>1. ASSUME NEW d \in Calls, call'[d] = "recorded" PROVE call[d] = "recorded"
    BY <1>13, <2>1
  <2> QED  BY <1>1, <1>5, <1>12, <2>1
<1>18. AgentMatchesLog'
  BY <1>1, <1>4, <1>5, <1>11, <1>16, <1>17 DEF AgentMatchesLog
<1> QED  BY <1>9, <1>12, <1>15, <1>18 DEF RecoveryInv

\* A skipped call is recorded and answered at once.
LEMMA SkipRecovers ==
  ASSUME RecoveryInv, Skip
  PROVE  RecoveryInv'
<1> DEFINE c == FirstOf(In("asked"))
           a == Event("tool/call", agent.turn, agent.step, {c}, "none")
           b == Event("tool/result", agent.turn, agent.step, {c}, "ok")
           r == Scanned(log)
           mid == Append(log, a)
           q == Scanned(mid)
<1>1. /\ agent.at = "calls" /\ Started = {} /\ In("asked") # {}
      /\ log' = Appended("tool/call", {c}, "none") \o <<b>>
      /\ call' = [call EXCEPT ![c] = "answered"]
      /\ barrier' = barrier
      /\ stored' = stored /\ agent' = agent /\ ran' = ran /\ crashes' = crashes
  BY DEF Skip
<1>2. RecoveryTyped /\ AgentMatchesLog  BY DEF RecoveryInv
<1>3. c \in Calls /\ call[c] = "asked"
  <2>1. In("asked") \in SUBSET Calls  BY DEF In
  <2>2. c \in In("asked")  BY <1>1, <2>1, FirstIs
  <2> QED  BY <2>2 DEF In
<1>4. /\ r \in ScanState /\ Scan(log)[Len(log)] = r
      /\ LogInv(log) /\ log \in Seq(LogEvent) /\ Len(log) \in Nat
      /\ r.open.turn = agent.turn /\ agent.turn # None
      /\ r.open.step = agent.step /\ agent.step # None
      /\ r.trace.nextStep = agent.step
      /\ r.open.pending = {d \in Calls : call[d] \notin {"none", "answered"}}
      /\ r.open.pending \cap r.open.called = Started
      /\ call \in [Calls -> {"none", "asked", "recorded", "running", "settled", "answered"}]
      /\ barrier \in [Calls -> 0..Len(log)]
      /\ \A d \in Calls : call[d] = "recorded" => barrier[d] \in Records(log, Len(log), d)
  BY <1>1, CallsAreOpen
<1> HIDE DEF c
<1>5. /\ a \in LogEvent /\ Appended("tool/call", {c}, "none") = Append(log, a)
      /\ a.type = "tool/call" /\ a.turn = agent.turn /\ a.step = agent.step /\ a.calls = {c}
  BY <1>3, AppendedIs DEF EventTypes
<1>6. /\ b \in LogEvent /\ b.type = "tool/result"
      /\ b.turn = agent.turn /\ b.step = agent.step /\ b.calls = {c} /\ b.code = "ok"
  BY <1>3, AppendedIs DEF EventTypes
<1> HIDE DEF a, b, r
<1>7. mid \in Seq(LogEvent) /\ log' = Append(mid, b)
  <2>1. mid \in Seq(LogEvent)  BY <1>4, <1>5, AppendProperties
  <2>2. mid \o <<b>> = Append(mid, b)  BY <1>6, <2>1, AppendIsConcat
  <2> QED  BY <1>1, <1>5, <2>1, <2>2
<1>8. c \in r.open.pending  BY <1>3, <1>4
<1>9. Fits(log, Len(log), a)
  BY <1>3, <1>4, <1>5, <1>8 DEF Fits, FitsStep
<1>10. LogInv(mid) /\ q = ScanEvent(r, a)
  BY <1>4, <1>5, <1>9, LogGrows DEF r
<1> HIDE DEF mid
<1>11. q \in ScanState /\ Scan(mid)[Len(mid)] = q  BY <1>10, ScannedIs
<1> HIDE DEF q
<1>12. /\ q.open = [r.open EXCEPT !.called = @ \cup ({c} \cap r.open.pending)]
       /\ q.trace.nextStep = r.trace.nextStep
  <2>1. /\ r \in ScanState /\ a \in LogEvent /\ a.type = "tool/call"
        /\ c \in Calls /\ a.calls = {c}
    BY <1>3, <1>4, <1>5
  <2>2. /\ ScanEvent(r, a).open = [r.open EXCEPT !.called = @ \cup ({c} \cap r.open.pending)]
        /\ ScanEvent(r, a).trace.nextStep = r.trace.nextStep
    BY <2>1, ToolCallReads
  <2> QED  BY <1>10, <2>2
<1>13. /\ q.open.turn = agent.turn /\ q.open.step = agent.step
       /\ q.open.pending = r.open.pending /\ q.open.called = r.open.called \cup {c}
       /\ q.trace.nextStep = agent.step
  BY <1>4, <1>8, <1>12 DEF ScanState, OpenState
<1>14. Fits(mid, Len(mid), b)
  BY <1>3, <1>4, <1>6, <1>8, <1>11, <1>13 DEF Fits, FitsStep
<1>15. /\ LogInv(log')
       /\ Scanned(log') = ScanEvent(ScanEvent(r, a), b)
       /\ EffectsAreRecorded' /\ AnsweredRequestsAreDurable'
       /\ \A d \in Calls : Records(log, Len(log), d) \subseteq Records(log', Len(log'), d)
       /\ \A n \in 0..Len(log) : n \in 0..Len(log')
  <2>1. Fits(Append(log, a), Len(Append(log, a)), b) /\ log' = Append(Append(log, a), b)
    BY <1>7, <1>14 DEF mid
  <2> QED  BY <1>1, <1>5, <1>6, <1>9, <2>1, TwoAppendsKeep DEF r
<1>16. /\ Scanned(log').open = [q.open EXCEPT !.pending = @ \ {c}]
       /\ Scanned(log').trace.nextStep = q.trace.nextStep
  <2>1. /\ q \in ScanState /\ b \in LogEvent /\ b.type = "tool/result"
        /\ c \in Calls /\ b.calls = {c}
    BY <1>3, <1>6, <1>11
  <2>2. /\ ScanEvent(q, b).open = [q.open EXCEPT !.pending = @ \ {c}]
        /\ ScanEvent(q, b).trace.nextStep = q.trace.nextStep
    BY <2>1, ToolResultReads
  <2> QED  BY <1>10, <1>15, <2>2
<1>17. /\ Scanned(log').open.turn = agent.turn /\ Scanned(log').open.step = agent.step
       /\ Scanned(log').open.pending = r.open.pending \ {c}
       /\ Scanned(log').open.called = r.open.called \cup {c}
       /\ Scanned(log').trace.nextStep = agent.step
  BY <1>11, <1>13, <1>16 DEF ScanState, OpenState
<1>18. /\ call' \in [Calls -> {"none", "asked", "recorded", "running", "settled", "answered"}]
       /\ call'[c] = "answered" /\ \A d \in Calls \ {c} : call'[d] = call[d]
  BY <1>1, <1>3, <1>4
<1>19. /\ Started' = {}
       /\ {d \in Calls : call'[d] \notin {"none", "answered"}}
            = {d \in Calls : call[d] \notin {"none", "answered"}} \ {c}
  <2>1. \A d \in Calls : call[d] \notin {"recorded", "running", "settled"}
    BY <1>1 DEF Started, In
  <2>2. \A d \in Calls : call'[d] \notin {"recorded", "running", "settled"}
    BY <1>18, <2>1
  <2> QED  BY <1>18, <2>2 DEF Started, In
<1>20. RecoveryTyped'  BY <1>1, <1>2, <1>4, <1>15, <1>18 DEF RecoveryTyped
<1>21. /\ Scanned(log').open.pending \cap Scanned(log').open.called = Started'
       /\ Scanned(log').open.pending = {d \in Calls : call'[d] \notin {"none", "answered"}}
  BY <1>1, <1>4, <1>17, <1>19
<1>22. \A d \in Calls : call'[d] = "recorded" => barrier'[d] \in Records(log', Len(log'), d)
  <2>1. ASSUME NEW d \in Calls, call'[d] = "recorded" PROVE call[d] = "recorded"
    BY <1>18, <2>1
  <2> QED  BY <1>1, <1>4, <1>15, <2>1
<1>23. AgentMatchesLog'
  BY <1>1, <1>4, <1>17, <1>21, <1>22 DEF AgentMatchesLog
<1> QED  BY <1>15, <1>20, <1>23 DEF RecoveryInv

-----------------------------------------------------------------------------
(* Crash and repair.                                                       *)

\* While the program is down the log is what is durable, and no call is open.
LEMMA DownIsRecoverable ==
  ASSUME RecoveryInv, LogInv(log'), stored' = Len(log'), agent'.at = "off",
         agent' \in [at : {"off", "idle", "turn", "step", "streaming", "calls"},
                     turn : 0..MaxTurns, step : 0..MaxSteps, aborted : BOOLEAN],
         call' = NoCalls,
         barrier' = NoBarriers \/ (barrier' = barrier /\ Len(log) <= Len(log')),
         ran' = ran, crashes' \in 0..MaxCrashes,
         \A i \in 1..stored : i \in 1..Len(log') /\ log'[i] = log[i]
  PROVE  RecoveryInv'
<1>1. Len(log') \in Nat /\ DOMAIN log' = 1..Len(log') /\ Len(log) \in Nat
  BY ScannedIs DEF RecoveryInv
<1>2. RecoveryTyped /\ EffectsAreRecorded  BY DEF RecoveryInv
<1>3. \A c \in Calls : call'[c] # "recorded"  BY DEF NoCalls
<1>4. RecoveryTyped'
  <2>1. /\ call' \in [Calls -> {"none", "asked", "recorded", "running", "settled", "answered"}]
        /\ NoBarriers \in [Calls -> 0..Len(log')]
    BY <1>1 DEF NoCalls, NoBarriers
  <2>2. Len(log) <= Len(log') => \A k \in 0..Len(log) : k \in 0..Len(log')
    BY <1>1
  <2>3. barrier \in [Calls -> 0..Len(log)]  BY <1>2 DEF RecoveryTyped
  <2>4. barrier' \in [Calls -> 0..Len(log')]  BY <2>1, <2>2, <2>3
  <2>5. stored' \in 0..Len(log')  BY <1>1
  <2> QED  BY <1>2, <2>1, <2>4, <2>5 DEF RecoveryTyped
<1>5. AgentMatchesLog'  BY <1>3 DEF AgentMatchesLog
<1>6. EffectsAreRecorded'  BY <1>2 DEF EffectsAreRecorded
<1>7. AnsweredRequestsAreDurable'
  <2>1. \A i \in 1..Len(log') : Len(log') >= i - 1  BY <1>1
  <2> QED  BY <1>1, <2>1 DEF AnsweredRequestsAreDurable
<1> QED  BY <1>4, <1>5, <1>6, <1>7 DEF RecoveryInv

\* A crash keeps what is durable.
LEMMA CrashRecovers ==
  ASSUME RecoveryInv, Crash
  PROVE  RecoveryInv'
<1>1. /\ crashes < MaxCrashes /\ crashes' = crashes + 1 /\ log' = SubSeq(log, 1, stored)
      /\ agent' = Off /\ call' = NoCalls /\ barrier' = NoBarriers
      /\ stored' = stored /\ ran' = ran
  BY DEF Crash
<1>2. RecoveryTyped /\ LogInv(log)  BY DEF RecoveryInv
<1>3. stored \in 0..Len(log) /\ Len(log) \in Nat  BY <1>2, ScannedIs DEF RecoveryTyped
<1>4. LogInv(log') /\ Len(log') = stored /\ \A i \in 1..stored : log'[i] = log[i]
  BY <1>1, <1>2, <1>3, LogCut
<1>5. /\ agent'.at = "off"
      /\ agent' \in [at : {"off", "idle", "turn", "step", "streaming", "calls"},
                     turn : 0..MaxTurns, step : 0..MaxSteps, aborted : BOOLEAN]
  BY <1>1, BoundsAreNaturals DEF Off, None
<1>6. crashes' \in 0..MaxCrashes  BY <1>1, <1>2, BoundsAreNaturals DEF RecoveryTyped
<1>7. \A i \in 1..stored : i \in 1..Len(log') /\ log'[i] = log[i]  BY <1>4
<1>8. stored' = Len(log')  BY <1>1, <1>4
<1> QED  BY <1>1, <1>4, <1>5, <1>6, <1>7, <1>8, DownIsRecoverable

\* Whatever part of the closers is written.
LEMMA RepairRecovers ==
  ASSUME RecoveryInv, NEW n, Repair(n)
  PROVE  RecoveryInv'
<1> DEFINE closers == interruptedTurnClosers(log)
<1>1. /\ agent.at = "off" /\ NeedsRepair(log) /\ n \in 1..Len(closers)
      /\ log' = log \o SubSeq(closers, 1, n) /\ stored' = Len(log) + n
      /\ agent' = agent /\ call' = call /\ barrier' = barrier
      /\ ran' = ran /\ crashes' = crashes
  BY DEF Repair, Written
<1>2. RecoveryTyped /\ LogInv(log) /\ AgentMatchesLog  BY DEF RecoveryInv
<1>3. stored = Len(log) /\ call = NoCalls  BY <1>1, <1>2 DEF AgentMatchesLog
<1>4. Len(log) \in Nat  BY <1>2, ScannedIs
<1>5. Scanned(log).open.turn # None
  BY <1>1, <1>2, ScannedIs, ClosersAre DEF NeedsRepair
<1>6. n \in 0..Len(closers) /\ n \in Nat
  BY <1>1
<1>7. LogInv(log') /\ Len(log') = Len(log) + n /\ \A i \in 1..Len(log) : log'[i] = log[i]
  BY <1>1, <1>2, <1>5, <1>6, ClosersGrow
<1>8. \A i \in 1..Len(log) : i \in 1..Len(log')  BY <1>4, <1>6, <1>7
<1>9. Len(log) <= Len(log')  BY <1>4, <1>6, <1>7
<1>10. /\ agent \in [at : {"off", "idle", "turn", "step", "streaming", "calls"},
                     turn : 0..MaxTurns, step : 0..MaxSteps, aborted : BOOLEAN]
       /\ crashes \in 0..MaxCrashes
  BY <1>2 DEF RecoveryTyped
<1> HIDE DEF closers
<1> QED  BY <1>1, <1>3, <1>7, <1>8, <1>9, <1>10, DownIsRecoverable

\* The invariant holds of every session whose log nobody rewinds.
LEMMA RecoveryHolds ==
  ASSUME "rewind" \notin Admitted
  PROVE  RecoverySpec => []RecoveryInv
<1>1. RecoveryInit => RecoveryInv  BY StartIsRecoverable
<1>2. RecoveryInv /\ [RecoveryNext]_recoveryVars => RecoveryInv'
  <2> SUFFICES ASSUME RecoveryInv, [RecoveryNext]_recoveryVars PROVE RecoveryInv'
    OBVIOUS
  <2>1. CASE BeginTurn  BY <2>1, BeginTurnRecovers
  <2>2. CASE BeginStep  BY <2>2, BeginStepRecovers
  <2>3. CASE Request  BY <2>3, RequestRecovers
  <2>4. CASE StartCall  BY <2>4, StartCallRecovers
  <2>5. CASE Commit  BY <2>5, CommitRecovers
  <2>6. CASE Skip  BY <2>6, SkipRecovers
  <2>7. CASE Abort  BY <2>7, RequestRecovers
  <2>8. CASE EndStep  BY <2>8, EndStepRecovers
  <2>9. CASE EndTurn  BY <2>9, EndTurnRecovers
  <2>10. CASE Store  BY <2>10, StoreRecovers
  <2>11. CASE Crash  BY <2>11, CrashRecovers
  <2>12. CASE Resume  BY <2>12, ResumeRecovers
  <2>13. CASE \E k \in 0..MaxCalls : Message(k)  BY <2>13, MessageRecovers
  <2>14. CASE \E c \in Calls : RunBody(c) \/ Withhold(c) \/ SettleCall(c)
    BY <2>14, CallRecovers
  <2>15. CASE \E n \in 1..MaxCalls + 2 : Repair(n)  BY <2>15, RepairRecovers
  <2>16. CASE \E n \in DOMAIN log : Rewind(n)  BY <2>16 DEF Rewind
  <2>17. CASE UNCHANGED recoveryVars  BY <2>17, StutterRecovers
  <2> QED  BY <2>1, <2>2, <2>3, <2>4, <2>5, <2>6, <2>7, <2>8, <2>9, <2>10, <2>11, <2>12,
              <2>13, <2>14, <2>15, <2>16, <2>17 DEF RecoveryNext
<1> QED  BY <1>1, <1>2, PTL DEF RecoverySpec

-----------------------------------------------------------------------------
(* What the invariant says.                                                *)

\* The results of a call are the answers the invariant counts.
LEMMA ResultsAre ==
  ASSUME LogInv(log), NEW c \in Calls
  PROVE  /\ ResultsOf(c) = Answers(log, Len(log), c)
         /\ \A i \in Records(log, Len(log), c) :
              i \in 1..Len(log) /\ log[i].type = "tool/call" /\ log[i].calls = {c}
<1>1. DOMAIN log = 1..Len(log) /\ log \in Seq(LogEvent)  BY ScannedIs
<1>2. ASSUME NEW i \in 1..Len(log), log[i].type \in {"tool/call", "tool/result"}
      PROVE  c \in log[i].calls <=> log[i].calls = {c}
  <2>1. log[i] \in LogEvent  BY <1>1
  <2>2. \E d \in Calls : log[i].calls = {d}  BY <1>2, <2>1 DEF LogEvent
  <2> QED  BY <2>2
<1>3. ResultsOf(c) = Answers(log, Len(log), c)
  BY <1>1, <1>2 DEF ResultsOf, Answers, EventsOf
<1> QED  BY <1>2, <1>3 DEF Records, EventsOf

\* The type of the log.
LEMMA RecoveryTypesHold ==
  ASSUME RecoveryInv
  PROVE  RecoveryTypeOK
<1> DEFINE Plain == [type : EventTypes, turn : 0 .. MaxTurns, step : 0 .. MaxSteps,
                   calls : SUBSET Calls,
                   code : {"none", "ok", "unknown", "not-started", "interrupted"}]
<1>1. log \in Seq(LogEvent)  BY DEF RecoveryInv, LogInv
<1>2. LogEvent \subseteq Plain  BY DEF LogEvent
<1> HIDE DEF Plain
<1>3. log \in Seq(Plain)  BY <1>1, <1>2, SeqMonotonic
<1> QED  BY <1>3 DEF RecoveryInv, RecoveryTyped, RecoveryTypeOK, Plain

\* The repair's verdicts are true: a call it says was not started has no record,
\* and a body runs only behind a durable one.
LEMMA VerdictsAreTrue ==
  ASSUME RecoveryInv
  PROVE  OutcomesAreHonest
<1> SUFFICES ASSUME NEW c \in Calls, NEW i \in ResultsOf(c)
             PROVE  /\ log[i].code = "not-started" => c \notin ran
                    /\ log[i].code = "unknown" =>
                         \E j \in 1..i : log[j].type = "tool/call" /\ log[j].calls = {c}
  BY DEF OutcomesAreHonest
<1> DEFINE n == Len(log)
<1>1. /\ LogInv(log) /\ n \in Nat /\ stored \in 0..n
      /\ EffectsAreRecorded /\ CallStands(log, n, c)
  BY ScannedIs DEF RecoveryInv, RecoveryTyped, Consistent
<1>2. /\ i \in Answers(log, n, c)
      /\ \A k \in Records(log, n, c) :
           k \in 1..n /\ log[k].type = "tool/call" /\ log[k].calls = {c}
  BY <1>1, ResultsAre
<1>3. /\ log[i].code = "not-started" => Records(log, n, c) = {}
      /\ log[i].code = "unknown" => \E k \in Records(log, n, c) : k <= i
  BY <1>1, <1>2 DEF CallStands, CallIsNew, CallIsOpen, CallIsAnswered, CallIsDropped
<1>4. c \in ran => Records(log, n, c) # {}
  <2>1. ASSUME c \in ran PROVE \E k \in 1..n : k \in Records(log, n, c)
    <3>1. PICK k \in 1..stored : log[k].type = "tool/call" /\ log[k].calls = {c}
      BY <1>1, <2>1 DEF EffectsAreRecorded
    <3>2. k \in 1..n  BY <1>1, <3>1
    <3> QED  BY <3>1, <3>2 DEF Records, EventsOf
  <2> QED  BY <2>1
<1>5. ASSUME log[i].code = "unknown"
      PROVE  \E j \in 1..i : log[j].type = "tool/call" /\ log[j].calls = {c}
  <2>1. PICK k \in Records(log, n, c) : k <= i  BY <1>3, <1>5
  <2>2. k \in 1..n /\ log[k].type = "tool/call" /\ log[k].calls = {c}  BY <1>2, <2>1
  <2>3. i \in 1..n  BY <1>2 DEF Answers, EventsOf
  <2>4. k \in 1..i  BY <1>1, <2>1, <2>2, <2>3
  <2> QED  BY <2>2, <2>4
<1> QED  BY <1>3, <1>4, <1>5

\* An idle log has nothing open, and each call that was asked for in it is answered.
LEMMA IdleIsClosed ==
  ASSUME RecoveryInv, "scheduler-failure" \notin Admitted
  PROVE  ResumedLogIsClosed
<1> DEFINE n == Len(log)
<1> SUFFICES ASSUME agent.at = "idle"
             PROVE  ResumedLogIsClosed
  BY DEF ResumedLogIsClosed, IdleLogIsBalanced, CallsAreAnswered
<1>1. /\ LogInv(log) /\ n \in Nat /\ DOMAIN log = 1..n /\ Consistent(log, n)
      /\ Scan(log)[n] = Scanned(log) /\ OpenAt(log, n) = Scanned(log).open
      /\ Traces(log)[n] = Scanned(log).trace
  BY ScannedIs DEF RecoveryInv
<1>2. Scanned(log).open = NothingOpen  BY DEF RecoveryInv, AgentMatchesLog
<1>3. NothingOpen.turn = None /\ NothingOpen.step = None /\ NothingOpen.pending = {}
  BY DEF NothingOpen
<1>4. IdleLogIsBalanced
  BY <1>1, <1>2, <1>3 DEF Consistent, IdleLogIsBalanced
<1>5. ASSUME NEW i \in DOMAIN log, log[i].type = "assistant/message", NEW c \in log[i].calls
      PROVE  \E j \in ResultsOf(c) :
               /\ ResultsOf(c) = {j} /\ j > i
               /\ \A k \in i .. j : log[k].type # "step/end"
  <2>1. i \in 1..n /\ log[i] \in LogEvent  BY <1>1 DEF LogInv
  <2>2. c \in Calls  BY <2>1 DEF LogEvent
  <2>3. i \in Asks(log, n, c)  BY <1>5, <2>1 DEF Asks, EventsOf
  <2>4. CallStands(log, n, c)  BY <1>1, <2>2 DEF Consistent
  <2>5. c \notin OpenAt(log, n).pending  BY <1>1, <1>2, <1>3
  <2>6. CallIsAnswered(log, n, c)
    BY <2>3, <2>4, <2>5 DEF CallStands, CallIsNew, CallIsOpen, CallIsDropped
  <2>7. PICK first \in 1..n, j \in 1..n :
           /\ first < j /\ Asks(log, n, c) = {first} /\ Answers(log, n, c) = {j}
           /\ InOneStep(log, first, j)
    BY <2>6 DEF CallIsAnswered
  <2>8. first = i  BY <2>3, <2>7
  <2>9. ResultsOf(c) = {j}  BY <1>1, <2>2, <2>7, ResultsAre
  <2>10. j > i  BY <2>7, <2>8
  <2> QED  BY <2>7, <2>8, <2>9, <2>10 DEF InOneStep
<1>6. CallsAreAnswered  BY <1>5 DEF CallsAreAnswered
<1> QED  BY <1>4, <1>6 DEF ResumedLogIsClosed

-----------------------------------------------------------------------------
(* A rewind of an idle session.                                            *)

\* A rewind tells neither the agent nor the companion that it cut their log, so
\* nothing above holds of the log that follows.  What the checkpoints promise
\* while a step is open rests on the calls of that step alone, and survives.

AgentStates ==
  [at : {"off", "idle", "turn", "step", "streaming", "calls"},
   turn : 0..MaxTurns, step : 0..MaxSteps, aborted : BOOLEAN]

CallStates == {"none", "asked", "recorded", "running", "settled", "answered"}

\* A call of the open step that is recorded, or further, waits for its record.
RecordIsAt(lg, i, c) == i \in 1..Len(lg) /\ lg[i].type = "tool/call" /\ lg[i].calls = {c}

CallsAreRecorded ==
  \A c \in Calls :
    /\ call[c] \in {"recorded", "running", "settled"} => RecordIsAt(log, barrier[c], c)
    /\ call[c] = "running" => stored >= barrier[c]

\* Only a step that was answered has calls, and the program rests and asks the
\* model on a durable log.
StepsAreApart ==
  /\ agent.at # "calls" => call = NoCalls /\ barrier = NoBarriers
  /\ agent.at \in {"off", "streaming"} => stored = Len(log)

CutInv ==
  /\ log \in Seq(LogEvent) /\ RecoveryTyped /\ StepsAreApart
  /\ CallsAreRecorded /\ AnsweredRequestsAreDurable

\* What a step may do to a call: start it, let it run behind its record, end it.
CallMoves(c) ==
  \/ call'[c] \in {"none", "asked", "answered"}
  \/ barrier'[c] = barrier[c] /\ call'[c] = call[c]
  \/ barrier'[c] = barrier[c] /\ call[c] = "recorded" /\ call'[c] = "running" /\ stored >= barrier[c]
  \/ barrier'[c] = barrier[c] /\ call[c] \in {"recorded", "running"} /\ call'[c] = "settled"
  \/ RecordIsAt(log', barrier'[c], c) /\ call'[c] = "recorded"

\* A step that takes nothing from the log keeps what it holds of its calls and of
\* the answers, if an answer comes behind a durable request.
LEMMA GrowthKeeps ==
  ASSUME CutInv, log' \in Seq(LogEvent), Len(log) <= Len(log'),
         \A i \in 1..Len(log) : log'[i] = log[i],
         stored' \in Nat, stored <= stored',
         \A i \in 1..Len(log') : i > Len(log) /\ log'[i].type = "assistant/message" => stored' >= i - 1,
         call' \in [Calls -> CallStates], \A c \in Calls : CallMoves(c)
  PROVE  CallsAreRecorded' /\ AnsweredRequestsAreDurable'
<1>1. /\ Len(log) \in Nat /\ Len(log') \in Nat /\ stored \in Nat
      /\ DOMAIN log = 1..Len(log) /\ DOMAIN log' = 1..Len(log')
  BY DEF CutInv, RecoveryTyped
<1>2. ASSUME NEW c \in Calls, NEW i, RecordIsAt(log, i, c)
      PROVE  RecordIsAt(log', i, c)
  <2>1. i \in 1..Len(log) /\ i \in 1..Len(log')  BY <1>1, <1>2 DEF RecordIsAt
  <2> QED  BY <1>2, <2>1 DEF RecordIsAt
<1>3. CallsAreRecorded'
  <2>1. ASSUME NEW c \in Calls, call'[c] \in {"recorded", "running", "settled"}
        PROVE  RecordIsAt(log', barrier'[c], c)
    <3>1. call'[c] \notin {"none", "asked", "answered"}  BY <2>1
    <3>2. \/ RecordIsAt(log', barrier'[c], c)
          \/ /\ barrier'[c] = barrier[c]
             /\ call[c] = call'[c] \/ call[c] \in {"recorded", "running"}
      BY <3>1 DEF CallMoves
    <3>3. CASE barrier'[c] = barrier[c] /\ (call[c] = call'[c] \/ call[c] \in {"recorded", "running"})
      <4>1. call[c] \in {"recorded", "running", "settled"}  BY <2>1, <3>3
      <4>2. RecordIsAt(log, barrier[c], c)  BY <4>1 DEF CutInv, CallsAreRecorded
      <4> QED  BY <1>2, <3>3, <4>2
    <3> QED  BY <3>2, <3>3
  <2>2. ASSUME NEW c \in Calls, call'[c] = "running"
        PROVE  stored' >= barrier'[c]
    <3>1. /\ barrier'[c] = barrier[c]
          /\ call[c] = "running" \/ (call[c] = "recorded" /\ stored >= barrier[c])
      BY <2>2 DEF CallMoves
    <3>2. call[c] \in {"recorded", "running", "settled"}  BY <3>1
    <3>3. stored >= barrier[c] /\ RecordIsAt(log, barrier[c], c)
      BY <3>1, <3>2 DEF CutInv, CallsAreRecorded
    <3>4. barrier[c] \in Nat  BY <1>1, <3>3 DEF RecordIsAt
    <3> QED  BY <1>1, <3>1, <3>3, <3>4
  <2> QED  BY <2>1, <2>2 DEF CallsAreRecorded
<1>4. ASSUME NEW i \in 1..Len(log'), log'[i].type = "assistant/message"
      PROVE  stored' >= i - 1
  <2>1. CASE i > Len(log)  BY <1>4, <2>1
  <2>2. CASE ~(i > Len(log))
    <3>1. i \in 1..Len(log) /\ i \in Nat  BY <1>1, <2>2
    <3>2. log[i].type = "assistant/message"  BY <1>4, <3>1
    <3>3. stored >= i - 1  BY <1>1, <3>1, <3>2 DEF CutInv, AnsweredRequestsAreDurable
    <3> QED  BY <1>1, <3>1, <3>3
  <2> QED  BY <2>1, <2>2
<1>5. AnsweredRequestsAreDurable'  BY <1>1, <1>4 DEF AnsweredRequestsAreDurable
<1> QED  BY <1>3, <1>5

\* A crash and a rewind leave a part of the log that is durable, and no step.
LEMMA CutKeeps ==
  ASSUME CutInv, NEW n \in 0..Len(log), log' = SubSeq(log, 1, n), stored' = n,
         call' = NoCalls, barrier' = NoBarriers,
         agent' \in AgentStates,
         ran' = ran, crashes' \in 0..MaxCrashes
  PROVE  CutInv'
<1>1. log \in Seq(LogEvent) /\ RecoveryTyped  BY DEF CutInv
<1>2. log' \in Seq(LogEvent) /\ Len(log') = n
  BY <1>1, SubSeqProperties
<1>3. n \in Nat /\ DOMAIN log' = 1..n  BY <1>1, <1>2
<1>4. RecoveryTyped'
  <2>1. call' \in [Calls -> CallStates]  BY DEF NoCalls, CallStates
  <2>2. barrier' \in [Calls -> 0..Len(log')]  BY <1>2, <1>3 DEF NoBarriers
  <2>3. stored' \in 0..Len(log')  BY <1>2, <1>3
  <2> QED  BY <1>1, <2>1, <2>2, <2>3 DEF RecoveryTyped, CallStates, AgentStates
<1>5. StepsAreApart'  BY <1>2 DEF StepsAreApart
<1>6. CallsAreRecorded'
  <2>1. \A c \in Calls : call'[c] = "none"  BY DEF NoCalls
  <2> QED  BY <2>1 DEF CallsAreRecorded
<1>7. AnsweredRequestsAreDurable'
  <2>1. \A i \in 1..n : n >= i - 1  BY <1>3
  <2> QED  BY <1>3, <2>1 DEF AnsweredRequestsAreDurable
<1> QED  BY <1>2, <1>4, <1>5, <1>6, <1>7 DEF CutInv

\* What the agent appends is an event of the session.
LEMMA LineIs ==
  ASSUME RecoveryTyped, NEW type \in EventTypes, NEW calls \in SUBSET Calls,
         NEW code \in {"none", "ok"},
         type \in {"tool/call", "tool/result"} => \E c \in Calls : calls = {c},
         type \notin {"tool/call", "tool/result", "assistant/message"} => calls = {}
  PROVE  LET e == Event(type, agent.turn, agent.step, calls, code) IN
         /\ e \in LogEvent /\ Appended(type, calls, code) = Append(log, e)
         /\ e.type = type /\ e.calls = calls
<1>1. agent.turn \in 0..MaxTurns /\ agent.step \in 0..MaxSteps
  BY DEF RecoveryTyped
<1> QED  BY <1>1 DEF Event, LogEvent, Appended

\* The log with one more event.
LEMMA LogIsLonger ==
  ASSUME NEW lg \in Seq(LogEvent), NEW e \in LogEvent
  PROVE  LET longer == Append(lg, e) IN
         /\ longer \in Seq(LogEvent) /\ Len(longer) = Len(lg) + 1 /\ longer[Len(lg) + 1] = e
         /\ \A i \in 1..Len(lg) : longer[i] = lg[i]
         /\ Len(lg) \in Nat /\ \A i \in 0..Len(lg) : i \in 0..Len(longer)
<1> DEFINE longer == Append(lg, e)
<1>1. /\ longer \in Seq(LogEvent) /\ Len(longer) = Len(lg) + 1 /\ longer[Len(lg) + 1] = e
      /\ \A i \in 1..Len(lg) : longer[i] = lg[i]
  BY AppendProperties
<1> HIDE DEF longer
<1>2. Len(lg) \in Nat  OBVIOUS
<1> QED  BY <1>1, <1>2 DEF longer

\* A step that appends one event, an answer only behind a durable request.
LEMMA OneLineKeeps ==
  ASSUME CutInv, NEW e \in LogEvent, log' = Append(log, e), stored' = stored,
         e.type = "assistant/message" => stored = Len(log),
         call' \in [Calls -> CallStates], \A c \in Calls : CallMoves(c)
  PROVE  /\ CallsAreRecorded' /\ AnsweredRequestsAreDurable' /\ log' \in Seq(LogEvent)
         /\ Len(log') = Len(log) + 1 /\ stored' \in 0..Len(log')
         /\ \A i \in 0..Len(log) : i \in 0..Len(log')
<1>1. log \in Seq(LogEvent) /\ stored \in 0..Len(log)  BY DEF CutInv, RecoveryTyped
<1>2. /\ log' \in Seq(LogEvent) /\ Len(log') = Len(log) + 1 /\ log'[Len(log) + 1] = e
      /\ \A i \in 1..Len(log) : log'[i] = log[i]
      /\ Len(log) \in Nat /\ \A i \in 0..Len(log) : i \in 0..Len(log')
  BY <1>1, LogIsLonger
<1>3. Len(log) <= Len(log') /\ stored' \in Nat /\ stored <= stored' /\ stored' \in 0..Len(log')
  BY <1>1, <1>2
<1>4. ASSUME NEW i \in 1..Len(log'), i > Len(log), log'[i].type = "assistant/message"
      PROVE  stored' >= i - 1
  <2>1. i = Len(log) + 1  BY <1>2, <1>4
  <2>2. stored' = Len(log)  BY <1>2, <1>4, <2>1
  <2> QED  BY <1>2, <2>1, <2>2
<1>5. CallsAreRecorded' /\ AnsweredRequestsAreDurable'
  BY <1>2, <1>3, <1>4, GrowthKeeps
<1> QED  BY <1>2, <1>3, <1>5

\* A step that appends two events, neither of them an answer.
LEMMA TwoLinesKeep ==
  ASSUME CutInv, NEW a \in LogEvent, NEW b \in LogEvent,
         log' = Append(Append(log, a), b), stored' = stored,
         a.type # "assistant/message", b.type # "assistant/message",
         call' \in [Calls -> CallStates], \A c \in Calls : CallMoves(c)
  PROVE  /\ CallsAreRecorded' /\ AnsweredRequestsAreDurable' /\ log' \in Seq(LogEvent)
         /\ stored' \in 0..Len(log') /\ \A i \in 0..Len(log) : i \in 0..Len(log')
<1> DEFINE mid == Append(log, a)
<1>1. log \in Seq(LogEvent) /\ stored \in 0..Len(log)  BY DEF CutInv, RecoveryTyped
<1>2. /\ mid \in Seq(LogEvent) /\ Len(mid) = Len(log) + 1 /\ mid[Len(log) + 1] = a
      /\ \A i \in 1..Len(log) : mid[i] = log[i]
      /\ Len(log) \in Nat
  BY <1>1, LogIsLonger
<1>3. log' = Append(mid, b)  OBVIOUS
<1> HIDE DEF mid
<1>4. /\ log' \in Seq(LogEvent) /\ Len(log') = Len(mid) + 1 /\ log'[Len(mid) + 1] = b
      /\ \A i \in 1..Len(mid) : log'[i] = mid[i]
  BY <1>2, <1>3, LogIsLonger
<1>5. /\ Len(log') = Len(log) + 2 /\ \A i \in 1..Len(log) : i \in 1..Len(mid)
      /\ Len(log) + 1 \in 1..Len(mid) /\ Len(mid) + 1 = Len(log) + 2
  BY <1>2, <1>4
<1>6. /\ \A i \in 1..Len(log) : log'[i] = log[i]
      /\ log'[Len(log) + 1] = a /\ log'[Len(log) + 2] = b
  BY <1>2, <1>4, <1>5
<1>7. /\ Len(log) <= Len(log') /\ stored' \in Nat /\ stored <= stored' /\ stored' \in 0..Len(log')
      /\ \A i \in 0..Len(log) : i \in 0..Len(log')
  BY <1>1, <1>2, <1>5
<1>8. ASSUME NEW i \in 1..Len(log'), i > Len(log), log'[i].type = "assistant/message"
      PROVE  FALSE
  <2>1. i = Len(log) + 1 \/ i = Len(log) + 2  BY <1>2, <1>5, <1>8
  <2> QED  BY <1>6, <1>8, <2>1
<1>9. CallsAreRecorded' /\ AnsweredRequestsAreDurable'
  BY <1>4, <1>6, <1>7, <1>8, GrowthKeeps
<1> QED  BY <1>4, <1>7, <1>9

\* What the repair reads of a log stays in the session's range.
LEMMA CursorIsInRange ==
  ASSUME NEW lg \in Seq(LogEvent)
  PROVE  OpenTail(lg) \in OpenState
<1>1. Len(lg) \in Nat  OBVIOUS
<1> DEFINE G == {n \in 0..Len(lg) : Cursors(lg)[n] \in OpenState}
<1>2. /\ Cursors(lg)[0] = NothingOpen
      /\ \A n \in 1..Len(lg) : Cursors(lg)[n] = Follow(Cursors(lg)[n - 1], lg[n])
  BY <1>1, CursorsRun
<1>3. NothingOpen \in OpenState
  BY BoundsAreNaturals DEF NothingOpen, OpenState, None
<1>4. 0 \in G
  <2>1. 0 \in 0..Len(lg)  BY <1>1
  <2> QED  BY <1>2, <1>3, <2>1
<1>5. ASSUME NEW n \in 1..Len(lg), n - 1 \in G
      PROVE  n \in G
  <2> DEFINE o == Cursors(lg)[n - 1]
             e == lg[n]
  <2>1. o \in OpenState  BY <1>5
  <2>2. e \in LogEvent  OBVIOUS
  <2>3. Cursors(lg)[n] = Follow(o, e)  BY <1>2
  <2> HIDE DEF o, e
  <2>4. /\ e.turn \in 0..MaxTurns /\ e.step \in 0..MaxSteps /\ e.calls \in SUBSET Calls
        /\ None \in 0..MaxSteps
    BY <2>2, BoundsAreNaturals DEF LogEvent, None
  <2>5. [NothingOpen EXCEPT !.turn = e.turn] \in OpenState
    BY <1>3, <2>4 DEF OpenState
  <2>6. /\ [o EXCEPT !.step = e.step] \in OpenState
        /\ [o EXCEPT !.step = None, !.pending = {}, !.called = {}] \in OpenState
    BY <2>1, <2>4 DEF OpenState
  <2>7. /\ [o EXCEPT !.pending = @ \cup e.calls] \in OpenState
        /\ [o EXCEPT !.called = @ \cup (e.calls \cap o.pending)] \in OpenState
        /\ [o EXCEPT !.pending = @ \ e.calls] \in OpenState
    BY <2>1, <2>4 DEF OpenState
  <2>8. Follow(o, e) \in OpenState
    BY <1>3, <2>1, <2>5, <2>6, <2>7 DEF Follow
  <2>9. n \in 0..Len(lg)  BY <1>1
  <2> QED  BY <2>3, <2>8, <2>9
<1>6. Len(lg) \in G
  <2> HIDE DEF G
  <2>1. Len(lg) \in 0..Len(lg)  BY <1>1
  <2> QED  BY <1>1, <1>4, <1>5, <2>1, UpTo
<1> QED  BY <1>6 DEF OpenTail

\* So the closers of any log of the session are events of the session.
LEMMA ClosersAreEvents ==
  ASSUME NEW lg \in Seq(LogEvent)
  PROVE  /\ interruptedTurnClosers(lg) \in Seq(LogEvent)
         /\ \A i \in 1..Len(interruptedTurnClosers(lg)) :
              interruptedTurnClosers(lg)[i].type # "assistant/message"
<1> DEFINE o == OpenTail(lg)
           k == Cardinality(o.pending)
           order == InOrder(o.pending)
           result(c) == Event("tool/result", o.turn, o.step, {c}, Outcome(o, c))
           results == [i \in 1..k |-> result(order[i])]
           Closer == {e \in LogEvent : e.type # "assistant/message"}
           closers == interruptedTurnClosers(lg)
<1>1. o \in OpenState  BY CursorIsInRange
<1>2. closers = IF o.turn = None THEN <<>> ELSE results \o StepCloser(o) \o <<TurnCloser(o)>>
  <2>1. Results(o) = results  BY DEF Results
  <2> HIDE DEF results
  <2> QED  BY <2>1 DEF interruptedTurnClosers, TurnCloser
<1> HIDE DEF o
<1>3. k \in Nat /\ \A i \in 1..k : order[i] \in Calls
  BY <1>1, InOrderEnumerates DEF OpenState
<1>4. o.turn \in 0..MaxTurns /\ o.step \in 0..MaxSteps /\ None \in 0..MaxSteps
  BY <1>1, BoundsAreNaturals DEF OpenState, None
<1>5. ASSUME NEW c \in Calls PROVE result(c) \in Closer
  BY <1>4, <1>5 DEF LogEvent, Event, EventTypes, Outcome
<1>6. Boundary("step/end", o.turn, o.step) \in Closer /\ TurnCloser(o) \in Closer
  BY <1>4 DEF LogEvent, Boundary, Event, EventTypes, TurnCloser
<1>7. results \in Seq(Closer)
  <2>1. \A i \in 1..k : result(order[i]) \in Closer  BY <1>3, <1>5
  <2> HIDE DEF result, order, k, Closer
  <2> QED  BY <1>3, <2>1
<1> HIDE DEF results, closers, Closer
<1>8. StepCloser(o) \in Seq(Closer)
  BY <1>6 DEF StepCloser
<1>9. <<TurnCloser(o)>> \in Seq(Closer)  BY <1>6
<1>10. results \o StepCloser(o) \in Seq(Closer)  BY <1>7, <1>8, ConcatProperties
<1>11. results \o StepCloser(o) \o <<TurnCloser(o)>> \in Seq(Closer)
  BY <1>9, <1>10, ConcatProperties
<1>12. closers \in Seq(Closer)
  BY <1>2, <1>11
<1>13. closers \in Seq(LogEvent)
  <2>1. Closer \subseteq LogEvent  BY DEF Closer
  <2> QED  BY <1>12, <2>1, SeqMonotonic
<1>14. \A i \in 1..Len(closers) : closers[i] \in Closer  BY <1>12
<1> QED  BY <1>13, <1>14 DEF closers, Closer

\* The session opens with nothing in its log.
LEMMA StartIsCut ==
  ASSUME RecoveryInit
  PROVE  CutInv
<1>1. /\ log = <<>> /\ stored = 0 /\ agent = Ready(0) /\ call = NoCalls /\ barrier = NoBarriers
  BY DEF RecoveryInit
<1>2. RecoveryTyped  BY StartIsRecoverable DEF RecoveryInv
<1>3. log \in Seq(LogEvent) /\ Len(log) = 0 /\ DOMAIN log = {}  BY <1>1, EmptySeq
<1>4. StepsAreApart  BY <1>1 DEF StepsAreApart, Ready
<1>5. CallsAreRecorded
  <2>1. \A c \in Calls : call[c] = "none"  BY <1>1 DEF NoCalls
  <2> QED  BY <2>1 DEF CallsAreRecorded
<1>6. AnsweredRequestsAreDurable  BY <1>3 DEF AnsweredRequestsAreDurable
<1> QED  BY <1>2, <1>3, <1>4, <1>5, <1>6 DEF CutInv

\* A step that appends nothing and moves no call.
LEMMA QuietKeeps ==
  ASSUME CutInv, log' = log, stored' \in stored..Len(log), UNCHANGED <<call, barrier, ran>>,
         crashes' = crashes,
         agent' \in AgentStates,
         agent.at = "calls" => agent'.at = "calls",
         agent'.at \in {"off", "streaming"} => stored' = Len(log)
  PROVE  CutInv'
<1>1. log \in Seq(LogEvent) /\ RecoveryTyped /\ StepsAreApart  BY DEF CutInv
<1>2. Len(log) \in Nat /\ stored \in 0..Len(log)  BY <1>1 DEF RecoveryTyped
<1>3. stored' \in 0..Len(log') /\ stored' \in Nat /\ stored <= stored'
  BY <1>2
<1>4. RecoveryTyped'  BY <1>1, <1>3 DEF RecoveryTyped, AgentStates
<1>5. StepsAreApart'  BY <1>1 DEF StepsAreApart
<1>6. call' \in [Calls -> CallStates] /\ \A c \in Calls : CallMoves(c)
  BY <1>1 DEF RecoveryTyped, CallStates, CallMoves
<1>7. \A i \in 1..Len(log') : ~(i > Len(log))  BY <1>2
<1>8. CallsAreRecorded' /\ AnsweredRequestsAreDurable'
  BY <1>1, <1>2, <1>3, <1>6, <1>7, GrowthKeeps
<1> QED  BY <1>1, <1>4, <1>5, <1>8 DEF CutInv

\* A request, an abort, what becomes durable, and a resume: its turn is one of
\* the session's even if the log was cut.
LEMMA QuietStepsKeep ==
  ASSUME CutInv, Request \/ Abort \/ Store \/ Resume \/ UNCHANGED recoveryVars
  PROVE  CutInv'
<1>1. log \in Seq(LogEvent) /\ RecoveryTyped /\ StepsAreApart  BY DEF CutInv
<1>2. /\ Len(log) \in Nat /\ stored \in 0..Len(log) /\ stored \in stored..Len(log)
      /\ agent \in AgentStates
  BY <1>1 DEF RecoveryTyped, AgentStates
<1>3. CASE Request
  <2>1. /\ agent.at = "step" /\ stored = Len(log) /\ agent' = [agent EXCEPT !.at = "streaming"]
        /\ UNCHANGED <<log, stored, call, barrier, ran, crashes>>
    BY <1>3 DEF Request, PrefixIsDurable
  <2>2. agent' \in AgentStates
    BY <1>2, <2>1 DEF AgentStates
  <2> QED  BY <1>2, <2>1, <2>2, QuietKeeps
<1>4. CASE Abort
  <2>1. agent' = [agent EXCEPT !.aborted = TRUE] /\ UNCHANGED <<log, stored, call, barrier, ran, crashes>>
    BY <1>4 DEF Abort
  <2>2. /\ agent'.at = agent.at
        /\ agent' \in AgentStates
    BY <1>2, <2>1 DEF AgentStates
  <2>3. agent'.at \in {"off", "streaming"} => stored' = Len(log)
    BY <1>1, <2>1, <2>2 DEF StepsAreApart
  <2> QED  BY <1>2, <2>1, <2>2, <2>3, QuietKeeps
<1>5. CASE Store
  <2>1. /\ agent.at # "off" /\ stored' \in stored + 1..Len(log)
        /\ UNCHANGED <<log, agent, call, barrier, ran, crashes>>
    BY <1>5 DEF Store
  <2>2. stored # Len(log) /\ stored' \in stored..Len(log)
    BY <1>2, <2>1
  <2>3. agent'.at \notin {"off", "streaming"}
    BY <1>1, <2>1, <2>2 DEF StepsAreApart
  <2> QED  BY <1>2, <2>1, <2>2, <2>3, QuietKeeps
<1>6. CASE Resume
  <2>1. /\ agent.at = "off" /\ agent' = Ready(LastTurn(log))
        /\ UNCHANGED <<log, stored, call, barrier, ran, crashes>>
    BY <1>6 DEF Resume
  <2>2. LastTurn(log) \in 0..MaxTurns  BY <1>1, LastTurnIs, LastTurnInRange
  <2>3. /\ agent'.at = "idle"
        /\ agent' \in AgentStates
    BY <2>1, <2>2, BoundsAreNaturals DEF Ready, None, AgentStates
  <2> QED  BY <1>2, <2>1, <2>3, QuietKeeps
<1>7. CASE UNCHANGED recoveryVars
  <2>1. UNCHANGED <<log, stored, agent, call, barrier, ran, crashes>>
    BY <1>7 DEF recoveryVars
  <2>2. agent'.at \in {"off", "streaming"} => stored' = Len(log)
    BY <1>1, <2>1 DEF StepsAreApart
  <2> QED  BY <1>2, <2>1, <2>2, QuietKeeps
<1> QED  BY <1>3, <1>4, <1>5, <1>6, <1>7

\* Turn and step boundaries leave the calls behind.
LEMMA BoundaryKeeps ==
  ASSUME CutInv, BeginTurn \/ EndTurn \/ EndStep
  PROVE  CutInv'
<1>1. log \in Seq(LogEvent) /\ RecoveryTyped /\ StepsAreApart  BY DEF CutInv
<1>2. /\ agent \in AgentStates /\ call \in [Calls -> CallStates] /\ barrier \in [Calls -> 0..Len(log)]
  BY <1>1 DEF RecoveryTyped, AgentStates, CallStates
<1>3. NoCalls \in [Calls -> CallStates] /\ \A c \in Calls : NoCalls[c] = "none"
  BY DEF NoCalls, CallStates
<1>4. PICK e \in LogEvent :
        /\ log' = Append(log, e) /\ e.type # "assistant/message"
        /\ agent' \in AgentStates /\ agent'.at \in {"idle", "turn"}
        /\ call' = NoCalls /\ barrier' = NoBarriers
        /\ stored' = stored /\ ran' = ran /\ crashes' = crashes
  <2>1. CASE BeginTurn
    <3> DEFINE e == Boundary("turn/start", agent.turn + 1, None)
    <3>1. /\ agent.at = "idle" /\ agent.turn < MaxTurns
          /\ agent' = [Ready(agent.turn + 1) EXCEPT !.at = "turn"] /\ log' = Append(log, e)
          /\ UNCHANGED <<stored, call, barrier, ran, crashes>>
      BY <2>1 DEF BeginTurn
    <3>2. agent.turn + 1 \in 0..MaxTurns /\ None \in 0..MaxSteps
      BY <1>2, <3>1, BoundsAreNaturals DEF AgentStates, None
    <3>3. e \in LogEvent /\ e.type # "assistant/message"
      BY <3>2 DEF Boundary, Event, LogEvent, EventTypes
    <3>4. agent' \in AgentStates /\ agent'.at = "turn"
      BY <3>1, <3>2 DEF AgentStates, Ready
    <3>5. call' = NoCalls /\ barrier' = NoBarriers  BY <1>1, <3>1 DEF StepsAreApart
    <3> HIDE DEF e
    <3> QED  BY <3>1, <3>3, <3>4, <3>5
  <2>2. CASE EndTurn
    <3> DEFINE e == Boundary("turn/end", agent.turn, None)
    <3>1. /\ agent.at = "turn" /\ agent' = Ready(agent.turn) /\ log' = Append(log, e)
          /\ UNCHANGED <<stored, call, barrier, ran, crashes>>
      BY <2>2 DEF EndTurn
    <3>2. agent.turn \in 0..MaxTurns /\ None \in 0..MaxSteps
      BY <1>2, BoundsAreNaturals DEF AgentStates, None
    <3>3. e \in LogEvent /\ e.type # "assistant/message"
      BY <3>2 DEF Boundary, Event, LogEvent, EventTypes
    <3>4. agent' \in AgentStates /\ agent'.at = "idle"
      BY <3>1, <3>2 DEF AgentStates, Ready
    <3>5. call' = NoCalls /\ barrier' = NoBarriers  BY <1>1, <3>1 DEF StepsAreApart
    <3> HIDE DEF e
    <3> QED  BY <3>1, <3>3, <3>4, <3>5
  <2>3. CASE EndStep
    <3> DEFINE e == Event("step/end", agent.turn, agent.step, {}, "none")
    <3>1. /\ agent' = [agent EXCEPT !.at = "turn"] /\ log' = Appended("step/end", {}, "none")
          /\ call' = NoCalls /\ barrier' = NoBarriers /\ UNCHANGED <<stored, ran, crashes>>
      BY <2>3 DEF EndStep
    <3>2. /\ e \in LogEvent /\ Appended("step/end", {}, "none") = Append(log, e)
          /\ e.type = "step/end"
      BY <1>1, LineIs DEF EventTypes
    <3>3. agent' \in AgentStates /\ agent'.at = "turn"
      BY <1>2, <3>1 DEF AgentStates
    <3> HIDE DEF e
    <3> QED  BY <3>1, <3>2, <3>3
  <2> QED  BY <2>1, <2>2, <2>3
<1>5. call' \in [Calls -> CallStates] /\ \A c \in Calls : CallMoves(c)
  BY <1>3, <1>4 DEF CallMoves
<1>6. /\ CallsAreRecorded' /\ AnsweredRequestsAreDurable' /\ log' \in Seq(LogEvent)
      /\ stored' \in 0..Len(log') /\ \A i \in 0..Len(log) : i \in 0..Len(log')
  BY <1>4, <1>5, OneLineKeeps
<1>7. barrier' \in [Calls -> 0..Len(log')]
  <2>1. 0 \in 0..Len(log')  BY <1>6
  <2> QED  BY <1>4, <2>1 DEF NoBarriers
<1>8. RecoveryTyped'  BY <1>1, <1>4, <1>5, <1>6, <1>7 DEF RecoveryTyped, AgentStates, CallStates
<1>9. StepsAreApart'  BY <1>4 DEF StepsAreApart
<1> QED  BY <1>6, <1>8, <1>9 DEF CutInv

\* A step that appends within an open step, and moves its calls.
LEMMA StepKeeps ==
  ASSUME CutInv, agent' \in AgentStates, agent'.at \in {"step", "calls"},
         agent'.at = "step" => call' = NoCalls /\ barrier' = NoBarriers,
         barrier' \in [Calls -> 0..Len(log')], call' \in [Calls -> CallStates],
         log' \in Seq(LogEvent), stored' \in 0..Len(log'), ran' = ran, crashes' = crashes,
         CallsAreRecorded', AnsweredRequestsAreDurable'
  PROVE  CutInv'
<1>1. RecoveryTyped  BY DEF CutInv
<1>2. RecoveryTyped'  BY <1>1 DEF RecoveryTyped, AgentStates, CallStates
<1>3. StepsAreApart'  BY DEF StepsAreApart
<1> QED  BY <1>2, <1>3 DEF CutInv

\* A step begins with no call.
LEMMA BeginStepKeeps ==
  ASSUME CutInv, BeginStep
  PROVE  CutInv'
<1> DEFINE a == Boundary("step/start", agent.turn, agent.step + 1)
           b == Boundary("user/message", None, None)
<1>1. /\ agent.at = "turn" /\ agent.step < MaxSteps
      /\ agent' = [agent EXCEPT !.at = "step", !.step = @ + 1]
      /\ log' = log \o <<a, b>>
      /\ stored' = stored /\ call' = call /\ barrier' = barrier
      /\ ran' = ran /\ crashes' = crashes
  BY DEF BeginStep
<1>2. /\ log \in Seq(LogEvent) /\ RecoveryTyped /\ call = NoCalls /\ barrier = NoBarriers
  BY <1>1 DEF CutInv, StepsAreApart
<1>3. /\ agent \in AgentStates /\ call \in [Calls -> CallStates] /\ barrier \in [Calls -> 0..Len(log)]
  BY <1>2 DEF RecoveryTyped, AgentStates, CallStates
<1>4. /\ agent.step + 1 \in 0..MaxSteps /\ agent.turn \in 0..MaxTurns
      /\ None \in 0..MaxTurns /\ None \in 0..MaxSteps
  BY <1>1, <1>3, BoundsAreNaturals DEF AgentStates, None
<1>5. /\ a \in LogEvent /\ a.type = "step/start" /\ b \in LogEvent /\ b.type = "user/message"
  BY <1>4 DEF Boundary, Event, LogEvent, EventTypes
<1>6. agent' \in AgentStates /\ agent'.at = "step"
  BY <1>1, <1>3, <1>4 DEF AgentStates
<1> HIDE DEF a, b
<1>7. log' = Append(Append(log, a), b)
  BY <1>1, <1>2, <1>5, TwoMore
<1>8. call' \in [Calls -> CallStates] /\ \A c \in Calls : CallMoves(c)
  BY <1>1, <1>3 DEF CallMoves
<1>9. /\ CallsAreRecorded' /\ AnsweredRequestsAreDurable' /\ log' \in Seq(LogEvent)
      /\ stored' \in 0..Len(log') /\ \A i \in 0..Len(log) : i \in 0..Len(log')
  BY <1>1, <1>5, <1>7, <1>8, TwoLinesKeep
<1>10. barrier' \in [Calls -> 0..Len(log')]  BY <1>1, <1>3, <1>9
<1> QED  BY <1>1, <1>2, <1>6, <1>8, <1>9, <1>10, StepKeeps

\* The answer comes on a durable log.
LEMMA MessageKeeps ==
  ASSUME CutInv, NEW k \in 0..MaxCalls, Message(k)
  PROVE  CutInv'
<1> DEFINE first == Cardinality(Requested) + 1
           asked == first .. first + k - 1
           e == Event("assistant/message", agent.turn, agent.step, asked, "none")
<1>1. /\ agent.at = "streaming" /\ asked \subseteq Calls
      /\ agent' = [agent EXCEPT !.at = "calls"]
      /\ call' = [c \in Calls |-> IF c \in asked THEN "asked" ELSE "none"]
      /\ log' = Appended("assistant/message", asked, "none")
      /\ stored' = stored /\ barrier' = barrier /\ ran' = ran /\ crashes' = crashes
  BY DEF Message
<1> HIDE DEF asked
<1>2. /\ log \in Seq(LogEvent) /\ RecoveryTyped /\ stored = Len(log)
  BY <1>1 DEF CutInv, StepsAreApart
<1>3. /\ agent \in AgentStates /\ barrier \in [Calls -> 0..Len(log)]
  BY <1>2 DEF RecoveryTyped, AgentStates
<1>4. e \in LogEvent /\ Appended("assistant/message", asked, "none") = Append(log, e)
  BY <1>1, <1>2, LineIs DEF EventTypes
<1> HIDE DEF e
<1>5. call' \in [Calls -> CallStates] /\ \A c \in Calls : CallMoves(c)
  BY <1>1 DEF CallMoves, CallStates
<1>6. /\ CallsAreRecorded' /\ AnsweredRequestsAreDurable' /\ log' \in Seq(LogEvent)
      /\ stored' \in 0..Len(log') /\ \A i \in 0..Len(log) : i \in 0..Len(log')
  BY <1>1, <1>2, <1>4, <1>5, OneLineKeeps
<1>7. barrier' \in [Calls -> 0..Len(log')]  BY <1>1, <1>3, <1>6
<1>8. agent' \in AgentStates /\ agent'.at = "calls"  BY <1>1, <1>3 DEF AgentStates
<1> QED  BY <1>1, <1>5, <1>6, <1>7, <1>8, StepKeeps

\* Only a step that was answered has calls.
LEMMA CallsAreAsked ==
  ASSUME CutInv, NEW c \in Calls, call[c] # "none"
  PROVE  agent.at = "calls"
<1>1. call # NoCalls  BY DEF NoCalls
<1> QED  BY <1>1 DEF CutInv, StepsAreApart

\* A call starts with its record, and waits for it.
LEMMA StartCallKeeps ==
  ASSUME CutInv, StartCall
  PROVE  CutInv'
<1> DEFINE c == FirstOf(In("asked"))
           e == Event("tool/call", agent.turn, agent.step, {c}, "none")
<1>1. /\ agent.at = "calls" /\ In("asked") # {}
      /\ log' = Appended("tool/call", {c}, "none")
      /\ call' = [call EXCEPT ![c] = "recorded"]
      /\ barrier' = [barrier EXCEPT ![c] = Len(log) + 1]
      /\ stored' = stored /\ agent' = agent /\ ran' = ran /\ crashes' = crashes
  BY DEF StartCall
<1>2. c \in Calls
  <2>1. In("asked") \in SUBSET Calls  BY DEF In
  <2> QED  BY <1>1, <2>1, FirstIs
<1> HIDE DEF c
<1>3. /\ log \in Seq(LogEvent) /\ RecoveryTyped  BY DEF CutInv
<1>4. /\ agent \in AgentStates /\ call \in [Calls -> CallStates] /\ barrier \in [Calls -> 0..Len(log)]
      /\ stored \in 0..Len(log)
  BY <1>3 DEF RecoveryTyped, AgentStates, CallStates
<1>5. /\ e \in LogEvent /\ Appended("tool/call", {c}, "none") = Append(log, e)
      /\ e.type = "tool/call" /\ e.calls = {c}
  BY <1>2, <1>3, LineIs DEF EventTypes
<1> HIDE DEF e
<1>6. /\ log' \in Seq(LogEvent) /\ Len(log') = Len(log) + 1 /\ log'[Len(log) + 1] = e
      /\ Len(log) \in Nat /\ \A i \in 0..Len(log) : i \in 0..Len(log')
  <2>1. log' = Append(log, e)  BY <1>1, <1>5
  <2> QED  BY <1>3, <1>5, <2>1, LogIsLonger
<1>7. Len(log) + 1 \in 1..Len(log') /\ Len(log) + 1 \in 0..Len(log')  BY <1>6
<1>8. /\ call' \in [Calls -> CallStates] /\ barrier' \in [Calls -> 0..Len(log')]
      /\ call'[c] = "recorded" /\ barrier'[c] = Len(log) + 1
      /\ \A d \in Calls \ {c} : call'[d] = call[d] /\ barrier'[d] = barrier[d]
  <2>1. call' \in [Calls -> CallStates] /\ call'[c] = "recorded"
        /\ \A d \in Calls \ {c} : call'[d] = call[d]
    BY <1>1, <1>2, <1>4 DEF CallStates
  <2>2. barrier \in [Calls -> 0..Len(log')]  BY <1>4, <1>6
  <2>3. /\ barrier' \in [Calls -> 0..Len(log')] /\ barrier'[c] = Len(log) + 1
        /\ \A d \in Calls \ {c} : barrier'[d] = barrier[d]
    BY <1>1, <1>2, <1>7, <2>2
  <2> QED  BY <2>1, <2>3
<1>9. RecordIsAt(log', barrier'[c], c)
  BY <1>5, <1>6, <1>7, <1>8 DEF RecordIsAt
<1>10. \A d \in Calls : CallMoves(d)
  <2>1. CallMoves(c)  BY <1>8, <1>9 DEF CallMoves
  <2>2. \A d \in Calls \ {c} : CallMoves(d)  BY <1>8 DEF CallMoves
  <2> QED  BY <2>1, <2>2
<1>11. /\ CallsAreRecorded' /\ AnsweredRequestsAreDurable' /\ stored' \in 0..Len(log')
  BY <1>1, <1>5, <1>8, <1>10, OneLineKeeps
<1> QED  BY <1>1, <1>4, <1>6, <1>8, <1>11, StepKeeps

\* A body runs behind its record, a call may end without one.
LEMMA CallKeeps ==
  ASSUME CutInv, NEW c \in Calls, RunBody(c) \/ Withhold(c) \/ SettleCall(c)
  PROVE  CutInv'
<1>1. log \in Seq(LogEvent) /\ RecoveryTyped /\ StepsAreApart  BY DEF CutInv
<1>2. /\ call \in [Calls -> CallStates] /\ stored \in 0..Len(log) /\ Len(log) \in Nat
  BY <1>1 DEF RecoveryTyped, CallStates
<1>3. /\ UNCHANGED <<log, stored, agent, barrier, crashes>>
      /\ call' \in [Calls -> CallStates] /\ \A d \in Calls \ {c} : call'[d] = call[d]
  BY <1>2 DEF RunBody, Withhold, SettleCall, CallStates
<1>4. /\ call[c] \in {"recorded", "running"}
      /\ \/ call[c] = "recorded" /\ call'[c] = "running" /\ stored >= barrier[c]
         \/ call'[c] = "settled"
  BY <1>2 DEF RunBody, Withhold, SettleCall, Checkpointed
<1>5. ran' \in SUBSET Calls
  <2>1. ran' \in {ran, ran \cup {c}}  BY DEF RunBody, Withhold, SettleCall
  <2> QED  BY <1>1, <2>1 DEF RecoveryTyped
<1>6. agent.at = "calls"  BY <1>4, CallsAreAsked
<1>7. \A d \in Calls : CallMoves(d)
  <2>1. CallMoves(c)  BY <1>3, <1>4 DEF CallMoves
  <2>2. \A d \in Calls \ {c} : CallMoves(d)  BY <1>3 DEF CallMoves
  <2> QED  BY <2>1, <2>2
<1>8. \A i \in 1..Len(log') : ~(i > Len(log))  BY <1>2, <1>3
<1>9. stored' \in Nat /\ stored <= stored' /\ Len(log) <= Len(log')  BY <1>2, <1>3
<1>10. CallsAreRecorded' /\ AnsweredRequestsAreDurable'
  BY <1>1, <1>3, <1>7, <1>8, <1>9, GrowthKeeps
<1>11. RecoveryTyped'  BY <1>1, <1>3, <1>5 DEF RecoveryTyped, CallStates
<1>12. StepsAreApart'  BY <1>1, <1>3, <1>6 DEF StepsAreApart
<1> QED  BY <1>1, <1>3, <1>10, <1>11, <1>12 DEF CutInv

\* A result is recorded.
LEMMA CommitKeeps ==
  ASSUME CutInv, Commit
  PROVE  CutInv'
<1> DEFINE c == FirstOf(Started)
           e == Event("tool/result", agent.turn, agent.step, {c}, "ok")
<1>1. /\ Started # {} /\ call[c] = "settled"
      /\ log' = Appended("tool/result", {c}, "ok")
      /\ call' = [call EXCEPT ![c] = "answered"]
      /\ stored' = stored /\ agent' = agent /\ barrier' = barrier
      /\ ran' = ran /\ crashes' = crashes
  BY DEF Commit
<1>2. c \in Calls
  <2>1. Started \in SUBSET Calls  BY DEF Started, In
  <2> QED  BY <1>1, <2>1, FirstIs
<1> HIDE DEF c
<1>3. agent.at = "calls"  BY <1>1, <1>2, CallsAreAsked
<1>4. /\ log \in Seq(LogEvent) /\ RecoveryTyped  BY DEF CutInv
<1>5. /\ agent \in AgentStates /\ call \in [Calls -> CallStates] /\ barrier \in [Calls -> 0..Len(log)]
  BY <1>4 DEF RecoveryTyped, AgentStates, CallStates
<1>6. /\ e \in LogEvent /\ Appended("tool/result", {c}, "ok") = Append(log, e)
      /\ e.type = "tool/result"
  BY <1>2, <1>4, LineIs DEF EventTypes
<1> HIDE DEF e
<1>7. /\ call' \in [Calls -> CallStates] /\ call'[c] = "answered"
      /\ \A d \in Calls \ {c} : call'[d] = call[d]
  BY <1>1, <1>2, <1>5 DEF CallStates
<1>8. \A d \in Calls : CallMoves(d)
  <2>1. CallMoves(c)  BY <1>7 DEF CallMoves
  <2>2. \A d \in Calls \ {c} : CallMoves(d)  BY <1>1, <1>7 DEF CallMoves
  <2> QED  BY <2>1, <2>2
<1>9. /\ CallsAreRecorded' /\ AnsweredRequestsAreDurable' /\ log' \in Seq(LogEvent)
      /\ stored' \in 0..Len(log') /\ \A i \in 0..Len(log) : i \in 0..Len(log')
  BY <1>1, <1>6, <1>7, <1>8, OneLineKeeps
<1>10. barrier' \in [Calls -> 0..Len(log')]  BY <1>1, <1>5, <1>9
<1> QED  BY <1>1, <1>3, <1>5, <1>7, <1>9, <1>10, StepKeeps

\* A skipped call has its record and its result at once.
LEMMA SkipKeeps ==
  ASSUME CutInv, Skip
  PROVE  CutInv'
<1> DEFINE c == FirstOf(In("asked"))
           a == Event("tool/call", agent.turn, agent.step, {c}, "none")
           b == Event("tool/result", agent.turn, agent.step, {c}, "ok")
<1>1. /\ agent.at = "calls" /\ In("asked") # {}
      /\ log' = Appended("tool/call", {c}, "none") \o <<b>>
      /\ call' = [call EXCEPT ![c] = "answered"]
      /\ barrier' = barrier
      /\ stored' = stored /\ agent' = agent /\ ran' = ran /\ crashes' = crashes
  BY DEF Skip
<1>2. c \in Calls
  <2>1. In("asked") \in SUBSET Calls  BY DEF In
  <2> QED  BY <1>1, <2>1, FirstIs
<1> HIDE DEF c
<1>3. /\ log \in Seq(LogEvent) /\ RecoveryTyped  BY DEF CutInv
<1>4. /\ agent \in AgentStates /\ call \in [Calls -> CallStates] /\ barrier \in [Calls -> 0..Len(log)]
  BY <1>3 DEF RecoveryTyped, AgentStates, CallStates
<1>5. /\ a \in LogEvent /\ Appended("tool/call", {c}, "none") = Append(log, a)
      /\ a.type = "tool/call"
  BY <1>2, <1>3, LineIs DEF EventTypes
<1>6. b \in LogEvent /\ b.type = "tool/result"
  BY <1>2, <1>3, LineIs DEF EventTypes
<1> HIDE DEF a, b
<1>7. log' = Append(Append(log, a), b)
  <2>1. Append(log, a) \in Seq(LogEvent)  BY <1>3, <1>5, AppendProperties
  <2>2. Append(log, a) \o <<b>> = Append(Append(log, a), b)  BY <1>6, <2>1, AppendIsConcat
  <2> QED  BY <1>1, <1>5, <2>2
<1>8. /\ call' \in [Calls -> CallStates] /\ call'[c] = "answered"
      /\ \A d \in Calls \ {c} : call'[d] = call[d]
  BY <1>1, <1>2, <1>4 DEF CallStates
<1>9. \A d \in Calls : CallMoves(d)
  <2>1. CallMoves(c)  BY <1>8 DEF CallMoves
  <2>2. \A d \in Calls \ {c} : CallMoves(d)  BY <1>1, <1>8 DEF CallMoves
  <2> QED  BY <2>1, <2>2
<1>10. /\ CallsAreRecorded' /\ AnsweredRequestsAreDurable' /\ log' \in Seq(LogEvent)
       /\ stored' \in 0..Len(log') /\ \A i \in 0..Len(log) : i \in 0..Len(log')
  BY <1>1, <1>5, <1>6, <1>7, <1>8, <1>9, TwoLinesKeep
<1>11. barrier' \in [Calls -> 0..Len(log')]  BY <1>1, <1>4, <1>10
<1> QED  BY <1>1, <1>4, <1>8, <1>10, <1>11, StepKeeps

\* A crash keeps what is durable, a rewind what the user chose.
LEMMA CutsKeep ==
  ASSUME CutInv, Crash \/ \E n \in DOMAIN log : Rewind(n)
  PROVE  CutInv'
<1>1. log \in Seq(LogEvent) /\ RecoveryTyped /\ StepsAreApart  BY DEF CutInv
<1>2. /\ agent \in AgentStates /\ stored \in 0..Len(log) /\ crashes \in 0..MaxCrashes
      /\ Len(log) \in Nat /\ DOMAIN log = 1..Len(log)
  BY <1>1 DEF RecoveryTyped, AgentStates
<1>3. CASE Crash
  <2>1. /\ crashes < MaxCrashes /\ crashes' = crashes + 1 /\ log' = SubSeq(log, 1, stored)
        /\ agent' = Off /\ call' = NoCalls /\ barrier' = NoBarriers
        /\ stored' = stored /\ ran' = ran
    BY <1>3 DEF Crash
  <2>2. agent' \in AgentStates  BY <2>1, BoundsAreNaturals DEF Off, None, AgentStates
  <2>3. crashes' \in 0..MaxCrashes  BY <1>2, <2>1, BoundsAreNaturals
  <2> QED  BY <1>2, <2>1, <2>2, <2>3, CutKeeps DEF AgentStates
<1>4. CASE \E n \in DOMAIN log : Rewind(n)
  <2>1. PICK n \in DOMAIN log : Rewind(n)  BY <1>4
  <2>2. /\ agent.at = "idle" /\ log' = SubSeq(log, 1, n) /\ stored' = n
        /\ UNCHANGED <<agent, call, barrier, ran, crashes>>
    BY <2>1 DEF Rewind
  <2>3. call' = NoCalls /\ barrier' = NoBarriers  BY <1>1, <2>2 DEF StepsAreApart
  <2>4. n \in 0..Len(log)  BY <1>2
  <2> QED  BY <1>2, <2>2, <2>3, <2>4, CutKeeps DEF AgentStates
<1> QED  BY <1>3, <1>4

\* Whatever part of the closers is written, it is all durable.
LEMMA RepairKeeps ==
  ASSUME CutInv, NEW n, Repair(n)
  PROVE  CutInv'
<1> DEFINE closers == interruptedTurnClosers(log)
           part == SubSeq(closers, 1, n)
<1>1. /\ agent.at = "off" /\ n \in 1..Len(closers)
      /\ log' = log \o part /\ stored' = Len(log) + n
      /\ UNCHANGED <<agent, call, barrier, ran, crashes>>
  BY DEF Repair, Written
<1>2. /\ log \in Seq(LogEvent) /\ RecoveryTyped /\ call = NoCalls /\ barrier = NoBarriers
      /\ stored = Len(log)
  BY <1>1 DEF CutInv, StepsAreApart
<1>3. closers \in Seq(LogEvent)  BY <1>2, ClosersAreEvents
<1> HIDE DEF closers
<1>4. Len(closers) \in Nat /\ Len(log) \in Nat /\ n \in Nat /\ n <= Len(closers)
  BY <1>1, <1>2, <1>3
<1>5. part \in Seq(LogEvent) /\ Len(part) = n
  <2>1. \A i \in 1..n : closers[i] \in LogEvent  BY <1>3, <1>4
  <2> QED  BY <1>3, <1>4, <2>1, SubSeqProperties
<1> HIDE DEF part
<1>6. log' \in Seq(LogEvent) /\ Len(log') = Len(log) + n
  BY <1>1, <1>2, <1>5, ConcatProperties
<1>7. Len(log') \in Nat /\ DOMAIN log' = 1..Len(log') /\ stored' = Len(log')
      /\ stored' \in 0..Len(log')
  BY <1>1, <1>4, <1>6
<1>8. barrier' \in [Calls -> 0..Len(log')]
  <2>1. 0 \in 0..Len(log')  BY <1>7
  <2> QED  BY <1>1, <1>2, <2>1 DEF NoBarriers
<1>9. RecoveryTyped'  BY <1>1, <1>2, <1>7, <1>8 DEF RecoveryTyped
<1>10. StepsAreApart'  BY <1>1, <1>2, <1>7 DEF StepsAreApart
<1>11. CallsAreRecorded'
  <2>1. \A c \in Calls : call'[c] = "none"  BY <1>1, <1>2 DEF NoCalls
  <2> QED  BY <2>1 DEF CallsAreRecorded
<1>12. AnsweredRequestsAreDurable'
  <2>1. \A i \in 1..Len(log') : stored' >= i - 1  BY <1>7
  <2> QED  BY <1>7, <2>1 DEF AnsweredRequestsAreDurable
<1> QED  BY <1>6, <1>9, <1>10, <1>11, <1>12 DEF CutInv

\* The invariant holds of every session, rewound or not.
LEMMA CutHolds == RecoverySpec => []CutInv
<1>1. RecoveryInit => CutInv  BY StartIsCut
<1>2. CutInv /\ [RecoveryNext]_recoveryVars => CutInv'
  <2> SUFFICES ASSUME CutInv, [RecoveryNext]_recoveryVars PROVE CutInv'
    OBVIOUS
  <2>1. CASE BeginTurn \/ EndTurn \/ EndStep  BY <2>1, BoundaryKeeps
  <2>2. CASE BeginStep  BY <2>2, BeginStepKeeps
  <2>3. CASE Request \/ Abort \/ Store \/ Resume \/ UNCHANGED recoveryVars
    BY <2>3, QuietStepsKeep
  <2>4. CASE StartCall  BY <2>4, StartCallKeeps
  <2>5. CASE Commit  BY <2>5, CommitKeeps
  <2>6. CASE Skip  BY <2>6, SkipKeeps
  <2>7. CASE Crash \/ \E n \in DOMAIN log : Rewind(n)  BY <2>7, CutsKeep
  <2>8. CASE \E k \in 0..MaxCalls : Message(k)  BY <2>8, MessageKeeps
  <2>9. CASE \E c \in Calls : RunBody(c) \/ Withhold(c) \/ SettleCall(c)
    BY <2>9, CallKeeps
  <2>10. CASE \E n \in 1..MaxCalls + 2 : Repair(n)  BY <2>10, RepairKeeps
  <2> QED  BY <2>1, <2>2, <2>3, <2>4, <2>5, <2>6, <2>7, <2>8, <2>9, <2>10 DEF RecoveryNext
<1> QED  BY <1>1, <1>2, PTL DEF RecoverySpec

\* While the body of a call runs, its record is durable.
RunningIsRecorded ==
  \A c \in Calls : call[c] = "running" =>
    \E i \in 1..stored : log[i].type = "tool/call" /\ log[i].calls = {c}

-----------------------------------------------------------------------------
(* Crash recovery: the theorems.                                           *)

\* Every log a session ever has, the one a crash leaves and one whose repair was
\* cut short included, is one the invariant companion accepts event by event.
THEOREM LogStaysValid ==
  ASSUME "rewind" \notin Admitted
  PROVE  RecoverySpec => []LogIsValid
<1>1. RecoveryInv => LogIsValid  BY ScannedIs DEF RecoveryInv, LogIsValid
<1> QED  BY <1>1, RecoveryHolds, PTL

\* No effect is unknown to the durable log, no answered request can be lost, and
\* what a repair says of a call is what happened to it.
THEOREM RecordStaysHonest ==
  ASSUME "rewind" \notin Admitted
  PROVE  RecoverySpec => []RecordIsHonest
<1>1. RecoveryInv => RecordIsHonest
  BY RecoveryTypesHold, VerdictsAreTrue DEF RecoveryInv, RecordIsHonest, CheckpointsHold
<1> QED  BY <1>1, RecoveryHolds, PTL

\* A resumed session has nothing open, and exactly one result for each call the
\* model asked for, in the step that asked.
THEOREM ResumedLogStaysClosed ==
  ASSUME "rewind" \notin Admitted, "scheduler-failure" \notin Admitted
  PROVE  RecoverySpec => []ResumedLogIsClosed
<1>1. RecoveryInv => ResumedLogIsClosed  BY IdleIsClosed
<1> QED  BY <1>1, RecoveryHolds, PTL

\* Whatever a rewind cuts, the agent that goes on unaware of it keeps the promises
\* of the checkpoint policy as it works: no body runs before its record is durable,
\* and no answer is recorded whose request may still be lost.
THEOREM CheckpointsSurviveRewinds ==
  RecoverySpec => [](RecoveryTypeOK /\ RunningIsRecorded /\ AnsweredRequestsAreDurable)
<1>1. CutInv => RecoveryTypeOK
  <2> SUFFICES ASSUME CutInv PROVE RecoveryTypeOK
    OBVIOUS
  <2> DEFINE Plain == [type : EventTypes, turn : 0 .. MaxTurns, step : 0 .. MaxSteps,
                       calls : SUBSET Calls,
                       code : {"none", "ok", "unknown", "not-started", "interrupted"}]
  <2>1. log \in Seq(LogEvent) /\ RecoveryTyped  BY DEF CutInv
  <2>2. LogEvent \subseteq Plain  BY DEF LogEvent
  <2> HIDE DEF Plain
  <2>3. log \in Seq(Plain)  BY <2>1, <2>2, SeqMonotonic
  <2> QED  BY <2>1, <2>3 DEF RecoveryTyped, RecoveryTypeOK, Plain
<1>2. CutInv => RunningIsRecorded
  <2> SUFFICES ASSUME CutInv, NEW c \in Calls, call[c] = "running"
               PROVE  \E i \in 1..stored : log[i].type = "tool/call" /\ log[i].calls = {c}
    BY DEF RunningIsRecorded
  <2>1. RecordIsAt(log, barrier[c], c) /\ stored >= barrier[c]
    BY DEF CutInv, CallsAreRecorded
  <2>2. stored \in Nat /\ log \in Seq(LogEvent)  BY DEF CutInv, RecoveryTyped
  <2>3. barrier[c] \in 1..stored  BY <2>1, <2>2 DEF RecordIsAt
  <2> QED  BY <2>1, <2>3 DEF RecordIsAt
<1>3. CutInv => AnsweredRequestsAreDurable  BY DEF CutInv
<1> QED  BY <1>1, <1>2, <1>3, CutHolds, PTL
=============================================================================
